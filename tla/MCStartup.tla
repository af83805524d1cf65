----------------------------- MODULE MCStartup -----------------------------
(***************************************************************************)
(* Five of the thirteen settings: two required ones, the two that choose   *)
(* the content processor, and a number.  OPENAI_API_KEY is exported.  A    *)
(* .env file of at most two lines.                                         *)
(***************************************************************************)
EXTENDS Startup, TLC

MCPrompts ==
    <<"EITAA_TOKEN", "SOURCE_CHANNELS", "AI_PROVIDER", "AI_API_KEY", "FETCH_INTERVAL_SECONDS">>

MCAnswers ==
    ("EITAA_TOKEN" :> {"token"}) @@ ("SOURCE_CHANNELS" :> {"channel"})
    @@ ("AI_PROVIDER" :> {"passthrough", "typo"})
    @@ ("AI_API_KEY" :> {"key"}) @@ ("FETCH_INTERVAL_SECONDS" :> {"soon"})

MCDefault ==
    ("EITAA_TOKEN" :> "") @@ ("SOURCE_CHANNELS" :> "")
    @@ ("AI_PROVIDER" :> "yasinai")
    @@ ("AI_API_KEY" :> "openai") @@ ("FETCH_INTERVAL_SECONDS" :> "3600")
=============================================================================
