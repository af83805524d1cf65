------------------------------ MODULE Startup ------------------------------
(***************************************************************************)
(* The start of `yasinrelay run' (cli.py, config.py, yasinai_adapter.py):  *)
(* the environment is filled from the .env file, an interactive start asks *)
(* for the settings and saves them, load_config reads them, and the        *)
(* content processor is built from them.  The process may be killed at any *)
(* point and started again, with prompts or without.                       *)
(*                                                                         *)
(* The file is the sequence of its KEY=value lines; comments are left out. *)
(* python-dotenv is external: the last line of a key counts, and a         *)
(* variable of the shell is never overridden.                              *)
(***************************************************************************)
EXTENDS Naturals, Sequences, FiniteSets, Places

CONSTANTS
    Prompts,    \* the settings, in the order of the prompts
    Required,   \* settings without a default that must be given
    Answers,    \* [settings -> what the user may type]
    Default,    \* [settings -> value without an entry]; OPENAI_API_KEY's for AI_API_KEY
    Numbers,    \* settings that load_config passes to int()
    Malformed,  \* texts that int() refuses
    Sources,    \* SOURCE_CHANNELS
    Provider,   \* AI_PROVIDER
    ApiKey,     \* AI_API_KEY
    Others,     \* other keys of the file
    Text,       \* a value of theirs, and the text of a post
    Blank,      \* the empty string
    Unset,      \* no environment variable
    FileLength, \* bound: lines of the first .env file
    MaxExported \* bound: settings that the shell exports

Keys == {Prompts[k] : k \in DOMAIN Prompts}

Values(k) == Answers[k] \cup {Default[k], Blank}

ASSUME StartupAssumption ==
    /\ Prompts \in Seq(Keys) /\ FileLength \in Nat /\ MaxExported \in Nat
    /\ Blank \notin {Text, "improved"}
    /\ \A i, j \in DOMAIN Prompts : Prompts[i] = Prompts[j] => i = j
    /\ Required \subseteq Keys /\ Numbers \subseteq Keys
    /\ {Sources, Provider, ApiKey} \subseteq Keys /\ Others \cap Keys = {}
    /\ \A k \in Keys : Unset \notin Values(k) /\ Blank \notin Answers[k]
    /\ \A k \in Required : Default[k] = Blank

VARIABLES
    shell,      \* exported variables
    sameFile,   \* load_dotenv finds the file that ENV_FILE names
    installed,  \* is_yasinai_available()
    file,       \* lines of ENV_FILE
    env,        \* os.environ
    phase,
    answers,    \* values of configure_interactively, in the order of the prompts
    content,    \* what _write_env is about to write
    processor,  \* what build_content_processor returned
    prompted,   \* history: this process asked for the settings
    kept,       \* history: the answers saved last, <<>> if a write was cut off
    others      \* history: the other lines of the first file, at their places

vars == <<shell, sameFile, installed, file, env, phase, answers, content,
          processor, prompted, kept, others>>

Lines == (UNION {[key : {k}, value : Values(k)] : k \in Keys})
             \cup [key : Others, value : {Text}]

TypeOK ==
    /\ \A k \in Keys : /\ shell[k] \in Values(k) \cup {Unset}
                       /\ env[k] \in Values(k) \cup {Unset}
    /\ file \in Seq(Lines) /\ content \in Seq(Lines)
    /\ others \in UNION {[places -> Lines] : places \in SUBSET (1 .. FileLength)}
    /\ phase \in {"off", "prompts", "writing", "load", "running"}
    /\ \A given \in {answers, kept} :
           /\ given \in Seq(UNION {Values(k) : k \in Keys}) /\ Len(given) <= Len(Prompts)
           /\ \A i \in DOMAIN given : given[i] \in Values(Prompts[i])
    /\ processor \in {"none", "yasinai", "passthrough"}

----------------------------------------------------------------------------
(* Settings *)

Setting(k) == IF env[k] = Unset THEN Default[k] ELSE env[k]

LinesOf(k) == {i \in DOMAIN file : file[i].key = k}

OthersOf(lines) == [i \in {j \in DOMAIN lines : lines[j].key \in Others} |-> lines[i]]

OtherLines == OthersOf(file)

\* load_dotenv: the shell's value, or that of the last line of the key.
FromFile(k) ==
    IF shell[k] # Unset THEN shell[k]
    ELSE IF sameFile /\ LinesOf(k) # {}
    THEN file[CHOOSE i \in LinesOf(k) : \A j \in LinesOf(k) : j <= i].value
    ELSE Unset

AnswerTo(k) == answers[CHOOSE i \in DOMAIN Prompts : Prompts[i] = k]

Line(k) == [key |-> k, value |-> AnswerTo(k)]

\* _write_env: the first line of a setting is replaced, the settings without a
\* line follow at the end.  The mutant writes the settings alone.
SettingsAlone == [k \in DOMAIN Prompts |-> Line(Prompts[k])]
Updated ==
    LET First(i) == \A j \in 1 .. i - 1 : file[j].key # file[i].key
        New == InOrder({i \in DOMAIN Prompts : LinesOf(Prompts[i]) = {}})
    IN  [i \in DOMAIN file |->
            IF file[i].key \in Keys /\ First(i) THEN Line(file[i].key) ELSE file[i]]
        \o [i \in DOMAIN New |-> Line(Prompts[New[i]])]

----------------------------------------------------------------------------
(* Content processors *)

\* What a call of the AI can come to.
AIResults == {"raises", "refused", "blank", "improved"}

\* YasinAIContentProcessor.process; the mutant trusts a blank answer.
TrustAnswer(text, result) ==
    IF text = Blank THEN text
    ELSE CASE result = "improved" -> "improved"
           [] result = "blank" -> Blank
           [] OTHER -> text
YasinAIText(text, result) ==
    IF text # Blank /\ result = "improved" THEN "improved" ELSE text

\* PassthroughProcessor.process: without a key the text passes.
PassthroughText(text, result) ==
    IF Setting(ApiKey) = Blank THEN text
    ELSE CASE result = "improved" -> "improved"
           [] result = "blank" -> Blank
           [] OTHER -> text

ProcessedText(text, result) ==
    IF processor = "yasinai" THEN YasinAIText(text, result)
    ELSE PassthroughText(text, result)

\* What build_content_processor returns, "none" if it raises.
ProcessorBuilt ==
    CASE Setting(Provider) = "passthrough" -> "passthrough"
      [] Setting(Provider) \in {"yasinai", Blank} /\ installed -> "yasinai"
      [] OTHER -> "none"

----------------------------------------------------------------------------

Init ==
    /\ shell \in {exported \in [Keys -> UNION {Values(k) : k \in Keys} \cup {Unset}] :
           /\ \A k \in Keys : exported[k] \in Values(k) \cup {Unset}
           /\ Cardinality({k \in Keys : exported[k] # Unset}) <= MaxExported}
    /\ sameFile \in BOOLEAN /\ installed \in BOOLEAN
    /\ file \in UNION {[1 .. n -> Lines] : n \in 0 .. FileLength}
    /\ env = shell
    /\ phase = "off" /\ answers = <<>> /\ content = <<>>
    /\ processor = "none" /\ prompted = FALSE
    /\ kept = <<>> /\ others = OtherLines

\* A start on a terminal without --non-interactive and --channel asks for the
\* settings; without a terminal it ends at once.
Start ==
    /\ phase = "off"
    /\ env' = [k \in Keys |-> FromFile(k)]
    /\ prompted' \in BOOLEAN
    /\ phase' = IF prompted' THEN "prompts" ELSE "load"
    /\ answers' = <<>> /\ processor' = "none"
    /\ UNCHANGED <<shell, sameFile, installed, file, content, kept, others>>

\* _prompt_value: Enter, Ctrl-C and the end of the input all keep the current
\* value; if a required one has none the question is asked again.
Prompt ==
    /\ phase = "prompts" /\ Len(answers) < Len(Prompts)
    /\ LET k == Prompts[Len(answers) + 1] IN
       \E value \in Answers[k] \cup {Setting(k)} :
           /\ value = Blank => k \notin Required
           /\ answers' = Append(answers, value)
    /\ UNCHANGED <<shell, sameFile, installed, file, env, phase, content,
                   processor, prompted, kept, others>>

\* All answers go to the environment, and the file is opened for writing, which
\* empties it.
OpenFile ==
    /\ phase = "prompts" /\ Len(answers) = Len(Prompts)
    /\ env' = [k \in Keys |-> IF AnswerTo(k) = Blank THEN Unset ELSE AnswerTo(k)]
    /\ content' = Updated
    /\ file' = <<>> /\ kept' = <<>>
    /\ phase' = "writing"
    /\ UNCHANGED <<shell, sameFile, installed, answers, processor, prompted, others>>

FillFile ==
    /\ phase = "writing"
    /\ file' = content /\ content' = <<>>
    /\ kept' = answers
    /\ phase' = "load"
    /\ UNCHANGED <<shell, sameFile, installed, env, answers, processor, prompted, others>>

\* load_config, the look at the channels and build_pipeline.  A text that is no
\* number, no channel and a processor that cannot be built end the process.  A
\* channel of the command line makes up for the setting; such a start asks nothing.
Load ==
    /\ phase = "load"
    /\ \E given \in BOOLEAN :
           /\ given => ~prompted
           /\ processor' = IF \/ \E k \in Numbers : Setting(k) \in Malformed
                              \/ Setting(Sources) = Blank /\ ~given
                           THEN "none" ELSE ProcessorBuilt
    /\ phase' = IF processor' = "none" THEN "off" ELSE "running"
    /\ UNCHANGED <<shell, sameFile, installed, file, env, answers, content,
                   prompted, kept, others>>

\* The process ends or is killed; a file opened for writing stays empty.
Stop ==
    /\ phase # "off"
    /\ phase' = "off" /\ content' = <<>>
    /\ others' = IF phase = "writing" THEN <<>> ELSE others
    /\ UNCHANGED <<shell, sameFile, installed, file, env, answers, processor,
                   prompted, kept>>

Next == Start \/ Prompt \/ OpenFile \/ FillFile \/ Load \/ Stop

Spec == Init /\ [][Next]_vars

----------------------------------------------------------------------------
(* Properties *)

\* A setting that a restart brings back: not exported by the shell, with one line
\* in the file, the file is the one that is read, and no default was left blank.
Lasting(i) ==
    LET k == Prompts[i] IN
    /\ shell[k] = Unset /\ sameFile
    /\ Cardinality(LinesOf(k)) = 1
    /\ kept[i] # Blank \/ Default[k] = Blank

\* The settings saved last are those every later process runs with, and the other
\* lines of the file are all there, at their places, although processes are killed
\* and started again.  A write that was cut off loses everything.
SavedSettingsSurvive ==
    /\ TypeOK
    /\ phase # "writing" => OtherLines = others
    /\ phase = "running" /\ kept # <<>> =>
           \A i \in DOMAIN Prompts : Lasting(i) => Setting(Prompts[i]) = kept[i]

\* A process that asked for the settings runs only with all required ones, and
\* one that runs never turns the text of a post into nothing, unless the AI that
\* PassthroughProcessor asks with a key answers with nothing.
RunningIsConfigured ==
    phase = "running" =>
        /\ prompted => \A k \in Required : Setting(k) # Blank
        /\ \A result \in AIResults : ProcessedText(Text, result) = Blank =>
               /\ Setting(Provider) = "passthrough" /\ Setting(ApiKey) # Blank
               /\ result = "blank"

----------------------------------------------------------------------------
(* The invariant the proofs go by *)

\* The first line of every setting has the value that was given for it.
Saves(lines, given) ==
    /\ Len(given) = Len(Prompts)
    /\ \A n \in DOMAIN Prompts : \A i \in DOMAIN lines :
           /\ lines[i].key = Prompts[n]
           /\ \A j \in 1 .. i - 1 : lines[j].key # Prompts[n]
           => lines[i].value = given[n]

\* A required setting that was asked for has a value.
RequiredGiven ==
    \A i \in DOMAIN answers : Prompts[i] \in Required => answers[i] # Blank

StartupInv ==
    /\ TypeOK
    /\ phase # "writing" => OtherLines = others
    /\ phase = "writing" => /\ file = <<>> /\ kept = <<>>
                            /\ OthersOf(content) = others
                            /\ Saves(content, answers)
                            /\ \A k \in Keys :
                                   env[k] = IF AnswerTo(k) = Blank THEN Unset ELSE AnswerTo(k)
    /\ kept # <<>> => Saves(file, kept)
    /\ phase \in {"load", "running"} /\ kept # <<>> =>
           \A i \in DOMAIN Prompts : Lasting(i) => Setting(Prompts[i]) = kept[i]
    /\ phase \in {"prompts", "writing"} => RequiredGiven /\ prompted
    /\ phase \in {"load", "running"} /\ prompted =>
           \A k \in Required : env[k] \notin {Unset, Blank}
    /\ phase = "running" => processor = ProcessorBuilt /\ processor # "none"
=============================================================================
