--------------------------- MODULE EitaaPublisher ---------------------------
(***************************************************************************)
(* EitaaPublisher.publish (eitaa_publisher.py) with the time it spends:    *)
(* the wait for the rate limit, the look at the token, the download of the *)
(* media and the POST.                                                     *)
(*                                                                         *)
(*   "free"     no call is active                                          *)
(*   "wait"     sleeps in _wait_for_rate_limit                             *)
(*   "ready"    before the look at the token                               *)
(*   "media"    has a media_url and decides what to send as the file       *)
(*   "post"     about to POST                                              *)
(*   "posting"  waits for the answer                                       *)
(*                                                                         *)
(* Times are counted from an event on, up to Delay.                        *)
(***************************************************************************)
EXTENDS Naturals

CONSTANT Delay  \* inter_message_delay_seconds

ASSUME DelayAssumption == Delay \in Nat

VARIABLES
    point,        \* program point of publish
    token,        \* whether EITAA_TOKEN is set
    file,         \* the "file" of the request: the bytes, the URL, or none
    timer,        \* rest of the sleep
    lastPublish,  \* time since _last_publish_time; Delay as well when it is None
    lastPost,     \* history: time since the last POST began
    unanswered    \* history: that POST has got no answer

publisherVars == <<point, token, file, timer, lastPublish, lastPost, unanswered>>

PublisherTypeOK ==
    /\ point \in {"free", "wait", "ready", "media", "post", "posting"}
    /\ token \in BOOLEAN
    /\ file \in {"none", "url", "bytes"}
    /\ timer \in 0 .. Delay
    /\ lastPublish \in 0 .. Delay
    /\ lastPost \in 0 .. Delay
    /\ unanswered \in BOOLEAN

PublisherInit ==
    /\ point = "free"
    /\ token \in BOOLEAN
    /\ file = "none"
    /\ timer = 0
    /\ lastPublish = Delay
    /\ lastPost = Delay
    /\ unanswered = FALSE

\* _wait_for_rate_limit: what is missing of the delay is slept.
BeginPublish ==
    /\ point = "free"
    /\ file' = "none"
    /\ IF lastPublish < Delay
       THEN point' = "wait" /\ timer' = Delay - lastPublish
       ELSE point' = "ready" /\ UNCHANGED timer
    /\ UNCHANGED <<token, lastPublish, lastPost, unanswered>>

WaitEnds ==
    /\ point = "wait"
    /\ timer = 0
    /\ point' = "ready"
    /\ UNCHANGED <<token, file, timer, lastPublish, lastPost, unanswered>>

\* Without a token publish raises; otherwise a text goes on to the POST.
CheckToken ==
    /\ point = "ready"
    /\ \/ ~token /\ point' = "free"
       \/ token /\ point' \in {"media", "post"}
    /\ UNCHANGED <<token, file, timer, lastPublish, lastPost, unanswered>>

\* The bytes of the media, when the URL is safe, the fetcher is installed and
\* its download gives any; in every other case the URL itself.
AttachMedia ==
    /\ point = "media"
    /\ file' \in {"bytes", "url"}
    /\ point' = "post"
    /\ UNCHANGED <<token, timer, lastPublish, lastPost, unanswered>>

PostBegins ==
    /\ point = "post"
    /\ point' = "posting"
    /\ lastPost' = 0
    /\ unanswered' = TRUE
    /\ UNCHANGED <<token, file, timer, lastPublish>>

\* Mutant of PostEnds: the time is taken only when Eitaa accepts the message.
PostEndsIfAccepted ==
    /\ point = "posting"
    /\ \/ lastPublish' = 0 /\ unanswered' = FALSE
       \/ UNCHANGED lastPublish /\ unanswered' = FALSE
       \/ UNCHANGED <<lastPublish, unanswered>>
    /\ point' = "free"
    /\ UNCHANGED <<token, file, timer, lastPost>>

\* An answer, whatever it says, sets _last_publish_time; an exception of
\* requests.post (a timeout, a broken connection) does not.
PostEnds ==
    /\ point = "posting"
    /\ \/ lastPublish' = 0 /\ unanswered' = FALSE
       \/ UNCHANGED <<lastPublish, unanswered>>
    /\ point' = "free"
    /\ UNCHANGED <<token, file, timer, lastPost>>

PublisherStep == WaitEnds \/ CheckToken \/ AttachMedia \/ PostBegins \/ PostEnds

\* A KeyboardInterrupt in publish.
AbortPublish ==
    /\ point' = "free"
    /\ UNCHANGED <<token, file, timer, lastPublish, lastPost, unanswered>>

Later(t) == IF t < Delay THEN t + 1 ELSE t

PublisherTick ==
    /\ lastPublish' = Later(lastPublish)
    /\ lastPost' = Later(lastPost)
    /\ timer' = IF point = "wait" /\ timer > 0 THEN timer - 1 ELSE timer
    /\ UNCHANGED <<point, token, file, unanswered>>

----------------------------------------------------------------------------

\* Why the delay is kept: what a call still sleeps covers what is missing, and
\* past the wait nothing is missing; an answered POST is no older than its answer.
SpacingInv ==
    /\ PublisherTypeOK
    /\ point = "wait" => timer + lastPublish >= Delay
    /\ point \in {"ready", "media", "post"} => lastPublish = Delay
    /\ ~unanswered => lastPost >= lastPublish
    /\ point = "posting" => unanswered

\* Two POSTs begin at least inter_message_delay_seconds apart, whatever happens
\* between them, unless the first one got no answer.
Spaced == [][PostBegins => unanswered \/ lastPost >= Delay]_publisherVars
=============================================================================
