-------------------------- MODULE MCHealthMonitor --------------------------
(***************************************************************************)
(* One relay with its monitor: a post that may be edited, a forward of it  *)
(* and a blank post in one channel.                                        *)
(***************************************************************************)
EXTENDS HealthMonitor

CONSTANTS r1, k1, k2, c1, news, blanks, nothing

OneRelay == {r1}
MCKeys == {k1, k2}
MCTexts == {news, blanks, nothing}
MCStrip == [t \in MCTexts |-> IF t = blanks THEN nothing ELSE t]
MCPost(k, t, m) == [key |-> k, text |-> t, media |-> m, dated |-> FALSE]
MCFeed == [c \in {c1} |-> {MCPost(k1, news, FALSE), MCPost(k1, nothing, TRUE),
                           MCPost(k2, news, FALSE), MCPost(k2, blanks, FALSE)}]
MCChannels == <<c1>>
=============================================================================
