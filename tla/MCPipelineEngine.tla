------------------------- MODULE MCPipelineEngine -------------------------
(***************************************************************************)
(* Small instances of PipelineEngine.  Channel c1 shows a text that may be *)
(* edited into a picture without text, a repost of the text in other white *)
(* space, and a post of nothing but white space; channel c2 forwards the   *)
(* text.                                                                   *)
(***************************************************************************)
EXTENDS PipelineEngine, TLC

CONSTANTS r1, r2, k1, k2, k3, c1, c2, news, newsPadded, blanks, nothing

OneRelay == {r1}
TwoRelays == {r1, r2}

MCKeys == {k1, k2, k3}

MCTexts == {news, newsPadded, blanks, nothing}

MCStrip == [t \in MCTexts |-> CASE t = newsPadded -> news
                                [] t = blanks -> nothing
                                [] OTHER -> t]

Plain(k, t) == [key |-> k, text |-> t, media |-> FALSE, dated |-> FALSE]
Dated(k, t) == [key |-> k, text |-> t, media |-> FALSE, dated |-> TRUE]
Photo(k) == [key |-> k, text |-> nothing, media |-> TRUE, dated |-> FALSE]

MCFeed == [c \in {c1, c2} |->
    IF c = c1
    THEN {Dated(k1, news), Photo(k1), Plain(k2, newsPadded), Plain(k2, blanks)}
    ELSE {Plain(k3, news)}]

\* Two channels, as in a configured relay.
MCChannels == <<c1, c2>>

\* Two relays: an edited post is what they can disagree on.
MCKeysTwo == {k1}
MCFeedTwo == [c \in {c1} |-> {Dated(k1, newsPadded), Photo(k1)}]
MCChannelsTwo == <<c1>>
RelaySymmetry == Permutations(Relays)

\* One post that is never too old, fetched in every run.
MCFeedOne == [c \in {c1} |-> {Plain(k1, news)}]
=============================================================================
