----------------------------- MODULE WebClient -----------------------------
(***************************************************************************)
(* The page of the web client (fetcher/web/app.js): the list of saved      *)
(* channels and the cache of their posts in localStorage, the channel the  *)
(* user asked for last, the feed, and the loads that wait for the server.  *)
(*                                                                         *)
(* JavaScript runs to completion: a step is a user's action up to the      *)
(* fetch of loadChannel, or all that follows the arrival of its answer.    *)
(* Answers arrive in any order.  What a channel shows is left out; a feed  *)
(* names the channel it is of.                                             *)
(***************************************************************************)
EXTENDS Naturals, Sequences, FiniteSets, Places

CONSTANTS
    Channels,
    None,       \* null
    Cap,        \* length of the saved list: 20 in touchChannel
    MaxLoads    \* bound: loads waiting at a time

ASSUME WebClientAssumption == None \notin Channels /\ Cap \in Nat /\ MaxLoads \in Nat

Feeds == [kind : {"empty", "loading", "error", "posts"}, channel : Channels \cup {None}]

\* A call of loadChannel that waits for its answer, and its `cached'.
Loads == [channel : Channels, cached : BOOLEAN]

VARIABLES
    saved,      \* usernames of the saved list, the last opened first
    cache,      \* channels with an openfeed_cache_ entry
    current,    \* currentChannel
    feed,
    loads,      \* in the order of their start
    overtaken,  \* history: a load was started while another one waited
    removed     \* history: channels removed, and not asked for since then

vars == <<saved, cache, current, feed, loads, overtaken, removed>>

TypeOK ==
    /\ saved \in Seq(Channels)
    /\ cache \subseteq Channels
    /\ current \in Channels \cup {None}
    /\ feed \in Feeds
    /\ loads \in Seq(Loads)
    /\ overtaken \in BOOLEAN
    /\ removed \subseteq Channels

----------------------------------------------------------------------------

Feed(kind, c) == [kind |-> kind, channel |-> c]

\* The filter of touchChannel and removeChannel.
Without(c) ==
    LET others == InOrder({i \in DOMAIN saved : saved[i] # c})
    IN  [i \in DOMAIN others |-> saved[others[i]]]

FirstOf(list, n) == SubSeq(list, 1, IF Len(list) < n THEN Len(list) ELSE n)

\* The list of touchChannel; the mutant forgets to take c out of its old place.
TouchedKeeping(c) == FirstOf(<<c>> \o saved, Cap)
Touched(c) == FirstOf(<<c>> \o Without(c), Cap)

Waiting(c) == \E i \in DOMAIN loads : loads[i].channel = c

RemoveAt(i) == SubSeq(loads, 1, i - 1) \o SubSeq(loads, i + 1, Len(loads))

\* loadChannel up to its fetch: posts from the cache, or the word "loading".
LoadWith(c, force, waiting) ==
    LET cached == ~force /\ c \in cache IN
    /\ current' = c
    /\ feed' = Feed(IF cached THEN "posts" ELSE "loading", c)
    /\ loads' = Append(waiting, [channel |-> c, cached |-> cached])
    /\ overtaken' = (waiting # <<>>)
    /\ removed' = removed \ {c}
    /\ UNCHANGED <<saved, cache>>

\* The start of the page: the first saved channel is loaded at once.
OpenPage ==
    IF saved # <<>> THEN LoadWith(Head(saved), FALSE, <<>>)
    ELSE /\ current' = None
         /\ feed' = Feed("empty", None)
         /\ loads' = <<>>
         /\ overtaken' = FALSE
         /\ UNCHANGED <<saved, cache, removed>>

Init ==
    /\ saved = <<>>
    /\ cache = {}
    /\ current = None
    /\ feed = Feed("empty", None)
    /\ loads = <<>>
    /\ overtaken = FALSE
    /\ removed = {}

\* The input field, a chip of the saved list, or the button of an error.
LoadChannel(c) == Len(loads) < MaxLoads /\ LoadWith(c, FALSE, loads)

\* The refresh button and the pull of the feed; the retry button of an error that
\* a forced load showed, which asks for the channel of that load.
Refresh(c) ==
    /\ Len(loads) < MaxLoads
    /\ c = current \/ feed = Feed("error", c)
    /\ LoadWith(c, TRUE, loads)

\* Mutant of RemoveChannel: the cache is left alone.
RemoveFromList(c) ==
    /\ saved' = Without(c)
    /\ removed' = IF Waiting(c) THEN removed ELSE removed \cup {c}
    /\ UNCHANGED <<cache, current, feed, loads, overtaken>>

\* The x of a chip.  A load of the channel that still waits is not told.
RemoveChannel(c) ==
    /\ saved' = Without(c)
    /\ cache' = cache \ {c}
    /\ removed' = IF Waiting(c) THEN removed ELSE removed \cup {c}
    /\ UNCHANGED <<current, feed, loads, overtaken>>

\* The catch of loadChannel; the mutant drops the error silently.
CatchSilently(load) == UNCHANGED feed
Catch(load) ==
    IF load.cached THEN UNCHANGED feed ELSE feed' = Feed("error", load.channel)

\* An answer with posts is shown, whatever the user asked for meanwhile.  A full
\* localStorage keeps the cache as it is and makes touchChannel throw.
AnswerArrives(i) ==
    LET c == loads[i].channel IN
    /\ loads' = RemoveAt(i)
    /\ \/ /\ feed' = Feed("posts", c)
          /\ cache' \in {cache, cache \cup {c}}
          /\ saved' = Touched(c)
       \/ /\ IF loads[i].cached THEN feed' = Feed("posts", c) ELSE Catch(loads[i])
          /\ cache' \in {cache, cache \cup {c}}
          /\ UNCHANGED saved
    /\ UNCHANGED <<current, overtaken, removed>>

\* A status that is not 2xx, a broken connection, or an answer that is no JSON.
AnswerFails(i) ==
    /\ loads' = RemoveAt(i)
    /\ Catch(loads[i])
    /\ UNCHANGED <<saved, cache, current, overtaken, removed>>

Next ==
    \/ OpenPage
    \/ \E c \in Channels : LoadChannel(c) \/ Refresh(c) \/ RemoveChannel(c)
    \/ \E i \in DOMAIN loads : AnswerArrives(i) \/ AnswerFails(i)

Spec == Init /\ [][Next]_vars

----------------------------------------------------------------------------
(* Properties *)

\* The saved list names no channel twice and stays within its length, whatever
\* the order in which loads end and channels are removed.
SavedListIsSound ==
    /\ TypeOK
    /\ Len(saved) <= Cap
    /\ \A i, j \in DOMAIN saved : saved[i] = saved[j] => i = j

\* With nothing under way the page shows the channel the user asked for last:
\* its posts or its error.  The exception is a load started before the answer
\* of another one had arrived: then it may show the other channel.
QuietPageShowsCurrent ==
    loads = <<>> /\ current # None /\ ~overtaken =>
        feed.channel = current /\ feed.kind \in {"posts", "error"}

\* A channel that is removed while no load of it waits is forgotten: it is in
\* neither the list nor the cache until the user asks for it again.  (One that is
\* removed while a load waits comes back with the answer.)
RemovedIsForgotten ==
    \A c \in removed : c \notin cache /\ \A i \in DOMAIN saved : saved[i] # c

----------------------------------------------------------------------------
(* The invariant the proofs go by *)

\* A removed channel is not only gone: no load waits that could bring it back.
ListInv ==
    /\ SavedListIsSound
    /\ RemovedIsForgotten
    /\ \A i \in DOMAIN loads : loads[i].channel \notin removed
=============================================================================
