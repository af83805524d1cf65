-------------------------- MODULE WebClientProofs --------------------------
(***************************************************************************)
(* Theorems about WebClient, for any channels, any length of the saved     *)
(* list and any number of loads at a time.                                 *)
(***************************************************************************)
EXTENDS WebClient, SequenceTheorems, FiniteSetTheorems, TLAPS

----------------------------------------------------------------------------
(* The quiet page *)

\* What the feed shows of the channel asked for last once its load has ended.
ShowsCurrent == feed.channel = current /\ feed.kind \in {"posts", "error"}

\* Unless a load was started while another one waited, one load waits at most: it
\* is of the current channel, and if it had cached posts the feed shows them.
Alone(load) == loads = <<load>> /\ load.channel = current /\ (load.cached => ShowsCurrent)

QuietInv ==
    /\ overtaken \in BOOLEAN
    /\ ~overtaken => \/ loads = <<>> /\ (current # None => ShowsCurrent)
                     \/ \E load : Alone(load)

\* A load that starts while no other one waits is alone.
LEMMA LoadAlone ==
    ASSUME NEW c, NEW force, NEW waiting, LoadWith(c, force, waiting)
    PROVE  QuietInv'
  <1>0. PICK load : load = [channel |-> c, cached |-> ~force /\ c \in cache]
    OBVIOUS
  <1>1. overtaken' = (waiting # <<>>) /\ current' = c /\ loads' = Append(waiting, load)
    BY <1>0 DEF LoadWith
  <1>2. ASSUME waiting = <<>> PROVE Alone(load)'
    <2>1. loads' = <<load>>
      BY <1>1, <1>2
    <2>2. load.cached => feed' = [kind |-> "posts", channel |-> c]
      BY <1>0 DEF LoadWith, Feed
    <2>3. load.channel = current'
      BY <1>0, <1>1
    <2>4. load.cached => ShowsCurrent'
      BY <1>1, <2>2 DEF ShowsCurrent
    <2>5. QED
      BY <2>1, <2>3, <2>4 DEF Alone
  <1>3. QED
    BY <1>1, <1>2 DEF QuietInv

\* The answer of the only load shows the current channel, or its error.
LEMMA AnswerShows ==
    ASSUME QuietInv, NEW i \in DOMAIN loads, AnswerArrives(i) \/ AnswerFails(i)
    PROVE  QuietInv'
  <1>1. overtaken' = overtaken /\ current' = current /\ loads' = RemoveAt(i)
    BY DEF AnswerArrives, AnswerFails
  <1>2. CASE overtaken
    BY <1>1, <1>2 DEF QuietInv
  <1>3. CASE ~overtaken
    <2>1. loads # <<>>
      OBVIOUS
    <2>2. PICK load : Alone(load)
      BY <1>3, <2>1 DEF QuietInv
    <2>3. i = 1 /\ loads[i] = load
      BY <2>2 DEF Alone
    <2>4. loads' = <<>>
      BY <1>1, <2>2, <2>3 DEF Alone, RemoveAt
    <2>5. \/ feed' = Feed("posts", load.channel)
          \/ feed' = Feed("error", load.channel)
          \/ feed' = feed /\ load.cached
      BY <2>3 DEF AnswerArrives, AnswerFails, Catch
    <2>6. ShowsCurrent'
      BY <1>1, <2>2, <2>5 DEF Alone, ShowsCurrent, Feed
    <2>7. QED
      BY <1>1, <2>4, <2>6 DEF QuietInv
  <1>4. QED
    BY <1>2, <1>3 DEF QuietInv

\* The page is quiet at first, and every step keeps what is said of quiet pages.
LEMMA QuietInductive ==
    /\ Init => QuietInv
    /\ QuietInv /\ [Next]_vars => QuietInv'
  <1>1. Init => QuietInv
    BY DEF Init, QuietInv
  <1>2. ASSUME QuietInv, [Next]_vars PROVE QuietInv'
    <2>1. CASE OpenPage
      <3>1. CASE saved # <<>>
        BY <2>1, <3>1, LoadAlone DEF OpenPage
      <3>2. CASE saved = <<>>
        BY <2>1, <3>2 DEF OpenPage, QuietInv
      <3>3. QED
        BY <3>1, <3>2
    <2>2. ASSUME NEW c \in Channels, LoadChannel(c) \/ Refresh(c) PROVE QuietInv'
      BY <2>2, LoadAlone DEF LoadChannel, Refresh
    <2>3. ASSUME NEW c \in Channels, RemoveChannel(c) PROVE QuietInv'
      BY <1>2, <2>3 DEF RemoveChannel, QuietInv, Alone, ShowsCurrent
    <2>4. ASSUME NEW i \in DOMAIN loads, AnswerArrives(i) \/ AnswerFails(i) PROVE QuietInv'
      BY <1>2, <2>4, AnswerShows
    <2>5. CASE UNCHANGED vars
      BY <1>2, <2>5 DEF vars, QuietInv, Alone, ShowsCurrent
    <2>6. QED
      BY <1>2, <2>1, <2>2, <2>3, <2>4, <2>5 DEF Next
  <1>3. QED
    BY <1>1, <1>2

\* With nothing under way the page shows the channel the user asked for last,
\* unless its load had been started before the answer of another one arrived.
THEOREM QuietPage == Spec => []QuietPageShowsCurrent
  <1>1. QuietInv => QuietPageShowsCurrent
    BY DEF QuietInv, Alone, ShowsCurrent, QuietPageShowsCurrent
  <1>2. QED
    BY <1>1, QuietInductive, PTL DEF Spec

----------------------------------------------------------------------------
(* The saved list and the removed channels *)

\* No channel twice: every place of the list but one at most is kept.
LEMMA KeptPlaces ==
    ASSUME SavedListIsSound, NEW c
    PROVE  \/ {i \in DOMAIN saved : saved[i] # c} = 1 .. Len(saved)
           \/ \E p \in 1 .. Len(saved) :
                  {i \in DOMAIN saved : saved[i] # c} = (1 .. Len(saved)) \ {p}
  <1>1. DOMAIN saved = 1 .. Len(saved)
    BY DEF SavedListIsSound, TypeOK
  <1>2. CASE \A i \in DOMAIN saved : saved[i] # c
    BY <1>1, <1>2
  <1>3. CASE \E p \in DOMAIN saved : saved[p] = c
    <2>1. PICK p \in DOMAIN saved : saved[p] = c
      BY <1>3
    <2>2. \A i \in DOMAIN saved : saved[i] # c <=> i # p
      BY <2>1 DEF SavedListIsSound
    <2>3. QED
      BY <1>1, <2>1, <2>2
  <1>4. QED
    BY <1>2, <1>3

\* So a sequence of the kept places that grows exists, and InOrder is one.
LEMMA KeptInOrder ==
    ASSUME NEW n \in Nat, NEW places, \/ places = 1 .. n
                                      \/ \E p \in 1 .. n : places = (1 .. n) \ {p}
    PROVE  /\ Cardinality(places) \in Nat /\ Cardinality(places) <= n
           /\ InOrder(places) \in [1 .. Cardinality(places) -> places]
           /\ \A i, j \in 1 .. Cardinality(places) :
                  i < j => InOrder(places)[i] < InOrder(places)[j]
  <1> DEFINE grows(s) == \A i, j \in DOMAIN s : i < j => s[i] < s[j]
             order == InOrder(places)
  <1>1. IsFiniteSet(1 .. n) /\ Cardinality(1 .. n) = n
    BY FS_Interval
  <1>2. Cardinality(places) \in Nat /\ \E s \in [1 .. Cardinality(places) -> places] : grows(s)
    <2>1. CASE places = 1 .. n
      <3>1. [i \in 1 .. n |-> i] \in [1 .. n -> 1 .. n] /\ grows([i \in 1 .. n |-> i])
        OBVIOUS
      <3>2. Cardinality(places) = n
        BY <1>1, <2>1
      <3> HIDE DEF grows
      <3>3. QED
        BY <2>1, <3>1, <3>2
    <2>2. ASSUME NEW p \in 1 .. n, places = (1 .. n) \ {p}
          PROVE  /\ Cardinality(places) \in Nat
                 /\ \E s \in [1 .. Cardinality(places) -> places] : grows(s)
      <3> DEFINE place == [i \in 1 .. n - 1 |-> IF i < p THEN i ELSE i + 1]
      <3>1. Cardinality(places) = n - 1 /\ n - 1 \in Nat
        <4>1. Cardinality((1 .. n) \ {p}) = Cardinality(1 .. n) - 1
          BY <1>1, FS_RemoveElement
        <4>2. n - 1 \in Nat
          OBVIOUS
        <4>3. QED
          BY <1>1, <2>2, <4>1, <4>2
      <3>2. \A i \in 1 .. n - 1 : place[i] \in (1 .. n) \ {p}
        OBVIOUS
      <3>3. \A i, j \in 1 .. n - 1 : i < j => place[i] < place[j]
        OBVIOUS
      <3>4. place \in [1 .. n - 1 -> places]
        BY <2>2, <3>2
      <3> HIDE DEF place
      <3>5. grows(place)
        BY <3>3, <3>4
      <3> HIDE DEF grows
      <3>6. QED
        BY <3>1, <3>4, <3>5
    <2>3. QED
      BY <2>1, <2>2
  <1>3. order = CHOOSE s \in [1 .. Cardinality(places) -> places] : grows(s)
    BY DEF InOrder
  <1>4. order \in [1 .. Cardinality(places) -> places] /\ grows(order)
    <2> HIDE DEF grows, order
    <2>1. QED
      BY <1>2, <1>3
  <1>5. Cardinality(places) <= n
    <2>1. places \subseteq 1 .. n
      OBVIOUS
    <2>2. QED
      BY <1>1, <2>1, FS_Subset
  <1>6. QED
    BY <1>2, <1>4, <1>5

\* What the filter leaves: the other channels, none twice.
LEMMA WithoutChannel ==
    ASSUME SavedListIsSound, NEW c
    PROVE  /\ Without(c) \in Seq(Channels) /\ Len(Without(c)) <= Len(saved)
           /\ \A i, j \in DOMAIN Without(c) : Without(c)[i] = Without(c)[j] => i = j
           /\ \A i \in DOMAIN Without(c) :
                  Without(c)[i] # c /\ \E j \in DOMAIN saved : Without(c)[i] = saved[j]
  <1> DEFINE kept == {i \in DOMAIN saved : saved[i] # c}
             others == InOrder(kept)
             n == Cardinality(kept)
  <1>1. saved \in Seq(Channels) /\ Len(saved) \in Nat /\ DOMAIN saved = 1 .. Len(saved)
    BY DEF SavedListIsSound, TypeOK
  <1>2. /\ n \in Nat /\ n <= Len(saved) /\ others \in [1 .. n -> kept]
        /\ \A i, j \in 1 .. n : i < j => others[i] < others[j]
    BY <1>1, KeptPlaces, KeptInOrder
  <1>3. Without(c) = [i \in 1 .. n |-> saved[others[i]]]
    BY <1>2 DEF Without
  <1>4. \A i \in 1 .. n : others[i] \in DOMAIN saved /\ saved[others[i]] # c
    BY <1>2
  <1>5. \A i, j \in 1 .. n : others[i] = others[j] => i = j
    <2> HIDE DEF others, n
    <2> SUFFICES ASSUME NEW i \in 1 .. n, NEW j \in 1 .. n, others[i] = others[j] PROVE i = j
      OBVIOUS
    <2>1. others[i] \in Nat /\ others[j] \in Nat
      BY <1>1, <1>4
    <2>2. ~(i < j) /\ ~(j < i)
      BY <1>2, <2>1
    <2>3. QED
      BY <1>2, <2>2
  <1> HIDE DEF kept, others, n
  <1>6. Without(c) \in Seq(Channels) /\ Len(Without(c)) = n /\ DOMAIN Without(c) = 1 .. n
    <2>1. \A i \in 1 .. n : saved[others[i]] \in Channels
      BY <1>1, <1>4
    <2>2. Without(c) \in [1 .. n -> Channels]
      BY <1>3, <2>1
    <2>3. QED
      BY <1>2, <2>2
  <1>7. \A i \in 1 .. n : Without(c)[i] = saved[others[i]]
    BY <1>3
  <1>8. \A i, j \in 1 .. n : Without(c)[i] = Without(c)[j] => i = j
    BY <1>4, <1>5, <1>7 DEF SavedListIsSound
  <1>9. QED
    BY <1>2, <1>4, <1>6, <1>7, <1>8

\* The list of touchChannel names no channel twice, and no new one but c.
LEMMA TouchedList ==
    ASSUME SavedListIsSound, NEW c \in Channels
    PROVE  /\ Touched(c) \in Seq(Channels) /\ Len(Touched(c)) <= Cap
           /\ \A i, j \in DOMAIN Touched(c) : Touched(c)[i] = Touched(c)[j] => i = j
           /\ \A i \in DOMAIN Touched(c) :
                  Touched(c)[i] = c \/ \E j \in DOMAIN saved : Touched(c)[i] = saved[j]
  <1> DEFINE list == <<c>> \o Without(c)
             rest == Without(c)
             n == IF Len(list) < Cap THEN Len(list) ELSE Cap
  <1>1. /\ rest \in Seq(Channels) /\ Len(rest) \in Nat /\ DOMAIN rest = 1 .. Len(rest)
        /\ \A i, j \in DOMAIN rest : rest[i] = rest[j] => i = j
        /\ \A i \in DOMAIN rest : rest[i] # c /\ \E j \in DOMAIN saved : rest[i] = saved[j]
    BY WithoutChannel
  <1>2. /\ list \in Seq(Channels) /\ Len(list) = Len(rest) + 1
        /\ list[1] = c /\ \A i \in 2 .. Len(list) : list[i] = rest[i - 1]
    <2> HIDE DEF rest
    <2>1. <<c>> \in Seq(Channels) /\ Len(<<c>>) = 1
      OBVIOUS
    <2>2. list = <<c>> \o rest
      BY DEF rest
    <2> HIDE DEF list
    <2>3. QED
      BY <1>1, <2>1, <2>2, ConcatProperties
  <1> HIDE DEF list, rest
  <1>3. n \in Nat /\ n <= Cap /\ n <= Len(list)
    BY <1>1, <1>2, WebClientAssumption
  <1>4. Touched(c) = SubSeq(list, 1, n)
    BY DEF Touched, FirstOf, list
  <1> HIDE DEF n
  <1>5. \A i \in 1 .. n : i \in 1 .. Len(list) /\ list[i] \in Channels
    <2>1. Len(list) \in Nat
      BY <1>1, <1>2
    <2>2. \A i \in 1 .. n : i \in 1 .. Len(list)
      BY <1>3, <2>1
    <2>3. QED
      BY <1>2, <2>2
  <1>6. /\ Touched(c) \in Seq(Channels) /\ Len(Touched(c)) = n
        /\ \A i \in 1 .. n : Touched(c)[i] = list[i]
    BY <1>3, <1>4, <1>5, SubSeqProperties
  <1>7. \A i \in 1 .. Len(list) : i = 1 \/ (i \in 2 .. Len(list) /\ i - 1 \in DOMAIN rest)
    BY <1>1, <1>2
  <1>8. \A i, j \in 1 .. Len(list) : list[i] = list[j] => i = j
    <2> SUFFICES ASSUME NEW i \in 1 .. Len(list), NEW j \in 1 .. Len(list), list[i] = list[j]
                 PROVE  i = j
      OBVIOUS
    <2>1. CASE i # 1 /\ j # 1
      <3>1. rest[i - 1] = rest[j - 1]
        BY <1>2, <1>7, <2>1
      <3>2. i - 1 = j - 1
        BY <1>1, <1>7, <2>1, <3>1
      <3>3. QED
        BY <3>2
    <2>2. CASE i = 1 /\ j # 1
      BY <1>1, <1>2, <1>7, <2>2
    <2>3. CASE i # 1 /\ j = 1
      BY <1>1, <1>2, <1>7, <2>3
    <2>4. QED
      BY <2>1, <2>2, <2>3
  <1>9. \A i \in 1 .. Len(list) : list[i] = c \/ \E j \in DOMAIN saved : list[i] = saved[j]
    BY <1>1, <1>2, <1>7
  <1>10. DOMAIN Touched(c) = 1 .. n
    BY <1>6
  <1>11. QED
    BY <1>3, <1>5, <1>6, <1>8, <1>9, <1>10

\* The loads that wait when one is over are loads that waited before.
LEMMA LoadsLeft ==
    ASSUME TypeOK, NEW i \in DOMAIN loads
    PROVE  /\ RemoveAt(i) \in Seq(Loads)
           /\ \A j \in DOMAIN RemoveAt(i) : \E k \in DOMAIN loads : RemoveAt(i)[j] = loads[k]
  <1> DEFINE front == SubSeq(loads, 1, i - 1)
             back == SubSeq(loads, i + 1, Len(loads))
             there == {loads[k] : k \in DOMAIN loads}
  <1>1. loads \in Seq(Loads) /\ Len(loads) \in Nat /\ i \in 1 .. Len(loads)
    BY DEF TypeOK
  <1>2. there \subseteq Loads
    BY <1>1
  <1>3. \A k \in 1 .. i - 1 : loads[k] \in there
    BY <1>1
  <1>4. \A k \in i + 1 .. Len(loads) : loads[k] \in there
    BY <1>1
  <1> HIDE DEF there
  <1>5. front \in Seq(there)
    BY <1>1, <1>3, SubSeqProperties
  <1>6. back \in Seq(there)
    BY <1>1, <1>4, SubSeqProperties
  <1> HIDE DEF front, back
  <1>7. front \o back \in Seq(there)
    BY <1>5, <1>6, ConcatProperties
  <1>8. RemoveAt(i) = front \o back
    BY DEF RemoveAt, front, back
  <1>9. RemoveAt(i) \in Seq(Loads)
    BY <1>2, <1>7, <1>8
  <1>10. \A j \in DOMAIN RemoveAt(i) : RemoveAt(i)[j] \in there
    BY <1>7, <1>8
  <1>11. QED
    BY <1>9, <1>10 DEF there

\* A load that starts asks for a channel that is no longer a removed one.
LEMMA LoadKeepsLists ==
    ASSUME ListInv, NEW c \in Channels, NEW force \in BOOLEAN, NEW waiting,
           waiting \in {loads, <<>>}, LoadWith(c, force, waiting)
    PROVE  ListInv'
  <1> DEFINE cached == ~force /\ c \in cache
             load == [channel |-> c, cached |-> cached]
  <1>1. TypeOK /\ SavedListIsSound
    BY DEF ListInv, SavedListIsSound
  <1>2. /\ waiting \in Seq(Loads)
        /\ \A i \in DOMAIN waiting : waiting[i].channel \notin removed
    <2>1. CASE waiting = loads
      BY <1>1, <2>1 DEF TypeOK, ListInv
    <2>2. CASE waiting = <<>>
      BY <2>2
    <2>3. QED
      BY <2>1, <2>2
  <1>3. /\ current' = c /\ loads' = Append(waiting, load) /\ removed' = removed \ {c}
        /\ overtaken' = (waiting # <<>>) /\ saved' = saved /\ cache' = cache
        /\ feed' = Feed(IF cached THEN "posts" ELSE "loading", c)
    BY DEF LoadWith
  <1>4. load \in Loads /\ load.channel = c
    BY DEF Loads
  <1> HIDE DEF load
  <1>5. /\ loads' \in Seq(Loads)
        /\ \A i \in DOMAIN loads' : loads'[i] = load \/ \E j \in DOMAIN waiting : loads'[i] = waiting[j]
    <2>1. /\ Append(waiting, load) \in Seq(Loads) /\ Len(Append(waiting, load)) = Len(waiting) + 1
          /\ \A i \in 1 .. Len(waiting) : Append(waiting, load)[i] = waiting[i]
          /\ Append(waiting, load)[Len(waiting) + 1] = load
      BY <1>2, <1>4, AppendProperties
    <2>2. QED
      BY <1>2, <1>3, <2>1
  <1>6. feed' \in Feeds
    BY <1>3 DEF Feed, Feeds
  <1>7. TypeOK'
    BY <1>1, <1>3, <1>5, <1>6 DEF TypeOK
  <1>8. \A i \in DOMAIN loads' : loads'[i].channel \notin removed'
    BY <1>2, <1>3, <1>4, <1>5
  <1>9. RemovedIsForgotten'
    BY <1>3 DEF ListInv, RemovedIsForgotten
  <1>10. SavedListIsSound'
    BY <1>1, <1>3, <1>7 DEF SavedListIsSound
  <1>11. QED
    BY <1>8, <1>9, <1>10 DEF ListInv

\* The start of the page loads the first saved channel, or nothing.
LEMMA OpenKeepsLists ==
    ASSUME ListInv, OpenPage
    PROVE  ListInv'
  <1>1. TypeOK
    BY DEF ListInv, SavedListIsSound
  <1>2. CASE saved # <<>>
    <2>1. Head(saved) \in Channels
      BY <1>1, <1>2 DEF TypeOK
    <2>2. LoadWith(Head(saved), FALSE, <<>>)
      BY <1>2 DEF OpenPage
    <2>3. QED
      BY <2>1, <2>2, LoadKeepsLists
  <1>3. CASE saved = <<>>
    <2>1. /\ current' = None /\ feed' = Feed("empty", None) /\ loads' = <<>>
          /\ overtaken' = FALSE /\ saved' = saved /\ cache' = cache /\ removed' = removed
      BY <1>3 DEF OpenPage
    <2>2. /\ feed' \in Feeds /\ loads' \in Seq(Loads) /\ overtaken' \in BOOLEAN
          /\ current' \in Channels \cup {None}
      <3>1. feed' \in Feeds
        BY <2>1 DEF Feed, Feeds
      <3>2. <<>> \in Seq(Loads)
        OBVIOUS
      <3>3. QED
        BY <2>1, <3>1, <3>2
    <2>3. saved' \in Seq(Channels) /\ cache' \subseteq Channels /\ removed' \subseteq Channels
      BY <1>1, <2>1 DEF TypeOK
    <2>4. TypeOK'
      BY <2>2, <2>3 DEF TypeOK
    <2>5. QED
      BY <2>1, <2>4 DEF ListInv, SavedListIsSound, RemovedIsForgotten
  <1>4. QED
    BY <1>2, <1>3

\* A channel that is removed leaves the list and the cache, and counts as removed
\* only if no load of it waits.
LEMMA RemoveKeepsLists ==
    ASSUME ListInv, NEW c \in Channels, RemoveChannel(c)
    PROVE  ListInv'
  <1>1. TypeOK /\ SavedListIsSound /\ RemovedIsForgotten /\ Len(saved) <= Cap
    BY DEF ListInv, SavedListIsSound
  <1>2. /\ saved' = Without(c) /\ cache' = cache \ {c}
        /\ removed' = IF Waiting(c) THEN removed ELSE removed \cup {c}
        /\ current' = current /\ feed' = feed /\ loads' = loads /\ overtaken' = overtaken
    BY DEF RemoveChannel
  <1>3. /\ saved' \in Seq(Channels) /\ Len(saved') <= Len(saved)
        /\ \A i, j \in DOMAIN saved' : saved'[i] = saved'[j] => i = j
        /\ \A i \in DOMAIN saved' : saved'[i] # c /\ \E j \in DOMAIN saved : saved'[i] = saved[j]
    BY <1>1, <1>2, WithoutChannel
  <1>4. TypeOK'
    BY <1>1, <1>2, <1>3 DEF TypeOK
  <1>5. Len(saved') <= Cap
    <2>1. Len(saved) \in Nat /\ Len(saved') \in Nat
      BY <1>1, <1>3 DEF TypeOK
    <2>2. QED
      BY <1>1, <1>3, <2>1, WebClientAssumption
  <1>6. \A d \in removed' : d \notin cache' /\ \A i \in DOMAIN saved' : saved'[i] # d
    <2>1. \A d \in removed' : d \in removed \/ d = c
      BY <1>2
    <2>2. QED
      BY <1>1, <1>2, <1>3, <2>1 DEF RemovedIsForgotten
  <1>7. \A i \in DOMAIN loads : loads[i].channel \notin removed'
    BY <1>2 DEF ListInv, Waiting
  <1>8. QED
    BY <1>2, <1>3, <1>4, <1>5, <1>6, <1>7 DEF ListInv, SavedListIsSound, RemovedIsForgotten

\* The answer of a load puts its channel, which is not a removed one, in front.
LEMMA AnswerKeepsLists ==
    ASSUME ListInv, NEW i \in DOMAIN loads, AnswerArrives(i) \/ AnswerFails(i)
    PROVE  ListInv'
  <1> DEFINE c == loads[i].channel
  <1>1. TypeOK /\ SavedListIsSound /\ RemovedIsForgotten
    BY DEF ListInv, SavedListIsSound
  <1>2. loads[i] \in Loads /\ c \in Channels /\ c \notin removed
    <2>1. loads[i] \in Loads
      BY <1>1 DEF TypeOK
    <2>2. loads[i].channel \in Channels
      BY <2>1 DEF Loads
    <2>3. QED
      BY <2>1, <2>2 DEF ListInv
  <1>3. /\ loads' = RemoveAt(i)
        /\ current' = current /\ overtaken' = overtaken /\ removed' = removed
    BY DEF AnswerArrives, AnswerFails
  <1>4. cache' \in {cache, cache \cup {c}} /\ saved' \in {saved, Touched(c)}
    BY DEF AnswerArrives, AnswerFails
  <1>5. feed' \in {feed, Feed("posts", c), Feed("error", c)}
    BY DEF AnswerArrives, AnswerFails, Catch
  <1> HIDE DEF c
  <1>6. feed' \in Feeds
    BY <1>1, <1>2, <1>5 DEF TypeOK, Feed, Feeds
  <1>7. /\ loads' \in Seq(Loads)
        /\ \A j \in DOMAIN loads' : \E k \in DOMAIN loads : loads'[j] = loads[k]
    BY <1>1, <1>3, LoadsLeft
  <1>8. /\ saved' \in Seq(Channels) /\ Len(saved') <= Cap
        /\ \A j, k \in DOMAIN saved' : saved'[j] = saved'[k] => j = k
        /\ \A j \in DOMAIN saved' : saved'[j] = c \/ \E k \in DOMAIN saved : saved'[j] = saved[k]
    <2>1. CASE saved' = saved
      BY <1>1, <2>1 DEF SavedListIsSound, TypeOK
    <2>2. CASE saved' = Touched(c)
      BY <1>1, <1>2, <2>2, TouchedList
    <2>3. QED
      BY <1>4, <2>1, <2>2
  <1>9. cache' \subseteq Channels
    BY <1>1, <1>2, <1>4 DEF TypeOK
  <1>10. TypeOK'
    BY <1>1, <1>3, <1>6, <1>7, <1>8, <1>9 DEF TypeOK
  <1>11. \A d \in removed' : d \notin cache' /\ \A j \in DOMAIN saved' : saved'[j] # d
    BY <1>1, <1>2, <1>3, <1>4, <1>8 DEF RemovedIsForgotten
  <1>12. \A j \in DOMAIN loads' : loads'[j].channel \notin removed'
    BY <1>3, <1>7 DEF ListInv
  <1>13. QED
    BY <1>8, <1>10, <1>11, <1>12 DEF ListInv, SavedListIsSound, RemovedIsForgotten

\* The lists are sound at first, and every step keeps them so.
LEMMA ListsInductive ==
    /\ Init => ListInv
    /\ ListInv /\ [Next]_vars => ListInv'
  <1>1. Init => ListInv
    <2> SUFFICES ASSUME Init PROVE ListInv
      OBVIOUS
    <2>1. feed \in Feeds
      BY DEF Init, Feed, Feeds
    <2>2. saved \in Seq(Channels) /\ loads \in Seq(Loads)
      BY DEF Init
    <2>3. TypeOK
      BY <2>1, <2>2 DEF Init, TypeOK
    <2>4. QED
      BY <2>3, WebClientAssumption DEF Init, ListInv, SavedListIsSound, RemovedIsForgotten
  <1>2. ASSUME ListInv, [Next]_vars PROVE ListInv'
    <2>1. CASE OpenPage
      BY <1>2, <2>1, OpenKeepsLists
    <2>2. ASSUME NEW c \in Channels, LoadChannel(c) PROVE ListInv'
      BY <1>2, <2>2, LoadKeepsLists DEF LoadChannel
    <2>3. ASSUME NEW c \in Channels, Refresh(c) PROVE ListInv'
      BY <1>2, <2>3, LoadKeepsLists DEF Refresh
    <2>4. ASSUME NEW c \in Channels, RemoveChannel(c) PROVE ListInv'
      BY <1>2, <2>4, RemoveKeepsLists
    <2>5. ASSUME NEW i \in DOMAIN loads, AnswerArrives(i) \/ AnswerFails(i) PROVE ListInv'
      BY <1>2, <2>5, AnswerKeepsLists
    <2>6. CASE UNCHANGED vars
      BY <1>2, <2>6 DEF vars, ListInv, SavedListIsSound, RemovedIsForgotten, TypeOK
    <2>7. QED
      BY <1>2, <2>1, <2>2, <2>3, <2>4, <2>5, <2>6 DEF Next
  <1>3. QED
    BY <1>1, <1>2

\* The saved list names no channel twice and keeps to its length, for every order
\* in which loads end and channels are removed.
THEOREM SavedListStaysSound == Spec => []SavedListIsSound
  <1>1. ListInv => SavedListIsSound
    BY DEF ListInv
  <1>2. QED
    BY <1>1, ListsInductive, PTL DEF Spec

\* A channel removed while no load of it waits stays out of the list and the cache
\* until the user asks for it again.
THEOREM RemovedStaysForgotten == Spec => []RemovedIsForgotten
  <1>1. ListInv => RemovedIsForgotten
    BY DEF ListInv
  <1>2. QED
    BY <1>1, ListsInductive, PTL DEF Spec
=============================================================================
