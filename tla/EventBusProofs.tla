--------------------------- MODULE EventBusProofs ---------------------------
(***************************************************************************)
(* EventBus implements EventDelivery, for any handlers and events and any  *)
(* depth of publishes inside one another.                                  *)
(***************************************************************************)
EXTENDS EventBus, SequenceTheorems, FiniteSetTheorems, TLAPS

----------------------------------------------------------------------------
(* The lists *)

\* list.remove takes one element out and brings none in.
LEMMA OneTakenOut ==
    ASSUME NEW list \in Seq(Handlers), NoneTwice(list), NEW k \in DOMAIN list
    PROVE  /\ SubSeq(list, 1, k - 1) \o SubSeq(list, k + 1, Len(list)) \in Seq(Handlers)
           /\ NoneTwice(SubSeq(list, 1, k - 1) \o SubSeq(list, k + 1, Len(list)))
  <1> DEFINE front == SubSeq(list, 1, k - 1)
             back == SubSeq(list, k + 1, Len(list))
             left == front \o back
  <1>1. Len(list) \in Nat /\ k \in 1 .. Len(list) /\ DOMAIN list = 1 .. Len(list)
    OBVIOUS
  <1>2. \A i \in 1 .. Len(list) : list[i] \in Handlers
    OBVIOUS
  <1>3. /\ front \in Seq(Handlers) /\ Len(front) = k - 1
        /\ \A i \in 1 .. k - 1 : front[i] = list[i]
    BY <1>1, <1>2, SubSeqProperties
  <1>4. /\ back \in Seq(Handlers) /\ Len(back) = Len(list) - k
        /\ \A i \in 1 .. Len(list) - k : back[i] = list[k + i]
    <2>1. \A i \in k + 1 .. Len(list) : list[i] \in Handlers
      BY <1>1, <1>2
    <2>2. /\ back \in Seq(Handlers)
          /\ Len(back) = IF k + 1 <= Len(list) THEN Len(list) - (k + 1) + 1 ELSE 0
          /\ \A i \in 1 .. Len(list) - (k + 1) + 1 : back[i] = list[(k + 1) + i - 1]
      BY <1>1, <2>1, SubSeqProperties
    <2> HIDE DEF back
    <2>3. Len(back) = Len(list) - k
      BY <1>1, <2>2
    <2>4. \A i \in 1 .. Len(list) - k : back[i] = list[k + i]
      <3>1. Len(list) - (k + 1) + 1 = Len(list) - k
        BY <1>1
      <3>2. \A i \in 1 .. Len(list) - k : (k + 1) + i - 1 = k + i
        BY <1>1
      <3>3. QED
        BY <2>2, <3>1, <3>2
    <2>5. QED
      BY <2>2, <2>3, <2>4
  <1> HIDE DEF front, back
  <1>5. /\ left \in Seq(Handlers) /\ Len(left) = Len(list) - 1
        /\ \A i \in 1 .. Len(left) : left[i] = IF i < k THEN list[i] ELSE list[i + 1]
    <2>1. /\ left \in Seq(Handlers) /\ Len(left) = Len(front) + Len(back)
          /\ \A i \in 1 .. Len(front) + Len(back) :
                 left[i] = IF i <= Len(front) THEN front[i] ELSE back[i - Len(front)]
      BY <1>3, <1>4, ConcatProperties
    <2> HIDE DEF left
    <2>2. Len(left) = Len(list) - 1
      BY <1>1, <1>3, <1>4, <2>1
    <2>3. ASSUME NEW i \in 1 .. Len(left)
          PROVE  left[i] = IF i < k THEN list[i] ELSE list[i + 1]
      <3>1. left[i] = IF i <= k - 1 THEN front[i] ELSE back[i - (k - 1)]
        BY <1>3, <1>4, <2>1
      <3>2. CASE i < k
        BY <1>1, <1>3, <2>2, <3>1, <3>2
      <3>3. CASE ~(i < k)
        <4>1. i - (k - 1) \in 1 .. Len(list) - k /\ k + (i - (k - 1)) = i + 1 /\ ~(i <= k - 1)
          BY <1>1, <2>2, <3>3
        <4>2. QED
          BY <1>4, <3>1, <3>3, <4>1
      <3>4. QED
        BY <3>2, <3>3
    <2>4. QED
      BY <2>1, <2>2, <2>3
  <1> HIDE DEF left
  <1>6. \A i, j \in 1 .. Len(left) : left[i] = left[j] => i = j
    <2> SUFFICES ASSUME NEW i \in 1 .. Len(left), NEW j \in 1 .. Len(left), left[i] = left[j]
                 PROVE  i = j
      OBVIOUS
    <2> DEFINE from(x) == IF x < k THEN x ELSE x + 1
    <2>1. from(i) \in DOMAIN list /\ from(j) \in DOMAIN list
      BY <1>1, <1>5
    <2>2. left[i] = list[from(i)] /\ left[j] = list[from(j)]
      BY <1>5
    <2>3. from(i) = from(j)
      <3> HIDE DEF from
      <3>1. QED
        BY <2>1, <2>2 DEF NoneTwice
    <2>4. QED
      BY <1>1, <1>5, <2>3
  <1>7. DOMAIN left = 1 .. Len(left)
    BY <1>5
  <1>8. QED
    BY <1>5, <1>6, <1>7 DEF NoneTwice, left, front, back

\* A frame whose loop went on, or whose handler ended, is a frame.
LEMMA FrameType ==
    ASSUME TypeOK, NEW d \in DOMAIN stack
    PROVE  /\ DOMAIN stack = 1 .. Len(stack) /\ Len(stack) \in Nat
           /\ stack[d] \in Frames
           /\ stack[d].copy \in Seq(Handlers) /\ Len(stack[d].copy) \in Nat
           /\ stack[d].called \in Nat /\ stack[d].called <= Len(stack[d].copy)
  <1>1. stack \in Seq(Frames)
    BY DEF TypeOK
  <1>2. stack[d] \in Frames
    BY <1>1
  <1>3. stack[d].copy \in Seq(Handlers) /\ stack[d].called \in Nat
    BY <1>2 DEF Frames
  <1>4. QED
    BY <1>1, <1>2, <1>3 DEF TypeOK

\* What is left of a sequence without its last element.
LEMMA Popped ==
    ASSUME NEW S, NEW s \in Seq(S), s # <<>>
    PROVE  /\ SubSeq(s, 1, Len(s) - 1) \in Seq(S)
           /\ Len(SubSeq(s, 1, Len(s) - 1)) = Len(s) - 1 /\ Len(s) - 1 \in Nat
           /\ \A i \in 1 .. Len(s) - 1 : SubSeq(s, 1, Len(s) - 1)[i] = s[i]
  <1> DEFINE n == Len(s) - 1
  <1>1. Len(s) \in Nat /\ Len(s) # 0
    OBVIOUS
  <1>2. n \in Nat /\ n <= Len(s)
    BY <1>1
  <1>3. \A i \in 1 .. n : s[i] \in S
    BY <1>1
  <1> HIDE DEF n
  <1>4. /\ SubSeq(s, 1, n) \in Seq(S)
        /\ Len(SubSeq(s, 1, n)) = IF 1 <= n THEN n - 1 + 1 ELSE 0
        /\ \A i \in 1 .. n - 1 + 1 : SubSeq(s, 1, n)[i] = s[1 + i - 1]
    BY <1>2, <1>3, SubSeqProperties
  <1>5. n - 1 + 1 = n /\ (n < 1 => n = 0) /\ \A i \in 1 .. n : 1 + i - 1 = i
    BY <1>2
  <1>6. Len(SubSeq(s, 1, n)) = n
    BY <1>2, <1>4, <1>5
  <1>7. \A i \in 1 .. n : SubSeq(s, 1, n)[i] = s[i]
    BY <1>4, <1>5
  <1>8. QED
    BY <1>2, <1>4, <1>6, <1>7 DEF n

\* Handlers subscribe and unsubscribe while they are called: no list has one twice.
LEMMA BusInductive ==
    /\ Init => BusInv
    /\ BusInv /\ [Next]_vars => BusInv'
  <1>1. Init => BusInv
    <2> SUFFICES ASSUME Init PROVE BusInv
      OBVIOUS
    <2>1. <<>> \in Seq(Handlers) /\ <<>> \in Seq(Frames)
      OBVIOUS
    <2>2. lists \in [Names -> Seq(Handlers)] /\ \A n \in Names : lists[n] = <<>>
      BY <2>1 DEF Init
    <2>3. stack = <<>> /\ enabled \in BOOLEAN
      BY DEF Init
    <2>4. TypeOK
      BY <2>1, <2>2, <2>3 DEF TypeOK
    <2>5. QED
      BY <2>2, <2>4 DEF BusInv, NoneTwice
  <1>2. ASSUME BusInv, [Next]_vars PROVE BusInv'
    <2>1. /\ TypeOK /\ enabled \in BOOLEAN /\ lists \in [Names -> Seq(Handlers)]
          /\ stack \in Seq(Frames)
          /\ \A d \in DOMAIN stack : stack[d].called <= Len(stack[d].copy)
          /\ \A n \in Names : lists[n] \in Seq(Handlers) /\ NoneTwice(lists[n])
      BY <1>2 DEF BusInv, TypeOK
    <2>2. ASSUME NEW n \in Names, NEW h \in Handlers, Subscribe(n, h) PROVE BusInv'
      <3>1. Append(lists[n], h) \in Seq(Handlers) /\ NoneTwice(Append(lists[n], h))
        <4>1. /\ lists[n] \in Seq(Handlers) /\ NoneTwice(lists[n])
              /\ \A k \in DOMAIN lists[n] : lists[n][k] # h
          BY <2>1, <2>2 DEF Subscribe, Contains
        <4> DEFINE list == lists[n]
        <4> HIDE DEF list
        <4>2. list \in Seq(Handlers) /\ NoneTwice(list) /\ \A k \in DOMAIN list : list[k] # h
          BY <4>1 DEF list
        <4>3. Append(list, h) \in Seq(Handlers) /\ NoneTwice(Append(list, h))
          BY <4>2 DEF NoneTwice
        <4>4. QED
          BY <4>3 DEF list
      <3>2. lists' = [lists EXCEPT ![n] = Append(@, h)] /\ enabled' = enabled /\ stack' = stack
        BY <2>2 DEF Subscribe
      <3>3. QED
        BY <2>1, <3>1, <3>2 DEF BusInv, TypeOK
    <2>3. ASSUME NEW n \in Names, NEW h \in Handlers, Unsubscribe(n, h) PROVE BusInv'
      <3>1. PICK k \in DOMAIN lists[n] :
                lists' = [lists EXCEPT ![n] = SubSeq(@, 1, k - 1) \o SubSeq(@, k + 1, Len(@))]
        BY <2>3 DEF Unsubscribe
      <3> DEFINE left == SubSeq(lists[n], 1, k - 1) \o SubSeq(lists[n], k + 1, Len(lists[n]))
      <3>2. left \in Seq(Handlers) /\ NoneTwice(left)
        BY <2>1, OneTakenOut
      <3>3. lists' = [lists EXCEPT ![n] = left] /\ enabled' = enabled /\ stack' = stack
        BY <2>3, <3>1 DEF Unsubscribe
      <3> HIDE DEF left
      <3>4. QED
        BY <2>1, <3>2, <3>3 DEF BusInv, TypeOK
    <2>4. CASE Clear
      <3>1. lists' = [n \in Names |-> <<>>] /\ enabled' = enabled /\ stack' = stack
        BY <2>4 DEF Clear
      <3>2. <<>> \in Seq(Handlers) /\ NoneTwice(<<>>)
        BY DEF NoneTwice
      <3>3. lists' \in [Names -> Seq(Handlers)] /\ \A n \in Names : lists'[n] = <<>>
        BY <3>1, <3>2
      <3>4. QED
        BY <2>1, <3>1, <3>2, <3>3 DEF BusInv, TypeOK
    <2>5. ASSUME NEW e \in Events, Publish(e) PROVE BusInv'
      <3> DEFINE copy == lists[e] \o lists[Wildcard]
                 frame == [event |-> e, copy |-> copy, called |-> 0, running |-> FALSE]
      <3>1. stack' = Append(stack, frame) /\ enabled' = enabled /\ lists' = lists
        BY <2>5 DEF Publish
      <3>2. copy \in Seq(Handlers) /\ 0 <= Len(copy)
        BY <2>1 DEF Names
      <3> HIDE DEF copy
      <3>3. frame \in Frames /\ frame.called <= Len(frame.copy)
        BY <3>2 DEF Frames
      <3> HIDE DEF frame
      <3>4. stack' \in Seq(Frames) /\ \A d \in DOMAIN stack' : stack'[d].called <= Len(stack'[d].copy)
        BY <2>1, <3>1, <3>3
      <3>5. QED
        BY <2>1, <3>1, <3>4 DEF BusInv, TypeOK
    <2>6. CASE CallNext \/ HandlerEnds
      <3> DEFINE top == Len(stack)
      <3>1. top \in DOMAIN stack /\ enabled' = enabled /\ lists' = lists
        BY <2>1, <2>6 DEF CallNext, HandlerEnds
      <3>2. PICK frame : /\ frame \in Frames /\ frame.called <= Len(frame.copy)
                         /\ stack' = [stack EXCEPT ![top] = frame]
        <4> DEFINE f == stack[top]
                   next == [f EXCEPT !.called = @ + 1, !.running = TRUE]
                   idle == [f EXCEPT !.running = FALSE]
        <4>1. /\ f \in Frames /\ f.copy \in Seq(Handlers) /\ Len(f.copy) \in Nat
              /\ f.called \in Nat /\ f.called <= Len(f.copy)
          BY <2>1, <3>1, FrameType
        <4>2. CASE CallNext
          <5>1. f.called < Len(f.copy)
            BY <2>1, <4>2 DEF CallNext, Top, HandlersToCall
          <5>2. stack' = [stack EXCEPT ![top] = next]
            BY <2>1, <3>1, <4>1, <4>2 DEF CallNext
          <5> HIDE DEF f
          <5>3. /\ next.copy = f.copy /\ next.called = f.called + 1
                /\ next.running = TRUE /\ next.event = f.event
            BY <4>1 DEF Frames
          <5>4. next \in Frames
            <6> DEFINE went == [f EXCEPT !.called = f.called + 1]
            <6>1. f.called + 1 \in Nat
              BY <4>1
            <6>2. went \in Frames
              BY <4>1, <6>1 DEF Frames
            <6>3. next = [went EXCEPT !.running = TRUE]
              OBVIOUS
            <6> HIDE DEF went, next
            <6>4. QED
              BY <6>2, <6>3 DEF Frames
          <5>5. next.called <= Len(next.copy)
            BY <4>1, <5>1, <5>3
          <5>6. QED
            BY <5>2, <5>4, <5>5
        <4>3. CASE HandlerEnds
          <5>1. stack' = [stack EXCEPT ![top] = idle]
            BY <4>3 DEF HandlerEnds
          <5> HIDE DEF f
          <5>2. idle \in Frames /\ idle.called <= Len(idle.copy)
            BY <4>1 DEF Frames
          <5>3. QED
            BY <5>1, <5>2
        <4>4. QED
          BY <2>6, <4>2, <4>3
      <3>3. /\ stack' \in Seq(Frames)
            /\ \A d \in DOMAIN stack' : stack'[d].called <= Len(stack'[d].copy)
        BY <2>1, <3>1, <3>2
      <3>4. QED
        BY <2>1, <3>1, <3>3 DEF BusInv, TypeOK
    <2>7. CASE PublishReturns
      <3>1. /\ stack' = SubSeq(stack, 1, Len(stack) - 1) /\ enabled' = enabled /\ lists' = lists
            /\ stack # <<>>
        BY <2>7 DEF PublishReturns, Pop
      <3>2. /\ stack' \in Seq(Frames) /\ Len(stack') = Len(stack) - 1
            /\ \A d \in 1 .. Len(stack) - 1 : stack'[d] = stack[d]
        BY <2>1, <3>1, Popped
      <3>3. \A d \in DOMAIN stack' : stack'[d].called <= Len(stack'[d].copy)
        BY <2>1, <3>1, <3>2
      <3>4. QED
        BY <2>1, <3>1, <3>2, <3>3 DEF BusInv, TypeOK
    <2>8. CASE UNCHANGED vars
      BY <2>1, <2>8 DEF vars, BusInv, TypeOK
    <2>9. QED
      BY <1>2, <2>2, <2>3, <2>4, <2>5, <2>6, <2>7, <2>8 DEF Next
  <1>3. QED
    BY <1>1, <1>2

\* The lists stay lists without repetitions, and a publish never calls more than
\* its copy, whatever the handlers do to the bus.
THEOREM BusInvariant == Spec => []BusInv
  BY BusInductive, PTL DEF Spec

----------------------------------------------------------------------------
(* The calls that are owed *)

\* Where a handler is in a list: nowhere or at one place.
LEMMA PlaceInList ==
    ASSUME NEW list \in Seq(Handlers), NoneTwice(list), NEW h
    PROVE  \/ ~Contains(list, h) /\ \A k \in 1 .. Len(list) : list[k] # h
           \/ /\ Contains(list, h)
              /\ \E k \in 1 .. Len(list) : \A j \in 1 .. Len(list) : list[j] = h <=> j = k
  <1>1. DOMAIN list = 1 .. Len(list)
    OBVIOUS
  <1>2. CASE Contains(list, h)
    <2>1. PICK k \in DOMAIN list : list[k] = h
      BY <1>2 DEF Contains
    <2>2. \A j \in DOMAIN list : list[j] = h <=> j = k
      BY <2>1 DEF NoneTwice
    <2>3. k \in 1 .. Len(list) /\ \A j \in 1 .. Len(list) : list[j] = h <=> j = k
      BY <1>1, <2>2
    <2>4. \E i \in 1 .. Len(list) : \A j \in 1 .. Len(list) : list[j] = h <=> j = i
      BY <2>3, Zenon
    <2>5. QED
      BY <1>2, <2>4
  <1>3. CASE ~Contains(list, h)
    BY <1>1, <1>3 DEF Contains
  <1>4. QED
    BY <1>2, <1>3

\* The places of a handler in a list.
PlacesOf(list, h) == {k \in 1 .. Len(list) : list[k] = h}

\* Two lists behind one another have a handler as often as it is in them.
LEMMA PlacesInBoth ==
    ASSUME NEW s \in Seq(Handlers), NoneTwice(s), NEW t \in Seq(Handlers), NoneTwice(t),
           NEW h
    PROVE  Cardinality(PlacesOf(s \o t, h)) = (IF Contains(s, h) THEN 1 ELSE 0)
                                                 + (IF Contains(t, h) THEN 1 ELSE 0)
  <1> DEFINE both == s \o t
             places == PlacesOf(both, h)
             m == Len(s)
             n == Len(t)
  <1> SUFFICES Cardinality(places) = (IF Contains(s, h) THEN 1 ELSE 0)
                                       + (IF Contains(t, h) THEN 1 ELSE 0)
    OBVIOUS
  <1>1. m \in Nat /\ n \in Nat
    OBVIOUS
  <1>2. /\ Len(both) = m + n
        /\ \A k \in 1 .. m + n : both[k] = IF k <= m THEN s[k] ELSE t[k - m]
    BY ConcatProperties
  <1>3. \/ ~Contains(s, h) /\ \A k \in 1 .. m : s[k] # h
        \/ Contains(s, h) /\ \E k \in 1 .. m : \A j \in 1 .. m : s[j] = h <=> j = k
    BY PlaceInList
  <1>4. \/ ~Contains(t, h) /\ \A k \in 1 .. n : t[k] # h
        \/ Contains(t, h) /\ \E k \in 1 .. n : \A j \in 1 .. n : t[j] = h <=> j = k
    BY PlaceInList
  <1> HIDE DEF both, m, n, places
  <1>5. \A k : k \in places <=>
                  (k \in 1 .. m /\ s[k] = h) \/ (k \in m + 1 .. m + n /\ t[k - m] = h)
    <2>1. \A k : k \in 1 .. m + n <=> k \in 1 .. m \/ k \in m + 1 .. m + n
      BY <1>1
    <2>2. \A k \in 1 .. m : k <= m /\ k \in 1 .. m + n
      BY <1>1
    <2>3. \A k \in m + 1 .. m + n : ~(k <= m) /\ k \in 1 .. m + n
      BY <1>1
    <2>4. \A k \in 1 .. m : both[k] = s[k]
      BY <1>2, <2>2
    <2>5. \A k \in m + 1 .. m + n : both[k] = t[k - m]
      BY <1>2, <2>3
    <2>6. \A k : k \in places <=> k \in 1 .. m + n /\ both[k] = h
      BY <1>2 DEF places, PlacesOf
    <2>7. QED
      BY <2>1, <2>4, <2>5, <2>6
  <1>6. \A k \in m + 1 .. m + n : k - m \in 1 .. n /\ m + (k - m) = k
    BY <1>1
  <1>7. \A k \in 1 .. n : m + k \in m + 1 .. m + n /\ (m + k) - m = k
    BY <1>1
  <1>8. \A k \in 1 .. m, j \in 1 .. n : k # m + j
    BY <1>1
  <1>9. CASE ~Contains(s, h) /\ ~Contains(t, h)
    <2>1. places = {}
      BY <1>3, <1>4, <1>5, <1>6, <1>9
    <2>2. Cardinality(places) = 0
      BY <2>1, FS_EmptySet
    <2>3. QED
      BY <1>9, <2>2
  <1>10. CASE Contains(s, h) /\ ~Contains(t, h)
    <2>1. PICK k \in 1 .. m : \A j \in 1 .. m : s[j] = h <=> j = k
      BY <1>3, <1>10
    <2>2. places = {k}
      BY <1>4, <1>5, <1>6, <1>10, <2>1
    <2>3. Cardinality(places) = 1
      BY <2>2, FS_Singleton
    <2>4. QED
      BY <1>10, <2>3
  <1>11. CASE ~Contains(s, h) /\ Contains(t, h)
    <2>1. PICK k \in 1 .. n : \A j \in 1 .. n : t[j] = h <=> j = k
      BY <1>4, <1>11
    <2>2. places = {m + k}
      BY <1>3, <1>5, <1>6, <1>7, <1>11, <2>1
    <2>3. Cardinality(places) = 1
      BY <2>2, FS_Singleton
    <2>4. QED
      BY <1>11, <2>3
  <1>12. CASE Contains(s, h) /\ Contains(t, h)
    <2>1. PICK k \in 1 .. m : \A i \in 1 .. m : s[i] = h <=> i = k
      BY <1>3, <1>12
    <2>2. PICK j \in 1 .. n : \A i \in 1 .. n : t[i] = h <=> i = j
      BY <1>4, <1>12
    <2>3. places = {k} \cup {m + j}
      BY <1>5, <1>6, <1>7, <2>1, <2>2
    <2>4. IsFiniteSet({k}) /\ Cardinality({k}) = 1 /\ m + j \notin {k}
      BY <1>8, FS_Singleton
    <2>5. Cardinality({k} \cup {m + j}) = 1 + 1
      BY <2>4, FS_AddElement
    <2>6. QED
      BY <1>12, <2>3, <2>5
  <1>13. QED
    BY <1>9, <1>10, <1>11, <1>12

\* What the publishes of a stack owe is a number of calls to every handler.
LEMMA OwedType ==
    ASSUME NEW frames \in Seq(Frames)
    PROVE  /\ [d \in DOMAIN frames |-> StillOwed(frames[d])] \in Seq([Handlers -> Nat])
           /\ Len([d \in DOMAIN frames |-> StillOwed(frames[d])]) = Len(frames)
           /\ Len(frames) \in Nat /\ DOMAIN frames = 1 .. Len(frames)
  <1> DEFINE n == Len(frames)
             owed == [d \in DOMAIN frames |-> StillOwed(frames[d])]
  <1>1. n \in Nat /\ DOMAIN frames = 1 .. n /\ \A d \in 1 .. n : frames[d] \in Frames
    OBVIOUS
  <1>2. ASSUME NEW f \in Frames PROVE StillOwed(f) \in [Handlers -> Nat]
    <2> DEFINE places(h) == {k \in f.called + 1 .. Len(f.copy) : f.copy[k] = h}
    <2> SUFFICES \A h \in Handlers : Cardinality(places(h)) \in Nat
      BY DEF StillOwed
    <2>1. f.called \in Nat /\ f.copy \in Seq(Handlers)
      BY DEF Frames
    <2>2. f.called + 1 \in Int /\ Len(f.copy) \in Int
      BY <2>1
    <2>3. IsFiniteSet(f.called + 1 .. Len(f.copy))
      BY <2>2, FS_Interval
    <2>4. \A h : places(h) \subseteq f.called + 1 .. Len(f.copy)
      OBVIOUS
    <2> HIDE DEF places
    <2>5. QED
      BY <2>3, <2>4, FS_Subset, FS_CardinalityType
  <1>3. owed = [d \in 1 .. n |-> StillOwed(frames[d])]
    BY <1>1
  <1>4. owed \in [1 .. n -> [Handlers -> Nat]]
    BY <1>1, <1>2, <1>3
  <1> HIDE DEF owed, n
  <1>5. owed \in Seq([Handlers -> Nat]) /\ Len(owed) = n
    BY <1>1, <1>4
  <1>6. QED
    BY <1>1, <1>5 DEF owed, n

\* So it is before and after a step.
LEMMA OwedBeforeAndAfter ==
    ASSUME BusInv, BusInv'
    PROVE  /\ Owed \in Seq([Handlers -> Nat]) /\ Owed' \in Seq([Handlers -> Nat])
           /\ Len(Owed) = Len(stack) /\ Len(Owed') = Len(stack')
           /\ Len(stack) \in Nat /\ Len(stack') \in Nat
           /\ \A d \in 1 .. Len(stack) : Owed[d] = StillOwed(stack[d])
           /\ \A d \in 1 .. Len(stack') : Owed'[d] = StillOwed(stack'[d])
  <1>1. stack \in Seq(Frames) /\ stack' \in Seq(Frames)
    BY DEF BusInv, TypeOK
  <1>2. Owed = [d \in DOMAIN stack |-> StillOwed(stack[d])]
    BY DEF Owed
  <1>3. Owed' = [d \in DOMAIN stack' |-> StillOwed(stack'[d])]
    BY DEF Owed, StillOwed
  <1>4. DOMAIN stack = 1 .. Len(stack) /\ DOMAIN stack' = 1 .. Len(stack')
    BY <1>1
  <1>5. QED
    BY <1>1, <1>2, <1>3, <1>4, OwedType

----------------------------------------------------------------------------
(* The steps *)

\* A publish that begins owes a call to every subscription to its event and to all.
LEMMA PublishBegins ==
    ASSUME BusInv, BusInv', NEW e \in Events, Publish(e)
    PROVE  Delivery!BeginPublish(e)
  <1> DEFINE copy == lists[e] \o lists[Wildcard]
             frame == [event |-> e, copy |-> copy, called |-> 0, running |-> FALSE]
             begun == [h \in Handlers |-> Delivery!OwedTo(h, e)]
  <1>1. /\ stack' = Append(stack, frame) /\ lists' = lists
        /\ stack \in Seq(Frames) /\ Len(stack) \in Nat
    BY DEF Publish, BusInv, TypeOK
  <1>2. /\ e \in Names /\ Wildcard \in Names /\ e # Wildcard
        /\ lists[e] \in Seq(Handlers) /\ NoneTwice(lists[e])
        /\ lists[Wildcard] \in Seq(Handlers) /\ NoneTwice(lists[Wildcard])
    BY EventBusAssumption DEF Names, BusInv, TypeOK
  <1>3. StillOwed(frame) = begun
    <2>1. ASSUME NEW h \in Handlers
          PROVE  StillOwed(frame)[h] = Delivery!OwedTo(h, e)
      <3>1. Cardinality(PlacesOf(copy, h)) = (IF Contains(lists[e], h) THEN 1 ELSE 0)
                                               + (IF Contains(lists[Wildcard], h) THEN 1 ELSE 0)
        BY <1>2, PlacesInBoth
      <3>2. \A l \in {e, Wildcard} : <<l, h>> \in Subscriptions <=> Contains(lists[l], h)
        BY <1>2 DEF Subscriptions
      <3>3. Delivery!OwedTo(h, e) = (IF Contains(lists[e], h) THEN 1 ELSE 0)
                                      + (IF Contains(lists[Wildcard], h) THEN 1 ELSE 0)
        BY <3>2 DEF Delivery!OwedTo, Delivery!Worth
      <3> HIDE DEF copy
      <3>4. frame.called + 1 = 1 /\ frame.copy = copy
        OBVIOUS
      <3>5. StillOwed(frame)[h] = Cardinality(PlacesOf(copy, h))
        BY <3>4 DEF StillOwed, PlacesOf
      <3>6. QED
        BY <3>1, <3>3, <3>5
    <2>2. StillOwed(frame) = [h \in Handlers |-> StillOwed(frame)[h]]
      BY DEF StillOwed
    <2> HIDE DEF frame
    <2>3. QED
      BY <2>1, <2>2
  <1> HIDE DEF frame, copy, begun
  <1>4. Owed' = Append(Owed, begun)
    <2>1. /\ Owed \in Seq([Handlers -> Nat]) /\ Owed' \in Seq([Handlers -> Nat])
          /\ Len(Owed) = Len(stack) /\ Len(Owed') = Len(stack')
          /\ \A d \in 1 .. Len(stack) : Owed[d] = StillOwed(stack[d])
          /\ \A d \in 1 .. Len(stack') : Owed'[d] = StillOwed(stack'[d])
      BY OwedBeforeAndAfter
    <2>2. /\ Len(stack') = Len(stack) + 1 /\ stack'[Len(stack) + 1] = frame
          /\ \A d \in 1 .. Len(stack) : stack'[d] = stack[d]
      BY <1>1
    <2>3. begun \in [Handlers -> Nat]
      <3>1. Len(stack) + 1 \in 1 .. Len(stack')
        BY <1>1, <2>2
      <3>2. Owed'[Len(stack) + 1] = begun
        BY <1>3, <2>1, <2>2, <3>1
      <3>3. Owed'[Len(stack) + 1] \in [Handlers -> Nat]
        BY <2>1, <3>1
      <3>4. QED
        BY <3>2, <3>3
    <2>4. Append(Owed, begun) \in Seq([Handlers -> Nat])
      BY <2>1, <2>3
    <2>5. Len(Append(Owed, begun)) = Len(Owed')
      BY <1>1, <2>1, <2>2, <2>3
    <2>6. \A d \in 1 .. Len(Owed') : Owed'[d] = Append(Owed, begun)[d]
      BY <1>1, <1>3, <2>1, <2>2, <2>3
    <2>7. QED
      BY <2>1, <2>4, <2>5, <2>6, SeqEqual
  <1>5. Subscriptions' = Subscriptions
    BY <1>1 DEF Subscriptions
  <1>6. QED
    BY <1>4, <1>5 DEF Delivery!BeginPublish, begun

\* The top of the stack, and what is owed below it, when its frame is replaced.
LEMMA TopReplaced ==
    ASSUME BusInv, BusInv', stack # <<>>, NEW frame, stack' = [stack EXCEPT ![Len(stack)] = frame]
    PROVE  Owed' = [Owed EXCEPT ![Len(Owed)] = StillOwed(frame)]
  <1> DEFINE n == Len(stack)
             next == [Owed EXCEPT ![n] = StillOwed(frame)]
  <1>1. stack \in Seq(Frames) /\ n \in Nat /\ n \in 1 .. n
    BY DEF BusInv, TypeOK
  <1>2. /\ Owed \in Seq([Handlers -> Nat]) /\ Owed' \in Seq([Handlers -> Nat])
        /\ Len(Owed) = n /\ Len(Owed') = Len(stack')
        /\ \A d \in 1 .. n : Owed[d] = StillOwed(stack[d])
        /\ \A d \in 1 .. Len(stack') : Owed'[d] = StillOwed(stack'[d])
    BY OwedBeforeAndAfter
  <1>3. /\ Len(stack') = n /\ stack'[n] = frame
        /\ \A d \in 1 .. n : d # n => stack'[d] = stack[d]
    BY <1>1
  <1> HIDE DEF n
  <1>4. Owed'[n] = StillOwed(frame) /\ Owed'[n] \in [Handlers -> Nat]
    BY <1>1, <1>2, <1>3
  <1>5. next \in Seq([Handlers -> Nat]) /\ Len(next) = n
        /\ \A d \in 1 .. n : next[d] = IF d = n THEN StillOwed(frame) ELSE Owed[d]
    BY <1>1, <1>2, <1>4, ExceptSeq
  <1> HIDE DEF next
  <1>6. \A d \in 1 .. Len(Owed') : Owed'[d] = next[d]
    <2> SUFFICES ASSUME NEW d \in 1 .. n PROVE Owed'[d] = next[d]
      BY <1>2, <1>3
    <2>1. CASE d = n
      BY <1>4, <1>5, <2>1
    <2>2. CASE d # n
      <3>1. stack'[d] = stack[d]
        BY <1>3, <2>2
      <3>2. Owed'[d] = StillOwed(stack'[d]) /\ Owed[d] = StillOwed(stack[d])
        BY <1>2, <1>3
      <3>3. QED
        BY <1>5, <2>2, <3>1, <3>2
    <2>3. QED
      BY <2>1, <2>2
  <1>7. Owed' = next
    BY <1>2, <1>3, <1>5, <1>6, SeqEqual
  <1>8. QED
    BY <1>2, <1>7 DEF next

\* A call of the next handler of the copy delivers one of the calls it is owed.
LEMMA HandlerCalled ==
    ASSUME BusInv, BusInv', CallNext
    PROVE  \E h \in Handlers : Delivery!Deliver(h)
  <1> DEFINE n == Len(stack)
             f == stack[n]
             next == [f EXCEPT !.called = @ + 1, !.running = TRUE]
             h == f.copy[f.called + 1]
  <1>1. n \in DOMAIN stack /\ n \in 1 .. n /\ stack # <<>> /\ lists' = lists
    BY DEF BusInv, TypeOK, CallNext
  <1>2. /\ f \in Frames /\ f.copy \in Seq(Handlers) /\ Len(f.copy) \in Nat /\ f.called \in Nat
    BY <1>1, FrameType DEF BusInv
  <1>3. f.called < Len(f.copy)
    BY DEF CallNext, Top, HandlersToCall
  <1>4. stack' = [stack EXCEPT ![n] = next]
    BY <1>1, <1>2 DEF CallNext
  <1> HIDE DEF f
  <1>5. next.copy = f.copy /\ next.called = f.called + 1
    BY <1>2 DEF Frames
  <1>6. f.called + 1 \in 1 .. Len(f.copy) /\ h \in Handlers
    BY <1>2, <1>3
  <1> HIDE DEF next, h
  <1>7. Owed' = [Owed EXCEPT ![Len(Owed)] = StillOwed(next)]
    BY <1>1, <1>4, TopReplaced
  <1>8. /\ Owed \in Seq([Handlers -> Nat]) /\ Len(Owed) = n /\ Owed[n] = StillOwed(f)
    BY <1>1, OwedBeforeAndAfter DEF f
  <1>9. ASSUME NEW g \in Handlers
        PROVE  /\ g = h => StillOwed(next)[g] = StillOwed(f)[g] - 1 /\ StillOwed(f)[g] > 0
               /\ g # h => StillOwed(next)[g] = StillOwed(f)[g]
    <2> DEFINE now == {k \in f.called + 1 .. Len(f.copy) : f.copy[k] = g}
               then == {k \in f.called + 2 .. Len(f.copy) : f.copy[k] = g}
    <2>1. StillOwed(f)[g] = Cardinality(now)
      BY DEF StillOwed
    <2>2. StillOwed(next)[g] = Cardinality(then)
      <3>1. (f.called + 1) + 1 = f.called + 2
        BY <1>2
      <3>2. StillOwed(next)[g] = Cardinality({k \in (f.called + 1) + 1 .. Len(f.copy) : f.copy[k] = g})
        BY <1>5 DEF StillOwed
      <3>3. QED
        BY <3>1, <3>2
    <2>3. /\ f.called + 1 \in f.called + 1 .. Len(f.copy)
          /\ \A k : k \in f.called + 2 .. Len(f.copy) <=>
                        k \in f.called + 1 .. Len(f.copy) /\ k # f.called + 1
      BY <1>2, <1>3
    <2>4. IsFiniteSet(now)
      <3>1. f.called + 1 \in Int /\ Len(f.copy) \in Int
        BY <1>2
      <3>2. IsFiniteSet(f.called + 1 .. Len(f.copy))
        BY <3>1, FS_Interval
      <3>3. now \subseteq f.called + 1 .. Len(f.copy)
        OBVIOUS
      <3> HIDE DEF now
      <3>4. QED
        BY <3>2, <3>3, FS_Subset
    <2>5. CASE g = h
      <3>1. then = now \ {f.called + 1} /\ f.called + 1 \in now
        BY <2>3, <2>5 DEF h
      <3> HIDE DEF now, then
      <3>2. Cardinality(then) = Cardinality(now) - 1
        BY <2>4, <3>1, FS_RemoveElement
      <3>3. Cardinality(now) \in Nat /\ Cardinality(now) # 0
        BY <2>4, <3>1, FS_CardinalityType, FS_EmptySet
      <3>4. QED
        BY <2>1, <2>2, <2>5, <3>2, <3>3
    <2>6. CASE g # h
      <3>1. then = now
        BY <2>3, <2>6 DEF h
      <3> HIDE DEF now, then
      <3>2. QED
        BY <2>1, <2>2, <2>6, <3>1
    <2>7. QED
      BY <2>5, <2>6
  <1>10. StillOwed(f) \in [Handlers -> Nat]
    BY <1>1, <1>8
  <1>11. StillOwed(next) = [StillOwed(f) EXCEPT ![h] = @ - 1]
    <2>1. StillOwed(next) = [g \in Handlers |-> StillOwed(next)[g]]
      BY DEF StillOwed
    <2>2. \A g \in Handlers :
              StillOwed(next)[g] = IF g = h THEN StillOwed(f)[g] - 1 ELSE StillOwed(f)[g]
      BY <1>9
    <2> DEFINE a == StillOwed(next)
               b == StillOwed(f)
    <2> HIDE DEF a, b
    <2>3. /\ a = [g \in Handlers |-> a[g]] /\ b \in [Handlers -> Nat]
          /\ \A g \in Handlers : a[g] = IF g = h THEN b[g] - 1 ELSE b[g]
      BY <1>10, <2>1, <2>2 DEF a, b
    <2>4. a = [b EXCEPT ![h] = @ - 1]
      BY <1>6, <2>3
    <2>5. QED
      BY <2>4 DEF a, b
  <1>12. Owed # <<>> /\ Owed[Len(Owed)][h] > 0
    <2>1. Owed # <<>>
      BY <1>1, <1>8
    <2>2. QED
      BY <1>6, <1>8, <1>9, <2>1
  <1>13. Owed' = [Owed EXCEPT ![Len(Owed)][h] = @ - 1]
    BY <1>7, <1>8, <1>11
  <1>14. Subscriptions' = Subscriptions
    BY <1>1 DEF Subscriptions
  <1>15. QED
    BY <1>6, <1>12, <1>13, <1>14 DEF Delivery!Deliver

\* A handler that ends, by an exception or not, changes nothing that is owed.
LEMMA HandlerEnded ==
    ASSUME BusInv, BusInv', HandlerEnds
    PROVE  Owed' = Owed /\ Subscriptions' = Subscriptions
  <1> DEFINE n == Len(stack)
             f == stack[n]
             idle == [f EXCEPT !.running = FALSE]
  <1>1. n \in DOMAIN stack /\ n \in 1 .. n /\ stack # <<>> /\ lists' = lists
    BY DEF BusInv, TypeOK, HandlerEnds
  <1>2. f \in Frames
    BY <1>1, FrameType DEF BusInv
  <1>3. stack' = [stack EXCEPT ![n] = idle]
    BY DEF HandlerEnds
  <1> HIDE DEF f
  <1>4. idle.copy = f.copy /\ idle.called = f.called
    BY <1>2 DEF Frames
  <1> HIDE DEF idle
  <1>5. StillOwed(idle) = StillOwed(f)
    BY <1>4 DEF StillOwed
  <1>6. Owed' = [Owed EXCEPT ![Len(Owed)] = StillOwed(idle)]
    BY <1>1, <1>3, TopReplaced
  <1>7. Owed \in Seq([Handlers -> Nat]) /\ Len(Owed) = n /\ Owed[n] = StillOwed(f)
    BY <1>1, OwedBeforeAndAfter DEF f
  <1>8. Owed' = Owed
    BY <1>5, <1>6, <1>7
  <1>9. QED
    BY <1>1, <1>8 DEF Subscriptions

\* A publish returns when every call is made.
LEMMA PublishReturned ==
    ASSUME BusInv, BusInv', PublishReturns
    PROVE  Delivery!ReturnPublish
  <1> DEFINE n == Len(stack)
             f == stack[n]
  <1>1. /\ stack \in Seq(Frames) /\ stack # <<>> /\ n \in 1 .. n /\ n \in DOMAIN stack
        /\ stack' = SubSeq(stack, 1, n - 1) /\ lists' = lists
    BY DEF BusInv, TypeOK, PublishReturns, Pop
  <1>2. f.called \in Nat /\ Len(f.copy) \in Nat /\ f.called >= Len(f.copy)
    BY <1>1, FrameType DEF BusInv, PublishReturns, Top, HandlersToCall
  <1>3. \A h \in Handlers : StillOwed(f)[h] = 0
    <2>1. f.called + 1 .. Len(f.copy) = {}
      BY <1>2
    <2> SUFFICES ASSUME NEW h \in Handlers PROVE StillOwed(f)[h] = 0
      OBVIOUS
    <2>2. StillOwed(f)[h] = Cardinality({k \in f.called + 1 .. Len(f.copy) : f.copy[k] = h})
      BY DEF StillOwed
    <2>3. {k \in f.called + 1 .. Len(f.copy) : f.copy[k] = h} = {}
      BY <2>1
    <2>4. QED
      BY <2>2, <2>3, FS_EmptySet
  <1> HIDE DEF f
  <1>4. /\ Owed \in Seq([Handlers -> Nat]) /\ Owed' \in Seq([Handlers -> Nat])
        /\ Len(Owed) = n /\ Len(Owed') = Len(stack')
        /\ \A d \in 1 .. n : Owed[d] = StillOwed(stack[d])
        /\ \A d \in 1 .. Len(stack') : Owed'[d] = StillOwed(stack'[d])
    BY OwedBeforeAndAfter
  <1>5. Owed # <<>> /\ Owed[Len(Owed)] = StillOwed(f)
    BY <1>1, <1>4 DEF f
  <1>6. /\ Len(stack') = n - 1 /\ n - 1 \in Nat
        /\ \A d \in 1 .. n - 1 : stack'[d] = stack[d] /\ d \in 1 .. n
    <2>1. \A d \in 1 .. n - 1 : d \in 1 .. n
      BY <1>1
    <2>2. QED
      BY <1>1, <2>1, Popped
  <1>7. /\ SubSeq(Owed, 1, n - 1) \in Seq([Handlers -> Nat])
        /\ Len(SubSeq(Owed, 1, n - 1)) = n - 1
        /\ \A d \in 1 .. n - 1 : SubSeq(Owed, 1, n - 1)[d] = Owed[d]
    BY <1>4, <1>5, Popped
  <1>8. \A d \in 1 .. Len(Owed') : Owed'[d] = SubSeq(Owed, 1, n - 1)[d]
    BY <1>4, <1>6, <1>7
  <1>9. Owed' = SubSeq(Owed, 1, Len(Owed) - 1)
    BY <1>4, <1>6, <1>7, <1>8, SeqEqual
  <1>10. Subscriptions' = Subscriptions
    BY <1>1 DEF Subscriptions
  <1>11. QED
    BY <1>3, <1>5, <1>9, <1>10 DEF Delivery!ReturnPublish

\* Every step of the bus is one of EventDelivery, or a handler's end.
LEMMA DeliveryStep ==
    ASSUME BusInv, BusInv', [Next]_vars
    PROVE  [Delivery!DeliveryNext]_(Delivery!deliveryVars)
  <1>1. ASSUME NEW n \in Names, NEW h \in Handlers,
               Subscribe(n, h) \/ Unsubscribe(n, h)
        PROVE  Delivery!ChangeSubscriptions
    <2>1. stack' = stack
      BY <1>1 DEF Subscribe, Unsubscribe
    <2>2. Owed' = Owed
      BY <2>1 DEF Owed, StillOwed
    <2>3. Subscriptions' \in SUBSET (Names \X Handlers)
      BY DEF Subscriptions
    <2>4. QED
      BY <2>2, <2>3 DEF Delivery!ChangeSubscriptions, Names
  <1>2. CASE Clear
    <2>1. stack' = stack
      BY <1>2 DEF Clear
    <2>2. Owed' = Owed
      BY <2>1 DEF Owed, StillOwed
    <2>3. Subscriptions' \in SUBSET (Names \X Handlers)
      BY DEF Subscriptions
    <2>4. Delivery!ChangeSubscriptions
      BY <2>2, <2>3 DEF Delivery!ChangeSubscriptions, Names
    <2>5. QED
      BY <2>4 DEF Delivery!DeliveryNext
  <1>3. ASSUME NEW e \in Events, Publish(e) PROVE Delivery!BeginPublish(e)
    BY <1>3, PublishBegins
  <1>4. CASE CallNext
    BY <1>4, HandlerCalled DEF Delivery!DeliveryNext
  <1>5. CASE HandlerEnds
    BY <1>5, HandlerEnded DEF Delivery!deliveryVars
  <1>6. CASE PublishReturns
    BY <1>6, PublishReturned DEF Delivery!DeliveryNext
  <1>7. CASE UNCHANGED vars
    <2>1. Owed' = Owed /\ Subscriptions' = Subscriptions
      BY <1>7 DEF vars, Owed, StillOwed, Subscriptions
    <2>2. QED
      BY <2>1 DEF Delivery!deliveryVars
  <1>8. QED
    BY <1>1, <1>2, <1>3, <1>4, <1>5, <1>6, <1>7 DEF Next, Delivery!DeliveryNext

----------------------------------------------------------------------------
(* The theorem *)

\* publish calls every subscription that was there when it began exactly once and
\* no other, for any handlers, events and depth: the bus implements EventDelivery.
THEOREM BusImplementsDelivery == Spec => ImplementsDelivery
  <1>1. Init => Subscriptions = {} /\ Owed = <<>>
    <2> SUFFICES ASSUME Init PROVE Subscriptions = {} /\ Owed = <<>>
      OBVIOUS
    <2>1. \A n \in Names, h \in Handlers : ~Contains(lists[n], h)
      BY DEF Init, Contains
    <2>2. Subscriptions = {}
      BY <2>1 DEF Subscriptions
    <2>3. DOMAIN stack = {}
      BY DEF Init
    <2>4. Owed = <<>>
      BY <2>3 DEF Owed
    <2>5. QED
      BY <2>2, <2>4
  <1>2. BusInv /\ BusInv' /\ [Next]_vars => [Delivery!DeliveryNext]_(Delivery!deliveryVars)
    BY DeliveryStep
  <1>3. QED
    BY <1>1, <1>2, BusInvariant, PTL
    DEF Spec, ImplementsDelivery, Delivery!DeliverySpec
=============================================================================
