-------------------------- MODULE TelemirrorProofs --------------------------
(***************************************************************************)
(* Theorems about TelemirrorClient for any number of requests, attempts,   *)
(* hosts and any durations: the mutex and the pace it keeps, the walk over *)
(* the attempts, and the slots a request takes after its deadline.         *)
(***************************************************************************)
EXTENDS TelemirrorClient, TLAPS

\* orderedAttempts is a permutation of the attempts.
LEMMA OrderedIsPermutation ==
    ASSUME NEW s \in 0 .. NAttempts
    PROVE  /\ Ordered(s) \in [Attempts -> Attempts]
           /\ \A j, k \in Attempts : Ordered(s)[j] = Ordered(s)[k] => j = k
           /\ \A a \in Attempts : \E k \in Attempts : Ordered(s)[k] = a
  <1>1. Ordered(s) \in [Attempts -> Attempts]
    BY TelemirrorAssumption DEF Ordered, Attempts
  <1>2. \A j, k \in Attempts : Ordered(s)[j] = Ordered(s)[k] => j = k
    BY TelemirrorAssumption DEF Ordered, Attempts
  <1>3. ASSUME NEW a \in Attempts
        PROVE  \E k \in Attempts : Ordered(s)[k] = a
    <2>1. CASE s = 0 \/ a > s
      <3>1. Ordered(s)[a] = a
        BY <2>1 DEF Ordered, Attempts
      <3>2. QED
        BY <3>1
    <2>2. CASE s # 0 /\ a = s
      <3>1. 1 \in Attempts /\ Ordered(s)[1] = a
        BY <2>2, TelemirrorAssumption DEF Ordered, Attempts
      <3>2. QED
        BY <3>1
    <2>3. CASE s # 0 /\ a < s
      <3>1. a + 1 \in Attempts /\ Ordered(s)[a + 1] = a
        BY <2>3, TelemirrorAssumption DEF Ordered, Attempts
      <3>2. QED
        BY <3>1
    <2>4. QED
      BY <2>1, <2>2, <2>3, TelemirrorAssumption DEF Attempts
  <1>4. QED
    BY <1>1, <1>2, <1>3

----------------------------------------------------------------------------
(* Types and the mutex *)

LEMMA PacingInit == Init => PacingInv
  <1>1. SUFFICES ASSUME Init PROVE PacingInv
    OBVIOUS
  <1>2. Ordered(0) \in [Attempts -> Attempts]
    BY OrderedIsPermutation, TelemirrorAssumption
  <1>3. Untried \in [Attempts -> Nat] /\ 1 \in Attempts /\ 1 \in 1 .. NHosts
    BY TelemirrorAssumption DEF Untried, Attempts
  <1>4. 0 \in 0 .. NAttempts /\ MinInterval \in 0 .. MinInterval
    BY TelemirrorAssumption
  <1>5. TypeOK
    BY <1>1, <1>2, <1>3, <1>4 DEF Init, TypeOK, Points
  <1>6. Nobody \notin Requests
    BY TelemirrorAssumption
  <1>7. QED
    BY <1>1, <1>5, <1>6 DEF Init, PacingInv

LEMMA NextIndex ==
    ASSUME NEW i \in Attempts, i < NAttempts
    PROVE  i + 1 \in Attempts
  BY TelemirrorAssumption DEF Attempts

LEMMA StepType ==
    ASSUME TypeOK, NEW r \in Requests, Step(r) \/ Acquire(r) \/ Expire(r)
    PROVE  TypeOK'
  <1> USE DEF TypeOK, Goto, Points, Returned, walkVars
  <1>1. CASE Begin(r)
    BY <1>1 DEF Begin
  <1>2. CASE Walk(r)
    <2>1. Ordered(sticky) \in [Attempts -> Attempts]
      BY OrderedIsPermutation
    <2>2. Untried \in [Attempts -> Nat] /\ 1 \in Attempts
      BY TelemirrorAssumption DEF Untried, Attempts
    <2>3. QED
      BY <1>2, <2>1, <2>2 DEF Walk
  <1>3. CASE WakeUp(r)
    BY <1>3 DEF WakeUp
  <1>4. CASE NapEnds(r)
    BY <1>4, TelemirrorAssumption DEF NapEnds, Granted
  <1>5. CASE Cancel(r)
    BY <1>5 DEF Cancel
  <1>6. CASE Send(r)
    <2>1. Attempt(r) \in Attempts
      BY DEF Attempt
    <2>2. tried' \in [Requests -> [Attempts -> Nat]]
      <3>1. tried[r] \in [Attempts -> Nat]
        OBVIOUS
      <3>2. [tried[r] EXCEPT ![Attempt(r)] = @ + 1] \in [Attempts -> Nat]
        BY <2>1, <3>1
      <3>3. QED
        BY <1>6, <3>2 DEF Send, NoteTry
    <2>3. CASE Succeeds(r)
      <3>1. Attempt(r) \in 0 .. NAttempts
        BY <2>1 DEF Attempts
      <3>2. QED
        BY <1>6, <2>2, <2>3, <3>1 DEF Send, Succeeds
    <2>4. CASE NotServed(r)
      <3>1. host' \in [Requests -> 1 .. NHosts]
        <4>1. host[r] < NHosts => host[r] + 1 \in 1 .. NHosts
          BY TelemirrorAssumption
        <4>2. QED
          BY <2>4, <4>1 DEF NotServed
      <3>2. pc' \in [Requests -> Points]
        BY <2>4 DEF NotServed
      <3>3. QED
        BY <1>6, <2>2, <2>4, <3>1, <3>2 DEF Send, NotServed
    <2>5. CASE Fails(r)
      <3>1. idx' \in [Requests -> Attempts]
        <4>1. idx[r] < NAttempts => idx[r] + 1 \in Attempts
          BY NextIndex
        <4>2. \/ idx' = idx
              \/ idx[r] < NAttempts /\ idx' = [idx EXCEPT ![r] = idx[r] + 1]
          BY <2>5 DEF Fails
        <4>3. QED
          BY <4>1, <4>2
      <3>2. timer' \in [Requests -> Nat]
        <4> DEFINE pause == IF r \in Media THEN MediaBackoff ELSE Backoff
        <4>1. pause \in Nat
          BY TelemirrorAssumption
        <4>2. timer' = timer \/ timer' = [timer EXCEPT ![r] = pause]
          BY <2>5 DEF Fails
        <4> HIDE DEF pause
        <4>3. QED
          BY <4>1, <4>2
      <3>3. pc' \in [Requests -> Points]
        BY <2>5 DEF Fails
      <3>4. UNCHANGED <<sticky, host, rateMu, age, order, expired, late>>
        BY <1>6, <2>5 DEF Send, Fails
      <3>5. QED
        BY <2>2, <3>1, <3>2, <3>3, <3>4
    <2>6. QED
      BY <1>6, <2>3, <2>4, <2>5 DEF Send
  <1>7. CASE Acquire(r)
    <2>1. age < MinInterval => MinInterval - age \in Nat
      BY TelemirrorAssumption
    <2>2. 0 \in 0 .. MinInterval
      BY TelemirrorAssumption
    <2>3. late' \in [Requests -> Nat] /\ age' \in 0 .. MinInterval
      BY <1>7, <2>2 DEF Acquire, Granted
    <2>4. timer' \in [Requests -> Nat] /\ pc' \in [Requests -> Points]
      <3>1. \/ timer' = timer
            \/ age < MinInterval /\ timer' = [timer EXCEPT ![r] = MinInterval - age]
        BY <1>7 DEF Acquire
      <3>2. pc' = [pc EXCEPT ![r] = "send"] \/ pc' = [pc EXCEPT ![r] = "nap"]
        BY <1>7 DEF Acquire, Granted
      <3>3. timer' \in [Requests -> Nat]
        BY <2>1, <3>1
      <3>4. QED
        BY <3>2, <3>3
    <2>5. QED
      BY <1>7, <2>3, <2>4 DEF Acquire, Granted
  <1>8. CASE Expire(r)
    BY <1>8 DEF Expire
  <1>9. QED
    BY <1>1, <1>2, <1>3, <1>4, <1>5, <1>6, <1>7, <1>8 DEF Step

LEMMA TickType == TypeOK /\ Tick => TypeOK'
  BY TelemirrorAssumption DEF TypeOK, Tick, walkVars, Pausing

\* A step that leaves the mutex, the pace and the naps alone.
LEMMA PacingQuiet ==
    ASSUME PacingInv, TypeOK', NEW r \in Requests,
           pc[r] # "nap", \A q \in Requests \ {r} : pc'[q] = pc[q] /\ timer'[q] = timer[q],
           pc'[r] # "nap", rateMu' = rateMu, age' = age
    PROVE  PacingInv'
  <1>1. \A q \in Requests : pc'[q] = "nap" => q # r /\ pc[q] = "nap" /\ timer'[q] = timer[q]
    OBVIOUS
  <1>2. rateMu # Nobody => rateMu \in Requests /\ rateMu # r /\ pc'[rateMu] = "nap"
    BY DEF PacingInv, TypeOK
  <1>3. QED
    BY <1>1, <1>2 DEF PacingInv

LEMMA PacingStep == PacingInv /\ [Next]_vars => PacingInv'
  <1>1. SUFFICES ASSUME PacingInv, [Next]_vars PROVE PacingInv'
    OBVIOUS
  <1>2. TypeOK
    BY <1>1 DEF PacingInv
  <1>3. CASE UNCHANGED vars
    BY <1>1, <1>3 DEF vars, PacingInv, TypeOK
  <1>4. CASE Tick
    <2>1. TypeOK'
      BY <1>2, <1>4, TickType
    <2>2. ASSUME NEW r \in Requests, pc[r] = "nap" PROVE timer'[r] + age' >= MinInterval
      <3>1. timer[r] \in Nat /\ age \in 0 .. MinInterval /\ timer[r] + age >= MinInterval
        BY <1>1, <1>2, <2>2 DEF PacingInv, TypeOK
      <3>2. timer'[r] = IF timer[r] > 0 THEN timer[r] - 1 ELSE timer[r]
        BY <1>2, <1>4, <2>2 DEF Tick, Pausing, TypeOK
      <3>3. QED
        BY <1>4, <3>1, <3>2, TelemirrorAssumption DEF Tick
    <2>3. QED
      BY <1>1, <1>4, <2>1, <2>2 DEF PacingInv, Tick
  <1>5. ASSUME NEW r \in Requests, Step(r) \/ Acquire(r) \/ Expire(r)
        PROVE  PacingInv'
    <2>1. TypeOK'
      BY <1>2, <1>5, StepType
    <2> USE DEF Goto
    <2>2. CASE Begin(r) \/ Walk(r) \/ WakeUp(r)
      BY <1>1, <1>2, <2>1, <2>2, PacingQuiet DEF Begin, Walk, WakeUp, TypeOK
    <2>3. CASE NapEnds(r)
      BY <1>1, <1>2, <2>1, <2>3 DEF NapEnds, Granted, PacingInv, TypeOK
    <2>4. CASE Cancel(r)
      BY <1>1, <1>2, <2>1, <2>4, TelemirrorAssumption DEF Cancel, PacingInv, TypeOK
    <2>5. CASE Send(r)
      <3>1. pc[r] = "send" /\ pc'[r] # "nap"
        BY <1>2, <2>5 DEF Send, Succeeds, NotServed, Fails, TypeOK
      <3>2. \A q \in Requests \ {r} : pc'[q] = pc[q] /\ timer'[q] = timer[q]
        BY <1>2, <2>5 DEF Send, Succeeds, NotServed, Fails, TypeOK
      <3>3. QED
        BY <1>1, <2>1, <2>5, <3>1, <3>2, PacingQuiet DEF Send
    <2>6. CASE Acquire(r)
      <3>1. pc[r] = "lock" /\ rateMu = Nobody
        BY <2>6 DEF Acquire
      <3>2. \A q \in Requests : pc[q] # "nap"
        BY <1>1, <3>1, TelemirrorAssumption DEF PacingInv
      <3>3. \A q \in Requests \ {r} : pc'[q] = pc[q]
        BY <1>2, <2>6 DEF Acquire, Granted, TypeOK
      <3>4. CASE age >= MinInterval
        <4>1. pc'[r] = "send" /\ rateMu' = Nobody
          BY <1>2, <2>6, <3>1, <3>4, TelemirrorAssumption DEF Acquire, Granted, TypeOK
        <4>2. QED
          BY <2>1, <3>2, <3>3, <4>1 DEF PacingInv
      <3>5. CASE age < MinInterval
        <4>1. /\ pc'[r] = "nap" /\ rateMu' = r /\ age' = age
              /\ timer'[r] = MinInterval - age
          BY <1>2, <2>6, <3>1, <3>5, TelemirrorAssumption DEF Acquire, TypeOK
        <4>2. timer'[r] + age' >= MinInterval
          BY <1>2, <4>1, TelemirrorAssumption DEF TypeOK
        <4>3. QED
          BY <2>1, <3>2, <3>3, <4>1, <4>2 DEF PacingInv
      <3>6. QED
        BY <1>2, <3>4, <3>5, TelemirrorAssumption DEF TypeOK
    <2>7. CASE Expire(r)
      BY <1>1, <2>1, <2>7 DEF Expire, PacingInv
    <2>8. QED
      BY <1>5, <2>2, <2>3, <2>4, <2>5, <2>6, <2>7 DEF Step
  <1>6. QED
    BY <1>1, <1>3, <1>4, <1>5 DEF Next

\* rateMu is held by exactly the request that naps in waitForRate, and its nap
\* covers what is missing of minRequestInterval.
THEOREM MutexAndNap == Spec => []PacingInv
  BY PacingInit, PacingStep, PTL DEF Spec

LEMMA GrantIsPaced == PacingInv /\ [Next]_vars => (IsGrant => age >= MinInterval)
  <1>1. SUFFICES ASSUME PacingInv, [Next]_vars, NEW r \in Requests,
                        pc[r] \in {"lock", "nap"}, pc'[r] = "send"
                 PROVE  age >= MinInterval
    BY DEF IsGrant
  <1>2. TypeOK
    BY <1>1 DEF PacingInv
  <1>3. pc' # pc
    BY <1>1
  <1>4. PICK q \in Requests : Step(q) \/ Acquire(q)
    BY <1>1, <1>3 DEF Next, vars, Tick, Expire
  <1>5. q = r
    BY <1>1, <1>2, <1>4
    DEF Step, Acquire, Begin, Walk, WakeUp, NapEnds, Cancel, Send, Granted, Goto,
        Succeeds, NotServed, Fails, TypeOK
  <1>6. Acquire(r) \/ NapEnds(r)
    BY <1>1, <1>2, <1>4, <1>5 DEF Step, Begin, Walk, WakeUp, Cancel, Send, Goto, TypeOK
  <1>7. CASE Acquire(r)
    BY <1>1, <1>2, <1>7 DEF Acquire, Goto, TypeOK
  <1>8. CASE NapEnds(r)
    BY <1>1, <1>2, <1>8, TelemirrorAssumption DEF NapEnds, PacingInv, TypeOK
  <1>9. QED
    BY <1>6, <1>7, <1>8

\* Two HTML requests are let through at least minRequestInterval apart, whatever
\* the number of requests and the naps that were cancelled.
THEOREM RequestsArePaced == Spec => Paced
  <1>1. PacingInv /\ [Next]_vars => [IsGrant => age >= MinInterval]_vars
    BY GrantIsPaced
  <1>2. QED
    BY <1>1, MutexAndNap, PTL DEF Spec, Paced

----------------------------------------------------------------------------
(* Slots after the deadline *)

\* A request that took a slot after its deadline waits for nothing but its answer
\* and then for a pause it cannot sleep through.
LateInv ==
    \A r \in Requests :
        /\ late[r] <= 1
        /\ pc[r] \in {"lock", "nap"} => r \notin Media
        /\ late[r] = 1 => /\ expired[r] /\ r \notin Media
                          /\ pc[r] \in Returned \cup {"send", "backoff"}
                          /\ pc[r] = "backoff" => timer[r] > 0

LEMMA LateOther ==
    ASSUME LateInv, NEW r \in Requests,
           \A q \in Requests \ {r} :
               /\ pc'[q] = pc[q] /\ timer'[q] = timer[q]
               /\ late'[q] = late[q] /\ expired'[q] = expired[q],
           late'[r] <= 1,
           pc'[r] \in {"lock", "nap"} => r \notin Media,
           late'[r] = 1 => /\ expired'[r] /\ r \notin Media
                           /\ pc'[r] \in Returned \cup {"send", "backoff"}
                           /\ pc'[r] = "backoff" => timer'[r] > 0
    PROVE  LateInv'
  <1>1. SUFFICES ASSUME NEW q \in Requests
                 PROVE  /\ late'[q] <= 1
                        /\ pc'[q] \in {"lock", "nap"} => q \notin Media
                        /\ late'[q] = 1 => /\ expired'[q] /\ q \notin Media
                                           /\ pc'[q] \in Returned \cup {"send", "backoff"}
                                           /\ pc'[q] = "backoff" => timer'[q] > 0
    BY DEF LateInv, Returned
  <1>2. CASE q = r
    BY <1>2
  <1>3. CASE q # r
    BY <1>3 DEF LateInv
  <1>4. QED
    BY <1>2, <1>3

LEMMA LateStep ==
    ASSUME Backoff > 0, TypeOK, LateInv, [Next]_vars
    PROVE  LateInv'
  <1>1. CASE UNCHANGED vars
    BY <1>1 DEF vars, LateInv
  <1>2. CASE Tick
    <2>1. ASSUME NEW r \in Requests, late[r] = 1 PROVE pc[r] # "backoff"
      BY <1>2, <2>1 DEF LateInv, Tick, Pausing
    <2>2. QED
      BY <1>2, <2>1 DEF LateInv, Tick
  <1>3. ASSUME NEW r \in Requests, Step(r) \/ Acquire(r) \/ Expire(r)
        PROVE  LateInv'
    <2>1. \A q \in Requests \ {r} : /\ pc'[q] = pc[q] /\ timer'[q] = timer[q]
                                     /\ late'[q] = late[q] /\ expired'[q] = expired[q]
      BY <1>3
      DEF TypeOK, Step, Acquire, Expire, Begin, Walk, WakeUp, NapEnds, Cancel, Send,
          Granted, Goto, Succeeds, NotServed, Fails
    <2>2. /\ late[r] <= 1 /\ late[r] \in Nat
          /\ pc[r] \in {"lock", "nap"} => r \notin Media
          /\ late[r] = 1 => /\ expired[r] /\ r \notin Media
                            /\ pc[r] \in Returned \cup {"send", "backoff"}
                            /\ pc[r] = "backoff" => timer[r] > 0
      BY DEF TypeOK, LateInv
    <2> USE DEF Goto, Returned
    <2>3. CASE Begin(r) \/ Walk(r) \/ WakeUp(r)
      <3>1. late'[r] = late[r] /\ late[r] # 1
        BY <2>2, <2>3 DEF Begin, Walk, WakeUp
      <3>2. pc'[r] \in {"lock", "nap"} => r \notin Media
        BY <2>3 DEF Begin, Walk, WakeUp, TypeOK
      <3>3. QED
        BY <2>1, <2>2, <3>1, <3>2, LateOther
    <2>4. CASE NapEnds(r) \/ Acquire(r)
      <3>1. pc[r] \in {"lock", "nap"} /\ r \notin Media /\ late[r] = 0
        BY <2>2, <2>4 DEF NapEnds, Acquire
      <3>2. \/ late'[r] = 0 /\ pc'[r] \in {"send", "nap"}
            \/ late'[r] = 1 /\ expired[r] /\ pc'[r] = "send"
        BY <2>4, <3>1 DEF NapEnds, Acquire, Granted, TypeOK
      <3>3. expired' = expired
        BY <2>4 DEF NapEnds, Acquire
      <3>4. QED
        BY <2>1, <3>1, <3>2, <3>3, LateOther
    <2>5. CASE Cancel(r)
      BY <2>1, <2>2, <2>5, LateOther DEF Cancel, TypeOK
    <2>6. CASE Send(r)
      <3>1. late' = late /\ expired' = expired
        BY <2>6 DEF Send
      <3>2. pc'[r] \in {"ok", "walk", "failed", "backoff"}
        BY <2>6 DEF Send, Succeeds, NotServed, Fails, TypeOK
      <3>3. late[r] = 1 => pc'[r] # "walk"
        BY <2>2, <2>6 DEF Send, Fails, TypeOK
      <3>4. late[r] = 1 /\ pc'[r] = "backoff" => timer'[r] > 0
        BY <2>2, <2>6 DEF Send, Fails, TypeOK
      <3>5. QED
        BY <2>1, <2>2, <3>1, <3>2, <3>3, <3>4, LateOther
    <2>7. CASE Expire(r)
      BY <2>1, <2>2, <2>7, LateOther DEF Expire, TypeOK
    <2>8. QED
      BY <1>3, <2>3, <2>4, <2>5, <2>6, <2>7 DEF Step
  <1>4. QED
    BY <1>1, <1>2, <1>3 DEF Next

LEMMA LateInit == Init => LateInv
  <1>1. SUFFICES ASSUME Init, NEW r \in Requests
                 PROVE  /\ late[r] <= 1 /\ ~(late[r] = 1)
                        /\ pc[r] \notin {"lock", "nap"}
    BY DEF LateInv
  <1>2. late[r] = 0 /\ pc[r] = "new"
    BY <1>1 DEF Init
  <1>3. QED
    BY <1>2

\* A request whose deadline has passed takes one slot of the pace at most, if the
\* pause between two attempts takes any time at all.
THEOREM LateAtMostOnce ==
    ASSUME Backoff > 0
    PROVE  Spec => []OneLateSlot
  <1>1. Init => LateInv
    BY LateInit
  <1>2. TypeOK /\ LateInv /\ [Next]_vars => LateInv'
    BY LateStep
  <1>3. PacingInv => TypeOK
    BY DEF PacingInv
  <1>4. LateInv => OneLateSlot
    BY DEF LateInv, OneLateSlot
  <1>5. QED
    BY <1>1, <1>2, <1>3, <1>4, MutexAndNap, PTL DEF Spec

----------------------------------------------------------------------------
(* The walk over the attempts *)

Walking == {"lock", "nap", "send", "backoff"}

\* The history of a walk that is a prefix of its order.
TriedBefore(r) ==
    \A k \in Attempts : tried[r][order[r][k]] = IF k < idx[r] THEN 1 ELSE 0

WalkOf(r) ==
    /\ \A j, k \in Attempts : order[r][j] = order[r][k] => j = k
    /\ \A a \in Attempts : \E k \in Attempts : order[r][k] = a
    /\ pc[r] \in Walking => TriedBefore(r)
    /\ \A a \in Attempts : tried[r][a] <= 1
    /\ pc[r] = "new" => tried[r] = Untried
    /\ pc[r] = "failed" /\ (r \in Media \/ host[r] < NHosts) =>
          (\A a \in Attempts : tried[r][a] = 1) \/ tried[r] = Untried

WalkInv == \A r \in Requests : WalkOf(r)

\* A request whose walk does not move.
LEMMA WalkQuiet ==
    ASSUME NEW r \in Requests, WalkOf(r),
           order'[r] = order[r], idx'[r] = idx[r], tried'[r] = tried[r],
           host'[r] = host[r],
           \/ pc[r] \in Walking /\ pc'[r] \in Walking \cup {"cancelled", "ok"}
           \/ pc[r] = "new" /\ pc'[r] \in {"walk", "failed"}
           \/ pc'[r] = pc[r]
    PROVE  WalkOf(r)'
  <1>1. TriedBefore(r)' <=> TriedBefore(r)
    BY DEF TriedBefore
  <1>2. pc'[r] \in Walking => pc[r] \in Walking
    BY DEF Walking
  <1>3. pc'[r] = "new" => pc[r] = "new"
    BY DEF Walking
  <1>4. pc'[r] = "failed" => pc[r] = "failed" \/ pc[r] = "new"
    BY DEF Walking
  <1>5. (\A j, k \in Attempts : order[r][j] = order[r][k] => j = k)'
    BY DEF WalkOf
  <1>6. (\A a \in Attempts : \E k \in Attempts : order[r][k] = a)'
    BY DEF WalkOf
  <1>7. (pc[r] \in Walking => TriedBefore(r))'
    BY <1>1, <1>2 DEF WalkOf
  <1>8. (\A a \in Attempts : tried[r][a] <= 1)'
    BY DEF WalkOf
  <1>9. (pc[r] = "new" => tried[r] = Untried)'
    BY <1>3 DEF WalkOf, Untried
  <1>10. (pc[r] = "failed" /\ (r \in Media \/ host[r] < NHosts) =>
              (\A a \in Attempts : tried[r][a] = 1) \/ tried[r] = Untried)'
    BY <1>4 DEF WalkOf, Untried
  <1>11. QED
    BY <1>5, <1>6, <1>7, <1>8, <1>9, <1>10 DEF WalkOf

\* A try at the current attempt of a walk.
LEMMA TryEffect ==
    ASSUME TypeOK, WalkInv, NEW r \in Requests, pc[r] = "send", NoteTry(r)
    PROVE  /\ \A k \in Attempts :
                  tried'[r][order[r][k]] = IF k <= idx[r] THEN 1 ELSE 0
           /\ \A a \in Attempts : tried'[r][a] <= 1
           /\ \A q \in Requests \ {r} : tried'[q] = tried[q]
  <1>1. /\ idx[r] \in Attempts /\ order[r] \in [Attempts -> Attempts]
        /\ tried[r] \in [Attempts -> Nat] /\ Attempt(r) = order[r][idx[r]]
    BY DEF TypeOK, Attempt
  <1>2. tried' = [tried EXCEPT ![r] = [tried[r] EXCEPT ![Attempt(r)] = tried[r][Attempt(r)] + 1]]
    BY DEF NoteTry, TypeOK
  <1>3. \A a \in Attempts :
            tried'[r][a] = IF a = order[r][idx[r]] THEN tried[r][a] + 1 ELSE tried[r][a]
    BY <1>1, <1>2 DEF TypeOK
  <1>4. \A j, k \in Attempts : order[r][j] = order[r][k] => j = k
    BY DEF WalkInv, WalkOf
  <1>5. TriedBefore(r)
    BY DEF WalkInv, WalkOf, Walking
  <1>6. ASSUME NEW k \in Attempts
        PROVE  tried'[r][order[r][k]] = IF k <= idx[r] THEN 1 ELSE 0
    <2>1. order[r][k] \in Attempts
      BY <1>1, <1>6
    <2>2. tried[r][order[r][k]] = IF k < idx[r] THEN 1 ELSE 0
      BY <1>5 DEF TriedBefore
    <2>3. k \in Nat /\ idx[r] \in Nat
      BY <1>1 DEF Attempts
    <2>4. CASE k = idx[r]
      <3>1. tried[r][order[r][k]] = 0 /\ k <= idx[r]
        BY <2>2, <2>3, <2>4
      <3>2. tried'[r][order[r][k]] = tried[r][order[r][k]] + 1
        BY <1>3, <2>1, <2>4
      <3>3. QED
        BY <3>1, <3>2
    <2>5. CASE k # idx[r]
      <3>1. order[r][k] # order[r][idx[r]]
        BY <1>1, <1>4, <2>5
      <3>2. tried'[r][order[r][k]] = tried[r][order[r][k]]
        BY <1>3, <2>1, <3>1
      <3>3. k < idx[r] <=> k <= idx[r]
        BY <2>3, <2>5
      <3>4. QED
        BY <2>2, <3>2, <3>3
    <2>6. QED
      BY <2>4, <2>5
  <1>7. \A a \in Attempts : \E k \in Attempts : order[r][k] = a
    BY DEF WalkInv, WalkOf
  <1>8. ASSUME NEW a \in Attempts PROVE tried'[r][a] <= 1
    <2>1. PICK k \in Attempts : order[r][k] = a
      BY <1>7, <1>8
    <2>2. tried'[r][a] = IF k <= idx[r] THEN 1 ELSE 0
      BY <1>6, <2>1
    <2>3. QED
      BY <2>2
  <1>9. \A q \in Requests \ {r} : tried'[q] = tried[q]
    BY <1>2 DEF TypeOK
  <1>10. QED
    BY <1>6, <1>8, <1>9

LEMMA WalkStep ==
    ASSUME TypeOK, WalkInv, [Next]_vars
    PROVE  WalkInv'
  <1> USE DEF WalkInv
  <1>1. CASE UNCHANGED vars
    BY <1>1, WalkQuiet DEF vars
  <1>2. CASE Tick
    BY <1>2, WalkQuiet DEF Tick, walkVars
  <1>3. ASSUME NEW r \in Requests, Step(r) \/ Acquire(r) \/ Expire(r)
        PROVE  WalkInv'
    <2>1. \A q \in Requests \ {r} :
              /\ pc'[q] = pc[q] /\ order'[q] = order[q] /\ idx'[q] = idx[q]
              /\ tried'[q] = tried[q] /\ host'[q] = host[q]
      BY <1>3
      DEF TypeOK, Step, Acquire, Expire, Begin, Walk, WakeUp, NapEnds, Cancel, Send,
          Granted, Goto, Succeeds, NotServed, Fails, NoteTry, walkVars
    <2>9. SUFFICES WalkOf(r)'
      BY <2>1, WalkQuiet
    <2> USE DEF Goto
    <2>2. CASE Begin(r)
      BY <2>2, WalkQuiet DEF Begin, walkVars, TypeOK
    <2>3. CASE WakeUp(r) \/ NapEnds(r) \/ Acquire(r) \/ Cancel(r)
      <3>1. UNCHANGED walkVars
        BY <2>3 DEF WakeUp, NapEnds, Acquire, Cancel
      <3>2. pc[r] \in Walking /\ pc'[r] \in Walking \cup {"cancelled"}
        BY <2>3 DEF WakeUp, NapEnds, Acquire, Cancel, Granted, Walking, TypeOK
      <3>3. QED
        BY <3>1, <3>2, WalkQuiet DEF walkVars
    <2>4. CASE Expire(r)
      BY <2>4, WalkQuiet DEF Expire, walkVars
    <2>5. CASE Walk(r)
      <3>1. sticky \in 0 .. NAttempts
        BY DEF TypeOK
      <3>2. order'[r] = Ordered(sticky) /\ idx'[r] = 1 /\ tried'[r] = Untried
        BY <2>5 DEF Walk, TypeOK
      <3>3. pc'[r] \in {"send", "lock"}
        BY <2>5 DEF Walk, TypeOK
      <3>4. order'[r] \in [Attempts -> Attempts]
        BY <3>1, <3>2, OrderedIsPermutation
      <3>5. \A k \in Attempts : tried'[r][order'[r][k]] = 0 /\ ~(k < idx'[r])
        BY <3>2, <3>4 DEF Untried, Attempts
      <3>6. TriedBefore(r)'
        BY <3>5 DEF TriedBefore
      <3>7. \A a \in Attempts : tried'[r][a] <= 1
        BY <3>2 DEF Untried
      <3>8. /\ \A j, k \in Attempts : order'[r][j] = order'[r][k] => j = k
            /\ \A a \in Attempts : \E k \in Attempts : order'[r][k] = a
        BY <3>1, <3>2, OrderedIsPermutation
      <3>9. QED
        BY <3>3, <3>6, <3>7, <3>8 DEF WalkOf
    <2>6. CASE Send(r)
      <3>1. pc[r] = "send" /\ NoteTry(r) /\ order' = order
        BY <2>6 DEF Send
      <3>2. /\ \A k \in Attempts : tried'[r][order[r][k]] = IF k <= idx[r] THEN 1 ELSE 0
            /\ \A a \in Attempts : tried'[r][a] <= 1
        BY <3>1, TryEffect
      <3>3. idx[r] \in Attempts /\ order[r] \in [Attempts -> Attempts]
        BY DEF TypeOK
      <3>4. /\ \A j, k \in Attempts : order'[r][j] = order'[r][k] => j = k
            /\ \A a \in Attempts : \E k \in Attempts : order'[r][k] = a
        BY <3>1 DEF WalkOf
      <3>5. pc'[r] \in {"ok", "walk", "failed", "backoff"}
        BY <2>6 DEF Send, Succeeds, NotServed, Fails, TypeOK
      <3>6. pc'[r] = "backoff" => TriedBefore(r)'
        <4>1. SUFFICES ASSUME pc'[r] = "backoff" PROVE TriedBefore(r)'
          OBVIOUS
        <4>2. idx'[r] = idx[r] + 1
          BY <2>6, <4>1 DEF Send, Succeeds, NotServed, Fails, TypeOK
        <4>3. \A k \in Attempts : k < idx'[r] <=> k <= idx[r]
          BY <3>3, <4>2 DEF Attempts
        <4>4. QED
          BY <3>1, <3>2, <4>3 DEF TriedBefore
      <3>7. pc'[r] = "failed" /\ (r \in Media \/ host'[r] < NHosts) =>
                \A a \in Attempts : tried'[r][a] = 1
        <4>1. SUFFICES ASSUME pc'[r] = "failed", r \in Media \/ host'[r] < NHosts
                       PROVE  \A a \in Attempts : tried'[r][a] = 1
          OBVIOUS
        <4>2. idx[r] = NAttempts
          BY <2>6, <4>1, TelemirrorAssumption
          DEF Send, Succeeds, NotServed, Fails, TypeOK
        <4>3. \A k \in Attempts : k <= idx[r]
          BY <4>2 DEF Attempts
        <4>4. QED
          BY <3>1, <3>2, <3>4, <4>3
      <3>8. QED
        BY <3>2, <3>4, <3>5, <3>6, <3>7 DEF WalkOf, Walking
    <2>7. QED
      BY <1>3, <2>2, <2>3, <2>4, <2>5, <2>6 DEF Step
  <1>4. QED
    BY <1>1, <1>2, <1>3 DEF Next

\* A request makes an attempt once at most for a host, and gives up only when all
\* of them are made or every host is unknown, however the sticky attempt moves.
THEOREM AttemptsMadeOnce == Spec => []EachAttemptOnce
  <1>1. Init => WalkInv
    <2>1. SUFFICES ASSUME Init PROVE WalkInv
      OBVIOUS
    <2>2. SUFFICES ASSUME NEW r \in Requests PROVE WalkOf(r)
      BY DEF WalkInv
    <2>3. order[r] = Ordered(0) /\ tried[r] = Untried /\ pc[r] = "new"
      BY <2>1 DEF Init
    <2>4. \A a \in Attempts : tried[r][a] <= 1
      BY <2>3 DEF Untried
    <2>5. 0 \in 0 .. NAttempts
      BY TelemirrorAssumption
    <2>6. /\ \A j, k \in Attempts : order[r][j] = order[r][k] => j = k
          /\ \A a \in Attempts : \E k \in Attempts : order[r][k] = a
      BY <2>3, <2>5, OrderedIsPermutation
    <2>7. QED
      BY <2>3, <2>4, <2>6 DEF WalkOf, Walking
  <1>2. TypeOK /\ WalkInv /\ [Next]_vars => WalkInv'
    BY WalkStep
  <1>3. PacingInv => TypeOK
    BY DEF PacingInv
  <1>4. WalkInv => EachAttemptOnce
    BY DEF WalkInv, WalkOf, EachAttemptOnce
  <1>5. QED
    BY <1>1, <1>2, <1>3, <1>4, MutexAndNap, PTL DEF Spec
=============================================================================
