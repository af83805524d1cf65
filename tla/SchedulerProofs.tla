--------------------------- MODULE SchedulerProofs ---------------------------
(***************************************************************************)
(* What Scheduler promises for every delay, every interval and any number  *)
(* of posts and starts: two answered POSTs are the delay apart and two     *)
(* tasks the interval, whatever an interrupt, a stop or a lost answer does *)
(* between them.                                                           *)
(***************************************************************************)
EXTENDS Scheduler, TLAPS

----------------------------------------------------------------------------
(* The publisher *)

LEMMA PublishingInit == Init => PublishingInv
  <1>1. SUFFICES ASSUME Init PROVE PublishingInv
    OBVIOUS
  <1>2. timer \in 0 .. Delay /\ lastPublish \in 0 .. Delay /\ lastPost \in 0 .. Delay
        /\ lastPost >= lastPublish
    BY <1>1, DelayAssumption DEF Init, PublisherInit
  <1>3. unanswered \in BOOLEAN
    BY <1>1 DEF Init, PublisherInit
  <1>4. PublisherTypeOK
    BY <1>1, <1>2, <1>3 DEF Init, PublisherInit, PublisherTypeOK
  <1>5. SpacingInv
    BY <1>1, <1>2, <1>4 DEF Init, PublisherInit, SpacingInv
  <1>6. /\ elapsed \in 0 .. Interval /\ rested \in 0 .. Interval
        /\ taskPosts \in 0 .. MaxPosts /\ starts \in 0 .. MaxStarts
    BY <1>1, SchedulerAssumption DEF Init
  <1>7. running \in BOOLEAN /\ napped \in BOOLEAN
    BY <1>1 DEF Init
  <1>8. TypeOK
    BY <1>1, <1>4, <1>6, <1>7 DEF Init, PublisherInit, TypeOK
  <1>9. QED
    BY <1>5, <1>8 DEF PublishingInv

LEMMA PublisherStepKeeps ==
    ASSUME PublishingInv, PublisherStep
    PROVE  PublisherTypeOK' /\ SpacingInv'
  <1> USE DelayAssumption DEF PublishingInv, SpacingInv, PublisherTypeOK
  <1>1. CASE WaitEnds
    BY <1>1 DEF WaitEnds
  <1>2. CASE CheckToken
    BY <1>2 DEF CheckToken
  <1>3. CASE AttachMedia
    BY <1>3 DEF AttachMedia
  <1>4. CASE PostBegins
    BY <1>4 DEF PostBegins
  <1>5. CASE PostEnds
    <2>1. point = "posting" /\ point' = "free" /\ UNCHANGED <<token, file, timer, lastPost>>
      BY <1>5 DEF PostEnds
    <2>2. CASE lastPublish' = 0 /\ unanswered' = FALSE
      <3>1. lastPublish' \in 0 .. Delay /\ lastPost' >= lastPublish'
        BY <2>1, <2>2
      <3>2. unanswered' \in BOOLEAN
        BY <2>2
      <3>3. PublisherTypeOK'
        BY <2>1, <3>1, <3>2
      <3>4. QED
        BY <2>1, <3>1, <3>3
    <2>3. CASE UNCHANGED <<lastPublish, unanswered>>
      BY <2>1, <2>3
    <2>4. QED
      BY <1>5, <2>2, <2>3 DEF PostEnds
  <1>6. QED
    BY <1>1, <1>2, <1>3, <1>4, <1>5 DEF PublisherStep

\* A second of a sleep t at a time p since the answer, both within the delay.
LEMMA SecondSlept ==
    ASSUME NEW t \in Nat, NEW p \in 0 .. Delay, NEW u \in Nat, NEW q \in 0 .. Delay,
           t + p >= Delay, u + 1 >= t,
           p < Delay => q = p + 1, p = Delay => q = Delay
    PROVE  u + q >= Delay
  <1>1. CASE p < Delay
    BY <1>1, DelayAssumption
  <1>2. CASE p = Delay
    BY <1>2, DelayAssumption
  <1>3. QED
    BY <1>1, <1>2, DelayAssumption

LEMMA PublisherTickKeeps ==
    ASSUME PublishingInv, PublisherTick
    PROVE  PublisherTypeOK' /\ SpacingInv'
  <1> USE DelayAssumption DEF PublishingInv, SpacingInv, PublisherTypeOK
  <1>1. /\ lastPublish' \in 0 .. Delay /\ lastPublish' >= lastPublish
        /\ lastPublish < Delay => lastPublish' = lastPublish + 1
        /\ lastPublish = Delay => lastPublish' = Delay
    BY DEF PublisherTick, Later
  <1>2. lastPost' \in 0 .. Delay /\ (lastPost >= lastPublish => lastPost' >= lastPublish')
    BY DEF PublisherTick, Later
  <1>3. /\ timer' \in 0 .. Delay
        /\ point = "wait" => timer' + 1 >= timer
        /\ point = "wait" /\ timer = 0 => timer' = 0
    BY DEF PublisherTick
  <1>4. UNCHANGED <<point, token, file, unanswered>>
    BY DEF PublisherTick
  <1>5. point' = "wait" => timer' + lastPublish' >= Delay
    <2>1. SUFFICES ASSUME point = "wait" PROVE timer' + lastPublish' >= Delay
      BY <1>4
    <2>2. timer + lastPublish >= Delay /\ timer' + 1 >= timer
      BY <1>3, <2>1
    <2>3. /\ timer \in Nat /\ timer' \in Nat /\ lastPublish \in 0 .. Delay
          /\ lastPublish' \in 0 .. Delay
      BY <1>1, <1>3
    <2> HIDE DEF PublishingInv, SpacingInv, PublisherTypeOK
    <2>4. QED
      BY <1>1, <2>2, <2>3, SecondSlept
  <1>6. PublisherTypeOK'
    <2>1. token' \in BOOLEAN /\ unanswered' \in BOOLEAN
      BY <1>4
    <2>2. lastPublish' \in 0 .. Delay /\ lastPost' \in 0 .. Delay /\ timer' \in 0 .. Delay
      BY <1>1, <1>2, <1>3
    <2>3. QED
      BY <1>4, <2>1, <2>2, Zenon
  <1>7. /\ point' \in {"ready", "media", "post"} => lastPublish' = Delay
        /\ point' = "posting" => unanswered'
    BY <1>1, <1>4
  <1>8. ~unanswered' => lastPost' >= lastPublish'
    <2>1. ~unanswered => lastPost >= lastPublish
      OBVIOUS
    <2>2. QED
      BY <1>2, <1>4, <2>1, Zenon
  <1>9. QED
    BY <1>5, <1>6, <1>7, <1>8, Zenon

\* What is slept covers what has to be rested.
RestInv ==
    /\ PublishingInv
    /\ loop \in {"sleep", "nap"} => rested >= elapsed
    /\ loop = "nap" => elapsed < Interval /\ (napped => rested >= elapsed + 1)
    /\ loop = "check" /\ running => rested = Interval

LEMMA PublisherStutters ==
    ASSUME PublishingInv, UNCHANGED publisherVars
    PROVE  PublisherTypeOK' /\ SpacingInv' /\ point' = point
  BY DEF publisherVars, PublishingInv, PublisherTypeOK, SpacingInv

LEMMA PublishingStep == RestInv /\ [Next]_vars => PublishingInv'
  <1>1. SUFFICES ASSUME RestInv, PublishingInv, [Next]_vars PROVE PublishingInv'
    BY DEF RestInv
  <1>2. CASE UNCHANGED vars
    BY <1>1, <1>2
    DEF vars, publisherVars, schedulerVars, PublishingInv, TypeOK, PublisherTypeOK, SpacingInv
  <1>3. CASE Start
    BY <1>1, <1>3, SchedulerAssumption
    DEF Start, publisherVars, PublishingInv, TypeOK, PublisherTypeOK, SpacingInv
  <1>4. CASE LoopStep
    <2>1. CASE CheckRunning
      BY <1>1, <2>1, SchedulerAssumption
      DEF CheckRunning, publisherVars, PublishingInv, TypeOK, PublisherTypeOK, SpacingInv
    <2>2. CASE PublishPost
      BY <1>1, <2>2, SchedulerAssumption, DelayAssumption
      DEF PublishPost, BeginPublish, PublishingInv, TypeOK, PublisherTypeOK, SpacingInv
    <2>3. CASE GoOnPublishing
      <3>1. PublisherTypeOK' /\ SpacingInv'
        BY <1>1, <2>3, PublisherStepKeeps DEF GoOnPublishing
      <3>2. point # "free"
        BY <2>3 DEF GoOnPublishing, PublisherStep, WaitEnds, CheckToken, AttachMedia,
                    PostBegins, PostEnds
      <3>3. loop = "task"
        BY <1>1, <3>2 DEF PublishingInv, TypeOK
      <3>4. QED
        BY <1>1, <2>3, <3>1, <3>3 DEF GoOnPublishing, schedulerVars, PublishingInv, TypeOK
    <2>4. CASE TaskEnds
      BY <1>1, <2>4, SchedulerAssumption
      DEF TaskEnds, publisherVars, PublishingInv, TypeOK, PublisherTypeOK, SpacingInv
    <2>5. CASE CheckElapsed
      <3>1. PublisherTypeOK' /\ SpacingInv' /\ point' = point
        BY <1>1, <2>5, PublisherStutters DEF CheckElapsed
      <3>2. QED
        BY <1>1, <2>5, <3>1 DEF CheckElapsed, PublishingInv, TypeOK
    <2>6. CASE NapEnds
      <3>1. PublisherTypeOK' /\ SpacingInv'
        BY <1>1, <2>6 DEF NapEnds, publisherVars, PublishingInv, PublisherTypeOK, SpacingInv
      <3>2. QED
        BY <1>1, <2>6, <3>1, SchedulerAssumption
        DEF NapEnds, publisherVars, RestInv, PublishingInv, TypeOK
    <2>7. QED
      BY <1>4, <2>1, <2>2, <2>3, <2>4, <2>5, <2>6 DEF LoopStep
  <1>5. CASE Interrupt
    BY <1>1, <1>5 DEF Interrupt, AbortPublish, PublishingInv, TypeOK, PublisherTypeOK, SpacingInv
  <1>6. CASE Stop
    <2>1. PublisherTypeOK' /\ SpacingInv' /\ point' = point
      BY <1>1, <1>6, PublisherStutters DEF Stop
    <2>2. QED
      BY <1>1, <1>6, <2>1 DEF Stop, PublishingInv, TypeOK
  <1>7. CASE Tick
    <2>1. PublisherTypeOK' /\ SpacingInv'
      BY <1>1, <1>7, PublisherTickKeeps DEF Tick
    <2>2. point' = point /\ rested' \in 0 .. Interval /\ napped' \in BOOLEAN
      BY <1>1, <1>7, SchedulerAssumption DEF Tick, PublisherTick, PublishingInv, TypeOK
    <2>3. QED
      BY <1>1, <1>7, <2>1, <2>2 DEF Tick, PublishingInv, TypeOK
  <1>8. QED
    BY <1>1, <1>2, <1>3, <1>4, <1>5, <1>6, <1>7 DEF Next

LEMMA RestStep ==
    ASSUME RestInv, PublishingInv', [Next]_vars
    PROVE  RestInv'
  <1> USE SchedulerAssumption DEF RestInv, PublishingInv, TypeOK
  <1>1. CASE UNCHANGED vars
    BY <1>1, Zenon DEF vars, schedulerVars
  <1>2. CASE Start
    BY <1>2 DEF Start
  <1>3. CASE CheckRunning
    BY <1>3 DEF CheckRunning
  <1>4. CASE PublishPost \/ GoOnPublishing
    <2>1. UNCHANGED <<loop, running, elapsed, napped, rested>>
      BY <1>4 DEF PublishPost, GoOnPublishing, schedulerVars
    <2>2. QED
      BY <2>1, Zenon
  <1>5. CASE TaskEnds
    BY <1>5 DEF TaskEnds
  <1>6. CASE CheckElapsed
    BY <1>6 DEF CheckElapsed
  <1>7. CASE NapEnds
    BY <1>7 DEF NapEnds
  <1>8. CASE Interrupt
    BY <1>8 DEF Interrupt
  <1>9. CASE Stop
    <2>1. UNCHANGED <<loop, elapsed, napped, rested>> /\ ~running'
      BY <1>9 DEF Stop
    <2>2. QED
      BY <2>1, Zenon
  <1>10. CASE Tick
    <2>1. UNCHANGED <<loop, running, elapsed>> /\ napped' = (loop = "nap" \/ napped)
      BY <1>10 DEF Tick
    <2>2. /\ rested >= elapsed => rested' >= elapsed
          /\ elapsed < Interval /\ rested >= elapsed => rested' >= elapsed + 1
          /\ rested = Interval => rested' = Interval
      BY <1>10 DEF Tick
    <2>3. QED
      BY <2>1, <2>2, Zenon
  <1>11. QED
    BY <1>1, <1>2, <1>3, <1>4, <1>5, <1>6, <1>7, <1>8, <1>9, <1>10 DEF Next, LoopStep

\* The delay between POSTs: the publisher's types, and what the wait, the time of
\* the last answer and the time of the last POST have to do with one another.
THEOREM PublishingIsPaced == Spec => [](PublishingInv /\ RestInv)
  <1>1. Init => RestInv
    <2>1. Init => PublishingInv
      BY PublishingInit
    <2>2. Init => RestInv
      BY <2>1 DEF Init, RestInv
    <2>3. QED
      BY <2>2
  <1>2. RestInv /\ [Next]_vars => RestInv'
    BY PublishingStep, RestStep
  <1>3. RestInv => PublishingInv
    BY DEF RestInv
  <1>4. QED
    BY <1>1, <1>2, <1>3, PTL DEF Spec

\* Two POSTs begin inter_message_delay_seconds apart, unless the first one got no
\* answer (_wait_for_rate_limit), for every delay.
THEOREM PostsAreSpaced == Spec => Spaced
  <1>1. PublishingInv /\ [Next]_vars => [PostBegins => unanswered \/ lastPost >= Delay]_publisherVars
    <2>1. SUFFICES ASSUME PublishingInv, PostBegins
                   PROVE  unanswered \/ lastPost >= Delay
      OBVIOUS
    <2>2. lastPublish = Delay
      BY <2>1 DEF PostBegins, PublishingInv, SpacingInv
    <2>3. ~unanswered => lastPost >= lastPublish
      BY <2>1 DEF PublishingInv, SpacingInv
    <2>4. QED
      BY <2>2, <2>3
  <1>2. QED
    BY <1>1, PublishingIsPaced, PTL DEF Spec, Spaced

\* Scheduler.start: a task begins only after the interval has passed since the
\* last one ended, for every interval and at any moment of a stop or an interrupt.
THEOREM TasksAreRested == Spec => TasksRest
  <1>1. RestInv /\ [Next]_vars => [loop = "check" /\ loop' = "task" => rested >= Interval]_vars
    <2>1. SUFFICES ASSUME RestInv, [Next]_vars, loop = "check", loop' = "task"
                   PROVE  rested >= Interval
      OBVIOUS
    <2>2. CheckRunning
      BY <2>1
      DEF vars, Next, LoopStep, Start, PublishPost, GoOnPublishing, TaskEnds, CheckElapsed,
          NapEnds, Interrupt, Stop, Tick, schedulerVars
    <2>3. running
      BY <2>1, <2>2 DEF CheckRunning
    <2>4. rested = Interval
      BY <2>1, <2>3 DEF RestInv
    <2>5. QED
      BY <2>4, SchedulerAssumption
  <1>2. QED
    BY <1>1, PublishingIsPaced, PTL DEF Spec, TasksRest
=============================================================================
