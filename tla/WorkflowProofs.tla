--------------------------- MODULE WorkflowProofs ---------------------------
(***************************************************************************)
(* Theorems about Workflow, for any workflows, also such as execute a step *)
(* or each other again, and any number of threads.                         *)
(***************************************************************************)
EXTENDS Workflow, SequenceTheorems, TLAPS

Calls == [flow : Flows, at : Nat \ {0}]

\* The calls under way are at or behind a step of their workflow, at one while it
\* is being executed.
StackInv ==
    /\ stack \in Seq(Calls)
    /\ tried \in Nat
    /\ phase \in {"action", "submit", "collect"} => AtStep

ParallelSteps == {ParallelOf[Step][k] : k \in DOMAIN ParallelOf[Step]}

Pooling == phase \in {"submit", "collect"}

\* Actions wait or run on the pool only while execute is at their parallel step,
\* and an execution goes on after a failure only to wait for the others.
PoolInv ==
    /\ tasks \in Seq(Tasks)
    /\ Pooling => \A k \in DOMAIN tasks : tasks[k].step \in ParallelSteps
    /\ In("queued") \cup In("running") # {} => Pooling
    /\ outcome = "running" /\ failed # {} =>
          Pooling /\ failed \subseteq {tasks[k].step : k \in In("raised")}

----------------------------------------------------------------------------
(* The calls *)

\* The call on top of a stack, and the stack with that call moved on.
LEMMA TopOfStack ==
    ASSUME NEW calls \in Seq(Calls), calls # <<>>
    PROVE  /\ Len(calls) \in Nat \ {0}
           /\ calls[Len(calls)] \in Calls
           /\ MoveOn(calls) \in Seq(Calls)
  <1>1. Len(calls) \in Nat \ {0} /\ Len(calls) \in DOMAIN calls
    BY EmptySeq, LenProperties
  <1>2. calls[Len(calls)] \in Calls
    BY <1>1
  <1>3. [calls[Len(calls)] EXCEPT !.at = @ + 1] \in Calls
    BY <1>2 DEF Calls
  <1>4. MoveOn(calls) \in Seq(Calls)
    BY <1>1, <1>3, ExceptSeq DEF MoveOn
  <1>5. QED
    BY <1>1, <1>2, <1>4

\* The calls below the top one are calls.
LEMMA CallersAreCalls ==
    ASSUME NEW calls \in Seq(Calls), calls # <<>>
    PROVE  SubSeq(calls, 1, Len(calls) - 1) \in Seq(Calls)
  <1>1. Len(calls) \in Nat \ {0}
    BY TopOfStack
  <1>2. QED
    BY <1>1, SubSeqProperties

\* A step that execute is at is one of its workflow, and of the known steps.
LEMMA StepIsStep ==
    ASSUME StackInv, AtStep
    PROVE  Step \in Steps /\ ParallelOf[Step] \in Seq(Steps) /\ SubOf[Step] \in Flows \cup {None}
  <1>1. Top \in Calls
    BY TopOfStack DEF StackInv, AtStep, Top
  <1>2. StepsOf[Top.flow] \in Seq(Steps) /\ Top.at \in 1 .. Len(StepsOf[Top.flow])
    BY <1>1, WorkflowAssumption DEF AtStep, Calls
  <1>3. Step \in Steps
    BY <1>2 DEF Step
  <1>4. QED
    BY <1>3, WorkflowAssumption

\* Every step keeps the calls calls.
LEMMA StackKeeps == StackInv /\ [Next]_vars => StackInv'
  <1> SUFFICES ASSUME StackInv, [Next]_vars PROVE StackInv'
    OBVIOUS
  <1>0. stack \in Seq(Calls) /\ tried \in Nat
    BY DEF StackInv
  <1>1. CASE Execute
    <2>1. [flow |-> Main, at |-> 1] \in Calls
      BY WorkflowAssumption DEF Calls
    <2>2. QED
      BY <1>1, <2>1 DEF Execute, StackInv
  <1>2. CASE SkipStep
    BY <1>0, <1>2, TopOfStack DEF SkipStep, StackInv, AtStep
  <1>3. CASE BeginStep
    <2>1. phase = "condition" /\ AtStep
      BY <1>3 DEF BeginStep
    <2>2. CASE stack' = stack
      <3>1. AtStep'
        BY <2>1, <2>2 DEF AtStep, Top
      <3>2. tried' \in Nat
        BY <1>0, <1>3 DEF BeginStep
      <3>3. QED
        BY <1>0, <2>2, <3>1, <3>2 DEF StackInv
    <2>3. CASE /\ SubOf[Step] # None /\ UNCHANGED <<phase, tried>>
               /\ stack' = Append(stack, [flow |-> SubOf[Step], at |-> 1])
      <3>1. [flow |-> SubOf[Step], at |-> 1] \in Calls
        BY <2>1, <2>3, StepIsStep DEF Calls
      <3>2. stack' \in Seq(Calls)
        BY <1>0, <2>3, <3>1, AppendProperties
      <3>3. QED
        BY <1>0, <2>1, <2>3, <3>2 DEF StackInv
    <2>4. QED
      BY <1>3, <2>2, <2>3 DEF BeginStep
  <1>4. CASE ActionEnds
    <2>1. stack # <<>>
      BY <1>4 DEF ActionEnds, StackInv, AtStep
    <2>2. MoveOn(stack) \in Seq(Calls) /\ <<>> \in Seq(Calls)
      BY <1>0, <2>1, TopOfStack, EmptySeq
    <2>3. QED
      BY <1>0, <1>4, <2>2 DEF ActionEnds, Raise, StackInv
  <1>5. CASE TryParallel \/ AllSubmitted
    <2>1. stack' = stack /\ AtStep /\ tried' \in Nat
      BY <1>0, <1>5 DEF TryParallel, AllSubmitted, StackInv
    <2>2. AtStep'
      BY <2>1 DEF AtStep, Top
    <2>3. QED
      BY <1>0, <2>1, <2>2 DEF StackInv
  <1>6. CASE Collect
    <2>1. stack # <<>>
      BY <1>6 DEF Collect, StackInv, AtStep
    <2>2. MoveOn(stack) \in Seq(Calls) /\ <<>> \in Seq(Calls)
      BY <1>0, <2>1, TopOfStack, EmptySeq
    <2>3. QED
      BY <1>0, <1>6, <2>2 DEF Collect, CollectResults, Raise, StackInv
  <1>7. CASE FlowEnds
    <2> DEFINE callers == SubSeq(stack, 1, Len(stack) - 1)
    <2>1. \/ stack' = <<>> /\ phase' = "none"
          \/ stack' = MoveOn(callers) /\ callers # <<>> /\ phase' = "condition"
      BY <1>7 DEF FlowEnds
    <2>2. stack = <<>> => callers = <<>>
      BY SubSeqEmpty
    <2>3. callers # <<>> => callers \in Seq(Calls)
      BY <1>0, <2>2, CallersAreCalls
    <2> HIDE DEF callers
    <2>4. stack' \in Seq(Calls)
      BY <2>1, <2>3, TopOfStack, EmptySeq
    <2>5. tried' \in Nat
      BY <1>0, <1>7 DEF FlowEnds
    <2>6. QED
      BY <2>1, <2>4, <2>5 DEF StackInv
  <1>8. CASE \E k \in DOMAIN tasks : TaskStarts(k) \/ TaskEnds(k)
    BY <1>8 DEF TaskStarts, TaskEnds, StackInv, AtStep, Top
  <1>9. CASE UNCHANGED vars
    BY <1>9 DEF vars, StackInv, AtStep, Top
  <1>10. QED
    BY <1>1, <1>2, <1>3, <1>4, <1>5, <1>6, <1>7, <1>8, <1>9 DEF Next

----------------------------------------------------------------------------
(* The pool *)

\* A change of state of one task.
LEMMA TaskUpdated ==
    ASSUME PoolInv, NEW k \in DOMAIN tasks,
           NEW state \in {"queued", "running", "returned", "raised"},
           tasks' = [tasks EXCEPT ![k].state = state]
    PROVE  /\ tasks' \in Seq(Tasks) /\ DOMAIN tasks' = DOMAIN tasks
           /\ \A j \in DOMAIN tasks : tasks'[j].step = tasks[j].step
           /\ \A j \in DOMAIN tasks \ {k} : tasks'[j] = tasks[j]
           /\ tasks'[k].state = state
  <1>1. tasks \in Seq(Tasks) /\ tasks[k] \in Tasks
    BY DEF PoolInv
  <1>2. [tasks[k] EXCEPT !.state = state] \in Tasks
    BY <1>1 DEF Tasks
  <1>3. tasks' = [tasks EXCEPT ![k] = [tasks[k] EXCEPT !.state = state]]
    OBVIOUS
  <1>4. tasks' \in Seq(Tasks) /\ DOMAIN tasks' = DOMAIN tasks
    BY <1>1, <1>2, <1>3, ExceptSeq
  <1>5. \A j \in DOMAIN tasks \ {k} : tasks'[j] = tasks[j]
    BY <1>1, <1>3
  <1>6. tasks'[k] = [tasks[k] EXCEPT !.state = state]
    BY <1>1, <1>3
  <1>7. tasks'[k].step = tasks[k].step /\ tasks'[k].state = state
    BY <1>1, <1>6 DEF Tasks
  <1>8. QED
    BY <1>4, <1>5, <1>7

\* A step of the calling thread outside the pool: nothing has failed before it.
LEMMA CallerKeeps ==
    ASSUME PoolInv,
           Execute \/ SkipStep \/ BeginStep \/ ActionEnds \/ FlowEnds
    PROVE  PoolInv'
  <1>1. CASE Execute
    BY <1>1, EmptySeq DEF Execute, PoolInv, In, Pooling
  <1>2. CASE SkipStep \/ BeginStep \/ ActionEnds \/ FlowEnds
    <2>1. ~Pooling
      BY <1>2 DEF SkipStep, BeginStep, ActionEnds, FlowEnds, Pooling
    <2>2. In("queued") \cup In("running") = {} /\ (outcome = "running" => failed = {})
      BY <2>1 DEF PoolInv
    <2>3. \/ tasks' = tasks /\ ~Pooling'
          \/ tasks' = <<>>
      <3>1. CASE BeginStep
        BY <2>1, <3>1 DEF BeginStep, Pooling
      <3>2. CASE SkipStep \/ ActionEnds \/ FlowEnds
        BY <2>1, <3>2 DEF SkipStep, ActionEnds, FlowEnds, Raise, Pooling
      <3>3. QED
        BY <1>2, <3>1, <3>2
    <2>4. tasks' \in Seq(Tasks) /\ (In("queued") \cup In("running") = {})'
      <3>1. CASE tasks' = tasks
        BY <2>2, <3>1 DEF PoolInv, In
      <3>2. CASE tasks' = <<>>
        BY <3>2 DEF In
      <3>3. QED
        BY <2>3, <3>1, <3>2
    <2>5. Pooling' => tasks' = <<>>
      BY <2>3
    <2>6. outcome' = "running" => outcome = "running" /\ failed' = failed
      BY <1>2 DEF SkipStep, BeginStep, ActionEnds, FlowEnds, Raise
    <2>7. Pooling' => \A k \in DOMAIN tasks' : tasks'[k].step \in ParallelSteps'
      BY <2>5
    <2>8. QED
      BY <2>2, <2>4, <2>6, <2>7 DEF PoolInv
  <1>3. QED
    BY <1>1, <1>2

\* The steps that leave the calls alone leave the parallel step where it is.
LEMMA SameStep ==
    ASSUME UNCHANGED stack
    PROVE  ParallelSteps' = ParallelSteps
  BY DEF ParallelSteps, Step, Top

\* The calling thread at a parallel step: it submits, waits and collects.
LEMMA PoolKeeps ==
    ASSUME StackInv, PoolInv, TryParallel \/ AllSubmitted \/ Collect
    PROVE  PoolInv'
  <1>0. tasks \in Seq(Tasks) /\ Pooling
    BY DEF PoolInv, TryParallel, AllSubmitted, Collect, Pooling
  <1>1. CASE (TryParallel /\ UNCHANGED tasks) \/ AllSubmitted
    <2>1. /\ Pooling' /\ UNCHANGED <<tasks, failed, outcome>> /\ ParallelSteps' = ParallelSteps
      BY <1>1, SameStep DEF TryParallel, AllSubmitted, Pooling
    <2>2. In("queued")' = In("queued") /\ In("running")' = In("running")
          /\ In("raised")' = In("raised")
      BY <2>1 DEF In
    <2>3. QED
      BY <1>0, <2>1, <2>2 DEF PoolInv
  <1>2. CASE TryParallel /\ ~UNCHANGED tasks
    <2> DEFINE task == [step |-> ParallelOf[Step][tried + 1], state |-> "queued"]
    <2>1. ParallelOf[Step] \in Seq(Steps)
      BY <1>2, StepIsStep DEF TryParallel, StackInv
    <2>2. tried + 1 \in DOMAIN ParallelOf[Step]
      BY <1>2, <2>1 DEF TryParallel, StackInv
    <2>3. task \in Tasks /\ task.step \in ParallelSteps /\ task.state = "queued"
      BY <2>1, <2>2 DEF Tasks, ParallelSteps
    <2>4. tasks' = Append(tasks, task) /\ UNCHANGED <<stack, failed, outcome>> /\ Pooling'
      BY <1>2 DEF TryParallel, Pooling
    <2> HIDE DEF task
    <2>5. /\ tasks' \in Seq(Tasks)
          /\ DOMAIN tasks' = DOMAIN tasks \cup {Len(tasks) + 1}
          /\ \A k \in DOMAIN tasks : tasks'[k] = tasks[k]
          /\ tasks'[Len(tasks) + 1] = task
      BY <1>0, <2>3, <2>4, AppendProperties
    <2>6. ParallelSteps' = ParallelSteps
      BY <2>4, SameStep
    <2>7. \A k \in DOMAIN tasks' : tasks'[k].step \in ParallelSteps'
      BY <1>0, <2>3, <2>5, <2>6 DEF PoolInv
    <2>8. \A k \in In("raised") : k \in In("raised")' /\ tasks'[k].step = tasks[k].step
      BY <2>5 DEF In
    <2>9. {tasks[k].step : k \in In("raised")} \subseteq
              {tasks'[k].step : k \in In("raised")'}
      BY <2>8
    <2>10. outcome' = "running" /\ failed' # {} =>
               failed' \subseteq {tasks'[k].step : k \in In("raised")'}
      BY <2>4, <2>9 DEF PoolInv
    <2>11. QED
      BY <2>4, <2>5, <2>7, <2>10 DEF PoolInv
  <1>3. CASE Collect
    <2>1. In("queued") \cup In("running") = {} /\ UNCHANGED <<tasks, failed>>
      BY <1>3 DEF Collect
    <2>2. ~Pooling'
      BY <1>3 DEF Collect, CollectResults, Raise, Pooling
    <2>3. outcome' = "running" => In("raised") = {} /\ outcome = "running"
      BY <1>3 DEF Collect, CollectResults, Raise
    <2>4. outcome' = "running" => failed' = {}
      BY <2>1, <2>3 DEF PoolInv
    <2>5. (In("queued") \cup In("running") = {})'
      BY <2>1 DEF In
    <2>6. QED
      BY <1>0, <2>1, <2>2, <2>4, <2>5 DEF PoolInv
  <1>4. QED
    BY <1>1, <1>2, <1>3

\* A thread of the pool starts or ends an action.
LEMMA ThreadKeeps ==
    ASSUME PoolInv, NEW k \in DOMAIN tasks, TaskStarts(k) \/ TaskEnds(k)
    PROVE  PoolInv'
  <1>1. Pooling /\ Pooling' /\ UNCHANGED <<stack, outcome>>
    BY DEF PoolInv, TaskStarts, TaskEnds, Pooling
  <1>2. PICK state \in {"running", "returned", "raised"} :
            /\ tasks' = [tasks EXCEPT ![k].state = state]
            /\ failed' = IF state = "raised" THEN failed \cup {tasks[k].step} ELSE failed
    BY DEF TaskStarts, TaskEnds
  <1>3. /\ tasks' \in Seq(Tasks) /\ DOMAIN tasks' = DOMAIN tasks
        /\ \A j \in DOMAIN tasks : tasks'[j].step = tasks[j].step
        /\ \A j \in DOMAIN tasks \ {k} : tasks'[j] = tasks[j]
        /\ tasks'[k].state = state
    BY <1>2, TaskUpdated
  <1>4. k \notin In("raised")
    BY DEF TaskStarts, TaskEnds, In
  <1>5. In("raised") \subseteq In("raised")'
    BY <1>3, <1>4 DEF In
  <1>6. state = "raised" => k \in In("raised")'
    BY <1>3 DEF In
  <1>7. outcome = "running" => failed' \subseteq {tasks'[j].step : j \in In("raised")'}
    <2>1. outcome = "running" => failed \subseteq {tasks[j].step : j \in In("raised")}
      BY DEF PoolInv
    <2>2. \A j \in In("raised") : tasks'[j].step = tasks[j].step
      BY <1>3 DEF In
    <2>3. outcome = "running" => failed \subseteq {tasks'[j].step : j \in In("raised")'}
      BY <1>5, <2>1, <2>2
    <2>4. QED
      BY <1>2, <1>3, <1>6, <2>3
  <1>8. \A j \in DOMAIN tasks' : tasks'[j].step \in ParallelSteps'
    BY <1>1, <1>3, SameStep DEF PoolInv
  <1>9. QED
    BY <1>1, <1>3, <1>7, <1>8 DEF PoolInv

\* The invariant of the calls and the pool is inductive.
LEMMA PoolInductive ==
    /\ Init => StackInv /\ PoolInv
    /\ StackInv /\ PoolInv /\ [Next]_vars => (StackInv /\ PoolInv)'
  <1>1. Init => StackInv /\ PoolInv
    BY EmptySeq DEF Init, StackInv, PoolInv, In, Pooling
  <1>2. ASSUME StackInv, PoolInv, [Next]_vars PROVE PoolInv'
    <2>1. CASE UNCHANGED vars
      BY <1>2, <2>1 DEF vars, PoolInv, In, Pooling, ParallelSteps, Step, Top
    <2>2. CASE Next
      BY <1>2, <2>2, CallerKeeps, PoolKeeps, ThreadKeeps DEF Next
    <2>3. QED
      BY <1>2, <2>1, <2>2
  <1>3. QED
    BY <1>1, <1>2, StackKeeps

\* Once an action has raised, no other is started in the same execution, but for
\* the parallel steps next to it: the pool's queue is still worked off, and then
\* the exception leaves every execute under way.
THEOREM FailureStops == Spec => StopsAtFailure
  <1>1. StackInv /\ PoolInv /\ [Next]_vars =>
            [outcome = "running" =>
                \A s \in called' \ called, f \in failed : Siblings(s, f)]_vars
    <2> SUFFICES ASSUME StackInv, PoolInv, Next, outcome = "running",
                        NEW s \in called' \ called, NEW f \in failed
                 PROVE  Siblings(s, f)
      BY DEF vars
    <2>1. Pooling /\ f \in ParallelSteps
      BY DEF PoolInv, In
    <2>2. PICK k \in DOMAIN tasks : TaskStarts(k)
      BY <2>1 DEF Next, Execute, SkipStep, BeginStep, ActionEnds, TryParallel, AllSubmitted, Collect,
         FlowEnds, TaskEnds, Pooling
    <2>3. s = tasks[k].step
      BY <2>2 DEF TaskStarts
    <2>4. s \in ParallelSteps
      BY <2>1, <2>3 DEF PoolInv
    <2>5. Step \in Steps
      BY <2>1, StepIsStep DEF StackInv, Pooling
    <2>6. QED
      BY <2>1, <2>4, <2>5 DEF Siblings, ParallelSteps
  <1>2. QED
    BY <1>1, PoolInductive, PTL DEF Spec, StopsAtFailure

----------------------------------------------------------------------------
(* The other types, and the actions that were called *)

\* The calls below the top one are at the step that called the next one.
CallersInv ==
    \A d \in 1 .. Len(stack) - 1 : stack[d].at <= Len(StepsOf[stack[d].flow])

\* Only actions that were called can raise, and calls are under way only while
\* the execution runs.
CalledInv ==
    /\ outcome \in {"running", "returned", "raised"}
    /\ phase \in {"condition", "action", "submit", "collect", "none"}
    /\ DOMAIN context \subseteq Steps /\ called \subseteq Steps /\ failed \subseteq called
    /\ stack # <<>> => outcome = "running"
    /\ phase = "action" => Step \in called
    /\ \A k \in DOMAIN tasks : tasks[k].state # "queued" => tasks[k].step \in called

FlowInv == StackInv /\ PoolInv /\ CallersInv /\ CalledInv

\* A result that is put in the context.
LEMMA ContextGrows ==
    ASSUME NEW s, NEW result, Put(s, result)
    PROVE  DOMAIN context' = {s} \cup DOMAIN context
  BY DEF Put

\* Of a stack whose top call moved on only the top is another one.
LEMMA MovedOn ==
    ASSUME NEW calls \in Seq(Calls), calls # <<>>
    PROVE  /\ Len(MoveOn(calls)) = Len(calls) /\ Len(calls) \in Nat
           /\ \A d \in 1 .. Len(calls) - 1 : MoveOn(calls)[d] = calls[d]
  <1>1. Len(calls) \in Nat \ {0} /\ DOMAIN calls = 1 .. Len(calls)
    BY TopOfStack
  <1>2. QED
    BY <1>1 DEF MoveOn

\* Without the top call the calls below it are left.
LEMMA CallersAreBelow ==
    ASSUME NEW s \in Seq(Calls), s # <<>>
    PROVE  /\ Len(SubSeq(s, 1, Len(s) - 1)) = Len(s) - 1 /\ Len(s) - 1 \in Nat
           /\ \A d \in 1 .. Len(s) - 1 : SubSeq(s, 1, Len(s) - 1)[d] = s[d]
  <1> DEFINE n == Len(s) - 1
  <1>1. Len(s) \in Nat /\ Len(s) # 0
    OBVIOUS
  <1>2. n \in Nat /\ n <= Len(s)
    BY <1>1
  <1>3. \A d \in 1 .. n : s[d] \in Calls
    BY <1>1
  <1> HIDE DEF n
  <1>4. /\ Len(SubSeq(s, 1, n)) = IF 1 <= n THEN n - 1 + 1 ELSE 0
        /\ \A d \in 1 .. n - 1 + 1 : SubSeq(s, 1, n)[d] = s[1 + d - 1]
    BY <1>2, <1>3, SubSeqProperties
  <1>5. n - 1 + 1 = n /\ (n < 1 => n = 0) /\ \A d \in 1 .. n : 1 + d - 1 = d
    BY <1>2
  <1>6. Len(SubSeq(s, 1, n)) = n
    BY <1>2, <1>4, <1>5
  <1>7. \A d \in 1 .. n : SubSeq(s, 1, n)[d] = s[d]
    BY <1>4, <1>5
  <1>8. QED
    BY <1>2, <1>6, <1>7 DEF n

\* The calls below the top one stay at their steps.
LEMMA CallersKeep ==
    ASSUME StackInv, CallersInv, [Next]_vars
    PROVE  CallersInv'
  <1>0. stack \in Seq(Calls) /\ Len(stack) \in Nat
    BY DEF StackInv
  <1>1. CASE stack' = stack
    BY <1>1 DEF CallersInv
  <1>2. CASE stack' = <<>> \/ Len(stack') = 1
    <2>1. Len(stack') = 0 \/ Len(stack') = 1
      BY <1>2
    <2>2. 1 .. Len(stack') - 1 = {}
      <3>1. CASE Len(stack') = 0
        BY <3>1
      <3>2. CASE Len(stack') = 1
        BY <3>2
      <3>3. QED
        BY <2>1, <3>1, <3>2
    <2>3. QED
      BY <2>2 DEF CallersInv
  <1>3. CASE stack # <<>> /\ stack' = MoveOn(stack)
    <2>1. Len(stack') = Len(stack) /\ \A d \in 1 .. Len(stack) - 1 : stack'[d] = stack[d]
      BY <1>0, <1>3, MovedOn
    <2>2. QED
      BY <2>1 DEF CallersInv
  <1>4. CASE AtStep /\ \E call \in Calls : stack' = Append(stack, call)
    <2>1. /\ Len(stack') = Len(stack) + 1
          /\ \A d \in 1 .. Len(stack) : stack'[d] = stack[d]
      BY <1>0, <1>4
    <2>2. \A d \in 1 .. Len(stack) : d = Len(stack) \/ d \in 1 .. Len(stack) - 1
      BY <1>0
    <2>3. stack[Len(stack)].at <= Len(StepsOf[stack[Len(stack)].flow])
      BY <1>4 DEF AtStep, Top
    <2>4. \A d \in 1 .. Len(stack) : stack[d].at <= Len(StepsOf[stack[d].flow])
      BY <2>2, <2>3 DEF CallersInv
    <2>5. Len(stack') - 1 = Len(stack)
      BY <1>0, <2>1
    <2>6. QED
      BY <2>1, <2>4, <2>5 DEF CallersInv
  <1>5. CASE FlowEnds /\ stack' # <<>>
    <2> DEFINE callers == SubSeq(stack, 1, Len(stack) - 1)
    <2>1. stack' = MoveOn(callers) /\ callers # <<>>
      BY <1>5 DEF FlowEnds
    <2>2. stack # <<>>
      BY <2>1, SubSeqEmpty
    <2>3. callers \in Seq(Calls)
      BY <1>0, <2>2, CallersAreCalls
    <2>4. /\ Len(callers) = Len(stack) - 1
          /\ \A d \in 1 .. Len(stack) - 1 : callers[d] = stack[d]
      BY <1>0, <2>2, CallersAreBelow
    <2> HIDE DEF callers
    <2>5. /\ Len(stack') = Len(stack) - 1
          /\ \A d \in 1 .. Len(stack) - 2 : stack'[d] = stack[d]
      <3>1. Len(stack') = Len(callers) /\ \A d \in 1 .. Len(callers) - 1 : stack'[d] = callers[d]
        BY <2>1, <2>3, MovedOn
      <3>2. Len(callers) - 1 = Len(stack) - 2
        BY <1>0, <2>4
      <3>3. \A d \in 1 .. Len(stack) - 2 : d \in 1 .. Len(stack) - 1
        BY <1>0
      <3>4. QED
        BY <2>4, <3>1, <3>2, <3>3
    <2>6. \A d \in 1 .. Len(stack') - 1 : d \in 1 .. Len(stack) - 2 /\ d \in 1 .. Len(stack) - 1
      BY <1>0, <2>5
    <2>7. QED
      BY <2>5, <2>6 DEF CallersInv
  <1>6. QED
    <2>1. CASE Execute
      <3>1. Len(stack') = 1
        BY <2>1 DEF Execute
      <3>2. QED
        BY <1>2, <3>1
    <2>2. CASE SkipStep
      BY <1>3, <2>2 DEF SkipStep, AtStep
    <2>3. CASE BeginStep
      <3>1. CASE stack' = stack
        BY <1>1, <3>1
      <3>2. CASE stack' # stack
        <4>1. AtStep /\ SubOf[Step] # None /\ stack' = Append(stack, [flow |-> SubOf[Step], at |-> 1])
          BY <2>3, <3>2 DEF BeginStep
        <4>2. [flow |-> SubOf[Step], at |-> 1] \in Calls
          BY <4>1, StepIsStep DEF Calls
        <4>3. QED
          BY <1>4, <4>1, <4>2
      <3>3. QED
        BY <3>1, <3>2
    <2>4. CASE ActionEnds \/ Collect
      <3>1. AtStep
        BY <2>4 DEF ActionEnds, Collect, StackInv
      <3>2. stack' = MoveOn(stack) \/ stack' = <<>>
        BY <2>4 DEF ActionEnds, Collect, CollectResults, Raise
      <3>3. QED
        BY <1>2, <1>3, <3>1, <3>2 DEF AtStep
    <2>5. CASE TryParallel \/ AllSubmitted \/ \E k \in DOMAIN tasks : TaskStarts(k) \/ TaskEnds(k)
      BY <1>1, <2>5 DEF TryParallel, AllSubmitted, TaskStarts, TaskEnds
    <2>6. CASE FlowEnds
      BY <1>2, <1>5, <2>6
    <2>7. CASE UNCHANGED vars
      BY <1>1, <2>7 DEF vars
    <2>8. QED
      BY <2>1, <2>2, <2>3, <2>4, <2>5, <2>6, <2>7 DEF Next

\* The steps of the calling thread keep what is said of results and calls.
LEMMA CallerCalls ==
    ASSUME FlowInv, Execute \/ SkipStep \/ BeginStep \/ ActionEnds \/ FlowEnds
    PROVE  CalledInv'
  <1>0. StackInv /\ CalledInv /\ stack \in Seq(Calls)
    BY DEF FlowInv, StackInv
  <1>1. CASE Execute
    BY <1>1 DEF Execute, CalledInv
  <1>2. CASE SkipStep
    BY <1>0, <1>2 DEF SkipStep, CalledInv, AtStep
  <1>3. CASE BeginStep
    <2>1. Step \in Steps /\ outcome = "running"
      BY <1>0, <1>3, StepIsStep DEF BeginStep, CalledInv, AtStep
    <2>2. /\ outcome' = outcome /\ context' = context /\ failed' = failed
          /\ tasks' = tasks \/ tasks' = <<>>
          /\ called' = called \/ called' = called \cup {Step}
      BY <1>3 DEF BeginStep
    <2>3. phase' \in {"submit", "condition"} \/ (phase' = "action" /\ Step' = Step /\ Step \in called')
      BY <1>3 DEF BeginStep, Step, Top
    <2>4. \A k \in DOMAIN tasks' : tasks'[k].state # "queued" => tasks'[k].step \in called'
      BY <1>0, <2>2 DEF CalledInv
    <2>5. QED
      BY <1>0, <2>1, <2>2, <2>3, <2>4 DEF CalledInv
  <1>4. CASE ActionEnds
    <2>1. Step \in Steps /\ Step \in called /\ outcome = "running"
      BY <1>0, <1>4, StepIsStep DEF ActionEnds, StackInv, CalledInv, AtStep
    <2>2. /\ tasks' = tasks /\ called' = called
          /\ failed' = failed \/ failed' = failed \cup {Step}
          /\ context' = context \/ Put(Step, <<Step>>)
          /\ \/ outcome' = outcome /\ phase' = "condition"
             \/ outcome' = "raised" /\ phase' = "none" /\ stack' = <<>>
      BY <1>4 DEF ActionEnds, Raise
    <2>3. DOMAIN context' \subseteq Steps
      BY <1>0, <2>1, <2>2, ContextGrows DEF CalledInv
    <2>4. QED
      BY <1>0, <2>1, <2>2, <2>3 DEF CalledInv
  <1>5. CASE FlowEnds
    <2> DEFINE callers == SubSeq(stack, 1, Len(stack) - 1)
               caller == callers[Len(callers)]
    <2>1. /\ tasks' = tasks /\ called' = called /\ failed' = failed
          /\ \/ /\ outcome' = "returned" /\ phase' = "none" /\ stack' = <<>>
                /\ context' = context
             \/ /\ outcome' = outcome /\ phase' = phase /\ phase = "condition"
                /\ callers # <<>>
                /\ Put(StepsOf[caller.flow][caller.at], <<>>)
      BY <1>5 DEF FlowEnds
    <2>2. ASSUME callers # <<>>
          PROVE  StepsOf[caller.flow][caller.at] \in Steps /\ stack # <<>>
      <3>1. stack # <<>>
        BY <2>2, SubSeqEmpty
      <3>2. callers \in Seq(Calls) /\ Len(stack) \in Nat
        BY <1>0, <3>1, CallersAreCalls
      <3>3. /\ Len(callers) = Len(stack) - 1
            /\ \A d \in 1 .. Len(stack) - 1 : callers[d] = stack[d]
        BY <1>0, <3>1, CallersAreBelow
      <3> HIDE DEF callers
      <3>4. Len(callers) \in 1 .. Len(stack) - 1
        BY <2>2, <3>2, <3>3
      <3>5. caller \in Calls /\ caller.at <= Len(StepsOf[caller.flow])
        <4>1. caller = stack[Len(callers)]
          BY <3>3, <3>4
        <4>2. caller \in Calls
          BY <2>2, <3>2, TopOfStack
        <4>3. QED
          BY <3>4, <4>1, <4>2 DEF FlowInv, CallersInv
      <3>6. StepsOf[caller.flow] \in Seq(Steps) /\ caller.at \in Nat \ {0}
        BY <3>5, WorkflowAssumption DEF Calls
      <3> HIDE DEF caller
      <3>7. caller.at \in 1 .. Len(StepsOf[caller.flow])
        BY <3>5, <3>6
      <3>8. QED
        BY <3>1, <3>6, <3>7
    <2> HIDE DEF callers, caller
    <2>3. DOMAIN context' \subseteq Steps
      <3>1. CASE context' = context
        BY <1>0, <3>1 DEF CalledInv
      <3>2. CASE context' # context
        <4>1. StepsOf[caller.flow][caller.at] \in Steps
          BY <2>1, <2>2, <3>2
        <4>2. DOMAIN context' = {StepsOf[caller.flow][caller.at]} \cup DOMAIN context
          BY <2>1, <3>2, ContextGrows
        <4>3. QED
          BY <1>0, <4>1, <4>2 DEF CalledInv
      <3>3. QED
        BY <3>1, <3>2
    <2>4. stack' # <<>> => outcome' = "running"
      BY <1>0, <2>1, <2>2 DEF CalledInv
    <2>5. QED
      BY <1>0, <2>1, <2>3, <2>4 DEF CalledInv
  <1>6. QED
    BY <1>1, <1>2, <1>3, <1>4, <1>5

\* So do the steps at a parallel step, of the calling thread and of the pool.
LEMMA PoolCalls ==
    ASSUME FlowInv,
           \/ TryParallel \/ AllSubmitted \/ Collect
           \/ \E k \in DOMAIN tasks : TaskStarts(k) \/ TaskEnds(k)
    PROVE  CalledInv'
  <1>0. StackInv /\ PoolInv /\ CalledInv /\ tasks \in Seq(Tasks)
    BY DEF FlowInv, PoolInv
  <1>1. CASE TryParallel
    <2>1. /\ UNCHANGED <<outcome, stack, phase, context, called, failed>> /\ phase = "submit"
          /\ tasks' \in {tasks, Append(tasks, [step |-> ParallelOf[Step][tried + 1],
                                               state |-> "queued"])}
      BY <1>1 DEF TryParallel
    <2> DEFINE task == [step |-> ParallelOf[Step][tried + 1], state |-> "queued"]
    <2>2. task.state = "queued"
      OBVIOUS
    <2> HIDE DEF task
    <2>3. tasks' = tasks \/ tasks' = Append(tasks, task)
      BY <2>1 DEF task
    <2>4. \A k \in DOMAIN tasks' : (k \in DOMAIN tasks /\ tasks'[k] = tasks[k]) \/ tasks'[k] = task
      BY <1>0, <2>3
    <2>5. \A k \in DOMAIN tasks' : tasks'[k].state # "queued" => tasks'[k].step \in called
      BY <1>0, <2>2, <2>4 DEF CalledInv
    <2>6. QED
      BY <1>0, <2>1, <2>5 DEF CalledInv
  <1>2. CASE AllSubmitted
    BY <1>0, <1>2 DEF AllSubmitted, CalledInv
  <1>3. CASE Collect
    <2>1. Step \in Steps /\ outcome = "running"
      BY <1>0, <1>3, StepIsStep DEF Collect, StackInv, CalledInv, AtStep
    <2>2. /\ tasks' = tasks /\ called' = called /\ failed' = failed
          /\ \/ /\ outcome' = outcome /\ phase' = "condition"
                /\ Put(Step, [k \in DOMAIN tasks |-> tasks[k].step])
             \/ /\ outcome' = "raised" /\ phase' = "none" /\ stack' = <<>>
                /\ context' = context
      BY <1>3 DEF Collect, CollectResults, Raise
    <2>3. DOMAIN context' \subseteq Steps
      BY <1>0, <2>1, <2>2, ContextGrows DEF CalledInv
    <2>4. QED
      BY <1>0, <2>1, <2>2, <2>3 DEF CalledInv
  <1>4. ASSUME NEW k \in DOMAIN tasks, TaskStarts(k) \/ TaskEnds(k)
        PROVE  CalledInv'
    <2>1. PICK state \in {"running", "returned", "raised"} :
              /\ tasks' = [tasks EXCEPT ![k].state = state]
              /\ failed' = failed \/ (TaskEnds(k) /\ failed' = failed \cup {tasks[k].step})
      BY <1>4 DEF TaskStarts, TaskEnds
    <2>2. /\ UNCHANGED <<outcome, stack, phase, context>>
          /\ called' = IF TaskStarts(k) THEN called \cup {tasks[k].step} ELSE called
      BY <1>4 DEF TaskStarts, TaskEnds, In
    <2>3. /\ DOMAIN tasks' = DOMAIN tasks
          /\ \A j \in DOMAIN tasks : tasks'[j].step = tasks[j].step
          /\ \A j \in DOMAIN tasks \ {k} : tasks'[j] = tasks[j]
      BY <1>0, <2>1, TaskUpdated
    <2>4. tasks[k].step \in Steps
      <3>1. tasks[k] \in Tasks
        BY <1>0
      <3>2. QED
        BY <3>1 DEF Tasks
    <2>5. tasks[k].step \in called' /\ called \subseteq called' /\ called' \subseteq Steps
      <3>1. TaskEnds(k) => tasks[k].step \in called
        BY <1>0 DEF TaskEnds, In, CalledInv
      <3>2. QED
        BY <1>0, <1>4, <2>2, <2>4, <3>1 DEF CalledInv
    <2>6. \A j \in DOMAIN tasks' : tasks'[j].state # "queued" => tasks'[j].step \in called'
      BY <1>0, <2>3, <2>5 DEF CalledInv
    <2>7. failed' \subseteq called'
      BY <1>0, <2>1, <2>5 DEF CalledInv
    <2>8. phase' = "action" => Step' \in called'
      BY <1>0, <2>2, <2>5 DEF CalledInv, Step, Top
    <2>9. QED
      BY <1>0, <2>2, <2>5, <2>6, <2>7, <2>8 DEF CalledInv
  <1>5. QED
    BY <1>1, <1>2, <1>3, <1>4

\* The whole invariant is inductive.
LEMMA FlowInductive ==
    /\ Init => FlowInv
    /\ FlowInv /\ [Next]_vars => FlowInv'
  <1>1. Init => FlowInv
    <2> SUFFICES ASSUME Init PROVE FlowInv
      OBVIOUS
    <2>1. StackInv /\ PoolInv
      BY PoolInductive
    <2>2. CallersInv
      <3>1. 1 .. Len(stack) - 1 = {}
        BY DEF Init
      <3>2. QED
        BY <3>1 DEF CallersInv
    <2>3. CalledInv
      BY DEF Init, CalledInv
    <2>4. QED
      BY <2>1, <2>2, <2>3 DEF FlowInv
  <1>2. ASSUME FlowInv, [Next]_vars PROVE FlowInv'
    <2>1. (StackInv /\ PoolInv)' /\ CallersInv'
      BY <1>2, PoolInductive, CallersKeep DEF FlowInv
    <2>2. CASE Next
      BY <1>2, <2>1, <2>2, CallerCalls, PoolCalls DEF Next, FlowInv
    <2>3. CASE UNCHANGED vars
      <3>1. CalledInv'
        BY <1>2, <2>3 DEF FlowInv, vars, CalledInv, Step, Top
      <3>2. QED
        BY <2>1, <3>1 DEF FlowInv
    <2>4. QED
      BY <1>2, <2>2, <2>3
  <1>3. QED
    BY <1>1, <1>2

\* Nothing runs behind the caller's back, for any workflows, also such as name a
\* step or each other more than once.
THEOREM NothingRunsBehind == Spec => []StepsDontOverlap
  <1>1. FlowInv => StepsDontOverlap
    <2> SUFFICES ASSUME FlowInv PROVE StepsDontOverlap
      OBVIOUS
    <2>1. stack \in Seq([flow : Flows, at : Nat])
      <3>1. Calls \subseteq [flow : Flows, at : Nat]
        BY DEF Calls
      <3>2. stack \in Seq(Calls)
        BY DEF FlowInv, StackInv
      <3>3. QED
        BY <3>1, <3>2, SeqMonotonic
    <2>2. TypeOK
      BY <2>1 DEF FlowInv, StackInv, PoolInv, CalledInv, TypeOK
    <2>3. In("queued") \cup In("running") # {} =>
              Pooling /\ \A k \in DOMAIN tasks : tasks[k].step \in ParallelSteps
      BY DEF FlowInv, PoolInv
    <2>4. QED
      BY <2>2, <2>3 DEF StepsDontOverlap, Pooling, ParallelSteps
  <1>2. QED
    BY <1>1, FlowInductive, PTL DEF Spec

----------------------------------------------------------------------------
(* The results *)

\* The step whose actions are called is none that has a result already.
ResultInv ==
    /\ ResultsAreWhole
    /\ phase \in {"action", "submit", "collect"} =>
           \A s \in DOMAIN context : Actions(s) \cap Actions(Step) = {}

BeginsAfresh == BeginStep => \A s \in DOMAIN context : Actions(s) \cap Actions(Step) = {}

\* Nothing has failed when a result is put in the context, and what fails later is
\* an action of a step that has none.
LEMMA ResultsKeep ==
    ASSUME FlowInv, ResultInv, [Next]_vars, BeginsAfresh
    PROVE  ResultInv'
  <1>0. StackInv /\ PoolInv /\ CalledInv /\ ResultsAreWhole
    BY DEF FlowInv, ResultInv
  <1>1. CASE Execute
    BY <1>1 DEF Execute, ResultInv, ResultsAreWhole
  <1>2. CASE SkipStep \/ TryParallel \/ AllSubmitted \/ UNCHANGED vars
    <2>1. context' = context /\ failed' = failed
      BY <1>2 DEF SkipStep, TryParallel, AllSubmitted, vars
    <2>2. \/ phase' = "condition"
          \/ stack' = stack /\ (phase' = phase \/ phase = "submit")
      BY <1>2 DEF SkipStep, TryParallel, AllSubmitted, vars
    <2>3. stack' = stack => Step' = Step
      BY DEF Step, Top
    <2>4. QED
      BY <1>0, <2>1, <2>2, <2>3 DEF ResultInv, ResultsAreWhole, Actions
  <1>3. CASE BeginStep
    <2>1. context' = context /\ failed' = failed
      BY <1>3 DEF BeginStep
    <2>2. phase' = "condition" \/ stack' = stack
      BY <1>3 DEF BeginStep
    <2>3. stack' = stack => Step' = Step
      BY DEF Step, Top
    <2>4. \A s \in DOMAIN context : Actions(s) \cap Actions(Step) = {}
      BY <1>3 DEF BeginsAfresh
    <2>5. QED
      BY <1>0, <2>1, <2>2, <2>3, <2>4 DEF ResultInv, ResultsAreWhole, Actions
  <1>4. CASE ActionEnds \/ Collect \/ FlowEnds
    <2>1. phase' \in {"condition", "none"}
      BY <1>4 DEF ActionEnds, Collect, CollectResults, FlowEnds, Raise
    <2>2. \/ context' = context /\ failed' = failed
          \/ /\ context' = context /\ failed' = failed \cup {Step} /\ phase = "action"
          \/ failed = {} /\ failed' = failed
      <3>1. CASE ActionEnds
        <4>1. AtStep /\ phase = "action"
          BY <1>0, <3>1 DEF ActionEnds, StackInv
        <4>2. failed = {}
          BY <1>0, <4>1 DEF AtStep, CalledInv, PoolInv, Pooling
        <4>3. QED
          BY <3>1, <4>1, <4>2 DEF ActionEnds
      <3>2. CASE Collect
        <4>1. AtStep
          BY <1>0, <3>2 DEF Collect, StackInv
        <4>2. In("raised") = {} => failed = {}
          BY <1>0, <4>1 DEF AtStep, CalledInv, PoolInv
        <4>3. QED
          BY <3>2, <4>2 DEF Collect, CollectResults
      <3>3. CASE FlowEnds
        <4>1. phase = "condition" /\ failed' = failed
          BY <3>3 DEF FlowEnds
        <4>2. CASE stack = <<>>
          <5>1. SubSeq(stack, 1, Len(stack) - 1) = <<>>
            BY <4>2, SubSeqEmpty
          <5>2. QED
            BY <3>3, <5>1 DEF FlowEnds
        <4>3. CASE stack # <<>>
          BY <1>0, <4>1, <4>3 DEF CalledInv, PoolInv, Pooling
        <4>4. QED
          BY <4>2, <4>3
      <3>4. QED
        BY <1>4, <3>1, <3>2, <3>3
    <2>3. ResultsAreWhole'
      <3>1. CASE context' = context /\ failed' = failed
        BY <1>0, <3>1 DEF ResultsAreWhole, Actions
      <3>2. CASE context' = context /\ failed' = failed \cup {Step} /\ phase = "action"
        <4>1. Step \in Actions(Step)
          BY DEF Actions
        <4>2. \A s \in DOMAIN context : Step \notin Actions(s)
          BY <3>2, <4>1 DEF ResultInv
        <4>3. \A s \in DOMAIN context : Actions(s) \cap failed = {}
          BY <1>0 DEF ResultsAreWhole
        <4>4. QED
          BY <3>2, <4>2, <4>3 DEF ResultsAreWhole, Actions
      <3>3. CASE failed' = {}
        BY <3>3 DEF ResultsAreWhole
      <3>4. QED
        BY <2>2, <3>1, <3>2, <3>3
    <2>4. QED
      BY <2>1, <2>3 DEF ResultInv
  <1>5. ASSUME NEW k \in DOMAIN tasks, TaskStarts(k) \/ TaskEnds(k)
        PROVE  ResultInv'
    <2>1. context' = context /\ stack' = stack /\ phase' = phase
      BY <1>5 DEF TaskStarts, TaskEnds
    <2>2. failed' = failed \/ failed' = failed \cup {tasks[k].step}
      BY <1>5 DEF TaskStarts, TaskEnds
    <2>3. Pooling /\ tasks[k].step \in ParallelSteps
      BY <1>0, <1>5 DEF PoolInv, TaskStarts, TaskEnds
    <2>4. tasks[k].step \in Actions(Step)
      BY <2>3 DEF ParallelSteps, Actions
    <2>5. \A s \in DOMAIN context : tasks[k].step \notin Actions(s)
      BY <2>3, <2>4 DEF ResultInv, Pooling
    <2>6. \A s \in DOMAIN context : Actions(s) \cap failed' = {}
      BY <1>0, <2>2, <2>5 DEF ResultsAreWhole
    <2>7. Step' = Step
      BY <2>1 DEF Step, Top
    <2>8. QED
      BY <2>1, <2>6, <2>7 DEF ResultInv, ResultsAreWhole, Actions
  <1>6. QED
    BY <1>1, <1>2, <1>3, <1>4, <1>5 DEF Next

----------------------------------------------------------------------------
(* The places execute has left behind *)

\* Moving on changes no workflow of a stack, and only the place of the top call.
LEMMA MovesForward ==
    ASSUME NEW calls \in Seq(Calls), calls # <<>>
    PROVE  /\ Len(calls) \in Nat \ {0} /\ Len(MoveOn(calls)) = Len(calls)
           /\ \A d \in 1 .. Len(calls) : MoveOn(calls)[d].flow = calls[d].flow
           /\ \A d \in 1 .. Len(calls) : \A i \in Nat :
                  i < calls[d].at => i < MoveOn(calls)[d].at
           /\ calls[Len(calls)].at \in Nat
           /\ calls[Len(calls)].at < MoveOn(calls)[Len(calls)].at
  <1>1. /\ Len(calls) \in Nat \ {0} /\ DOMAIN calls = 1 .. Len(calls)
        /\ \A d \in 1 .. Len(calls) : calls[d] \in [flow : Flows, at : Nat]
    <2>1. Calls \subseteq [flow : Flows, at : Nat]
      BY DEF Calls
    <2>2. Len(calls) \in Nat \ {0} /\ DOMAIN calls = 1 .. Len(calls)
      BY TopOfStack
    <2>3. \A d \in 1 .. Len(calls) : calls[d] \in Calls
      BY <2>2
    <2>4. QED
      BY <2>1, <2>2, <2>3
  <1>2. \A d \in 1 .. Len(calls) : calls[d].at \in Nat
    BY <1>1
  <1>3. /\ Len(MoveOn(calls)) = Len(calls)
        /\ \A d \in 1 .. Len(calls) :
               MoveOn(calls)[d] = IF d = Len(calls) THEN [calls[d] EXCEPT !.at = @ + 1]
                                  ELSE calls[d]
    BY <1>1 DEF MoveOn
  <1>4. \A d \in 1 .. Len(calls) :
            /\ MoveOn(calls)[d].flow = calls[d].flow
            /\ MoveOn(calls)[d].at = IF d = Len(calls) THEN calls[d].at + 1 ELSE calls[d].at
    BY <1>1, <1>3
  <1>5. Len(calls) \in 1 .. Len(calls)
    BY <1>1
  <1>6. QED
    BY <1>1, <1>2, <1>3, <1>4, <1>5

NestInv == ChainInv /\ DoneInv

\* The step execute is at has no result yet, nor has any with an action or a
\* workflow in common with it.
LEMMA StepIsNew ==
    ASSUME EachStepOnce, StackInv, NestInv, AtStep, NEW s \in DOMAIN context,
           \/ Actions(s) \cap Actions(Step) # {}
           \/ SubOf[s] = SubOf[Step] /\ SubOf[s] # None
    PROVE  FALSE
  <1>1. PICK f \in Flows : \E i \in DOMAIN StepsOf[f] : s = StepsOf[f][i] /\ Past(f, i)
    BY DEF NestInv, DoneInv, AtStep
  <1>2. PICK i \in DOMAIN StepsOf[f] : s = StepsOf[f][i] /\ Past(f, i)
    BY <1>1
  <1>3. Top \in Calls /\ Len(stack) \in Nat \ {0} /\ Top.flow \in Flows /\ Top.at \in Nat \ {0}
    BY TopOfStack DEF StackInv, AtStep, Top, Calls
  <1>4. Len(StepsOf[Top.flow]) \in Nat /\ DOMAIN StepsOf[Top.flow] = 1 .. Len(StepsOf[Top.flow])
    BY <1>3, WorkflowAssumption
  <1>5. Top.at \in DOMAIN StepsOf[Top.flow]
    BY <1>3, <1>4 DEF AtStep
  <1>6. f = Top.flow /\ i = Top.at
    <2>1. Step = StepsOf[Top.flow][Top.at]
      BY DEF Step
    <2>2. \/ Actions(StepsOf[f][i]) \cap Actions(StepsOf[Top.flow][Top.at]) # {}
          \/ SubOf[StepsOf[f][i]] = SubOf[StepsOf[Top.flow][Top.at]] /\ SubOf[StepsOf[f][i]] # None
      BY <1>2, <2>1
    <2> DEFINE g == Top.flow
               j == Top.at
    <2>3. g \in Flows /\ j \in DOMAIN StepsOf[g]
      BY <1>3, <1>5
    <2> HIDE DEF g, j
    <2>4. \/ Actions(StepsOf[f][i]) \cap Actions(StepsOf[g][j]) # {}
          \/ SubOf[StepsOf[f][i]] = SubOf[StepsOf[g][j]] /\ SubOf[StepsOf[f][i]] # None
      BY <2>2 DEF g, j
    <2>5. f = g /\ i = j
      <3>1. \A b \in DOMAIN StepsOf[g] :
                \/ Actions(StepsOf[f][i]) \cap Actions(StepsOf[g][b]) # {}
                \/ SubOf[StepsOf[f][i]] = SubOf[StepsOf[g][b]] /\ SubOf[StepsOf[f][i]] # None
                => f = g /\ i = b
        BY <2>3 DEF EachStepOnce
      <3>2. QED
        BY <2>3, <2>4, <3>1
    <2>6. QED
      BY <2>5 DEF g, j
  <1>7. Len(stack) \in 1 .. Len(stack)
    BY <1>3
  <1>8. ASSUME NEW d \in 1 .. Len(stack), stack[d].flow = f, i < stack[d].at
        PROVE  FALSE
    <2>1. d = Len(stack)
      BY <1>6, <1>7, <1>8 DEF NestInv, ChainInv, Top
    <2>2. QED
      BY <1>3, <1>6, <1>8, <2>1 DEF Top
  <1>9. stack[Len(stack)].flow = f
    BY <1>6 DEF Top
  <1>10. QED
    BY <1>2, <1>7, <1>8, <1>9 DEF Past

\* Execute moves on from a step, with a result of it or without.
LEMMA NestMoves ==
    ASSUME StackInv, NestInv, AtStep, stack' = MoveOn(stack),
           context' = context \/ \E result : Put(Step, result)
    PROVE  NestInv'
  <1>1. /\ Len(stack) \in Nat \ {0} /\ Len(stack') = Len(stack)
        /\ \A d \in 1 .. Len(stack) : stack'[d].flow = stack[d].flow
        /\ \A d \in 1 .. Len(stack) : \A i \in Nat : i < stack[d].at => i < stack'[d].at
        /\ Top.at \in Nat
        /\ Top.at < stack'[Len(stack)].at
    BY MovesForward DEF StackInv, AtStep, Top
  <1>2. DOMAIN context \subseteq DOMAIN context' /\ DOMAIN context' \subseteq DOMAIN context \cup {Step}
    BY ContextGrows
  <1>3. ChainInv'
    <2>1. \A d \in 1 .. Len(stack) - 1 : stack'[d] = stack[d]
      BY MovedOn DEF StackInv, AtStep
    <2>2. \A d \in 1 .. Len(stack) - 1 : d \in 1 .. Len(stack) /\ d + 1 \in 1 .. Len(stack)
      BY <1>1
    <2>3. 1 \in 1 .. Len(stack) /\ stack # <<>>
      BY <1>1 DEF AtStep
    <2>4. \A d \in 1 .. Len(stack') - 1 :
              SubOf[StepsOf[stack'[d].flow][stack'[d].at]] = stack'[d + 1].flow
      BY <1>1, <2>1, <2>2 DEF NestInv, ChainInv
    <2>5. stack'[1].flow = Main
      BY <1>1, <2>3 DEF NestInv, ChainInv
    <2>6. \A d, e \in 1 .. Len(stack') : stack'[d].flow = stack'[e].flow => d = e
      BY <1>1 DEF NestInv, ChainInv
    <2>7. QED
      BY <2>4, <2>5, <2>6 DEF ChainInv
  <1>4. ASSUME NEW f \in Flows, NEW i \in DOMAIN StepsOf[f], Past(f, i)
        PROVE  Past(f, i)'
    <2>1. i \in Nat
      BY WorkflowAssumption
    <2>2. CASE \E d \in 1 .. Len(stack) : stack[d].flow = f /\ i < stack[d].at
      <3>1. PICK d \in 1 .. Len(stack) : stack[d].flow = f /\ i < stack[d].at
        BY <2>2
      <3>2. stack'[d].flow = f /\ i < stack'[d].at
        BY <1>1, <2>1, <3>1
      <3>3. QED
        BY <1>1, <3>2 DEF Past
    <2>3. CASE /\ \A d \in 1 .. Len(stack) : stack[d].flow # f
               /\ \E t \in DOMAIN context : SubOf[t] = f
      BY <1>1, <1>2, <2>3 DEF Past
    <2>4. QED
      BY <1>4, <2>2, <2>3 DEF Past
  <1>5. DoneInv'
    <2> SUFFICES ASSUME NEW s \in DOMAIN context'
                 PROVE  \E f \in Flows : \E i \in DOMAIN StepsOf[f] :
                            s = StepsOf[f][i] /\ Past(f, i)'
      BY DEF DoneInv
    <2>1. CASE s \in DOMAIN context
      BY <1>4, <2>1 DEF NestInv, DoneInv, AtStep
    <2>2. CASE s = Step
      <3>1. Top \in Calls /\ Top.flow \in Flows /\ Top.at \in Nat \ {0}
        BY TopOfStack DEF StackInv, AtStep, Top, Calls
      <3>2. Top.at \in DOMAIN StepsOf[Top.flow]
        BY <3>1, WorkflowAssumption DEF AtStep
      <3>3. Len(stack) \in 1 .. Len(stack) /\ stack'[Len(stack)].flow = Top.flow
        BY <1>1 DEF Top
      <3>4. PICK f \in Flows, i \in DOMAIN StepsOf[Top.flow] : f = Top.flow /\ i = Top.at
        BY <3>1, <3>2
      <3>5. Past(f, i)'
        <4>1. \E d \in 1 .. Len(stack') : stack'[d].flow = f /\ i < stack'[d].at
          BY <1>1, <3>3, <3>4
        <4>2. QED
          BY <4>1 DEF Past
      <3>6. s = StepsOf[f][i] /\ i \in DOMAIN StepsOf[f]
        BY <2>2, <3>4 DEF Step
      <3>7. QED
        BY <3>5, <3>6
    <2>3. QED
      BY <1>2, <2>1, <2>2
  <1>6. QED
    BY <1>3, <1>5 DEF NestInv

\* Execute calls the workflow of a step: no call of it is under way, and none has
\* returned.
LEMMA NestCalls ==
    ASSUME EachStepOnce, FlowInv, NestInv, AtStep, SubOf[Step] # None,
           stack' = Append(stack, [flow |-> SubOf[Step], at |-> 1]), context' = context
    PROVE  NestInv'
  <1> DEFINE n == Len(stack)
             g == SubOf[Step]
  <1>1. /\ n \in Nat \ {0} /\ stack \in Seq(Calls)
        /\ Top \in Calls /\ Top.flow \in Flows /\ Top.at \in Nat \ {0}
    BY TopOfStack DEF FlowInv, StackInv, AtStep, Top, Calls
  <1>2. Step \in Steps /\ g \in Flows
    BY StepIsStep, WorkflowAssumption DEF FlowInv, StackInv
  <1>3. /\ Len(stack') = n + 1 /\ stack'[n + 1].flow = g
        /\ \A d \in 1 .. n : stack'[d] = stack[d]
    BY <1>1
  <1>4. Top.at \in DOMAIN StepsOf[Top.flow]
    BY <1>1, WorkflowAssumption DEF AtStep
  <1>5. ASSUME NEW d \in 1 .. n, stack[d].flow = g
        PROVE  FALSE
    <2>1. d # 1
      BY <1>2, <1>5 DEF NestInv, ChainInv, EachStepOnce, AtStep
    <2>2. d - 1 \in 1 .. n - 1 /\ d - 1 \in 1 .. n /\ (d - 1) + 1 = d
      BY <1>1, <2>1
    <2> DEFINE c == stack[d - 1]
    <2>3. SubOf[StepsOf[c.flow][c.at]] = g
      BY <1>5, <2>2 DEF NestInv, ChainInv
    <2>4. c \in Calls
      BY <1>1, <2>2
    <2>5. c.flow \in Flows /\ c.at \in Nat \ {0}
      BY <2>4 DEF Calls
    <2>6. c.at \in DOMAIN StepsOf[c.flow]
      <3>1. c.at <= Len(StepsOf[c.flow])
        BY <2>2 DEF FlowInv, CallersInv
      <3>2. QED
        BY <2>5, <3>1, WorkflowAssumption
    <2>7. c.flow = Top.flow
      BY <1>1, <1>4, <2>3, <2>5, <2>6 DEF EachStepOnce, Step
    <2>8. d - 1 = n
      <3>1. n \in 1 .. n
        BY <1>1
      <3>2. QED
        BY <2>2, <2>7, <3>1 DEF NestInv, ChainInv, Top
    <2>9. QED
      BY <1>1, <2>8
  <1>6. ChainInv'
    <2>1. 1 \in 1 .. n /\ stack # <<>>
      BY <1>1 DEF AtStep
    <2>2. stack'[1].flow = Main
      BY <1>3, <2>1 DEF NestInv, ChainInv
    <2>3. ASSUME NEW d \in 1 .. Len(stack') - 1
          PROVE  SubOf[StepsOf[stack'[d].flow][stack'[d].at]] = stack'[d + 1].flow
      <3>1. d \in 1 .. n /\ (d = n \/ (d \in 1 .. n - 1 /\ d + 1 \in 1 .. n))
        BY <1>1, <1>3
      <3>2. CASE d = n
        BY <1>3, <3>1, <3>2 DEF Step, Top
      <3>3. CASE d \in 1 .. n - 1 /\ d + 1 \in 1 .. n
        BY <1>3, <3>1, <3>3 DEF NestInv, ChainInv
      <3>4. QED
        BY <3>1, <3>2, <3>3
    <2>4. ASSUME NEW d \in 1 .. Len(stack'), NEW e \in 1 .. Len(stack'),
                 stack'[d].flow = stack'[e].flow
          PROVE  d = e
      <3>1. d \in 1 .. n \/ d = n + 1
        BY <1>1, <1>3
      <3>2. e \in 1 .. n \/ e = n + 1
        BY <1>1, <1>3
      <3>3. CASE d \in 1 .. n /\ e \in 1 .. n
        BY <1>3, <2>4, <3>3 DEF NestInv, ChainInv
      <3>4. QED
        BY <1>3, <1>5, <2>4, <3>1, <3>2, <3>3
    <2>5. QED
      BY <2>2, <2>3, <2>4 DEF ChainInv
  <1>7. ASSUME NEW f \in Flows, NEW i \in DOMAIN StepsOf[f], Past(f, i)
        PROVE  Past(f, i)'
    <2>1. CASE \E d \in 1 .. n : stack[d].flow = f /\ i < stack[d].at
      <3>1. PICK d \in 1 .. n : stack[d].flow = f /\ i < stack[d].at
        BY <2>1
      <3>2. d \in 1 .. Len(stack') /\ stack'[d].flow = f /\ i < stack'[d].at
        BY <1>1, <1>3, <3>1
      <3>3. QED
        BY <3>2 DEF Past
    <2>2. ASSUME \A d \in 1 .. n : stack[d].flow # f, NEW t \in DOMAIN context, SubOf[t] = f
          PROVE  Past(f, i)'
      <3>1. f # g
        BY <1>2, <2>2, StepIsNew, WorkflowAssumption DEF FlowInv
      <3>2. \A d \in 1 .. Len(stack') : d \in 1 .. n \/ d = n + 1
        BY <1>1, <1>3
      <3>3. \A d \in 1 .. Len(stack') : stack'[d].flow # f
        BY <1>3, <2>2, <3>1, <3>2
      <3>4. QED
        BY <2>2, <3>3 DEF Past
    <2>3. QED
      BY <1>7, <2>1, <2>2 DEF Past
  <1>8. DoneInv'
    BY <1>7 DEF NestInv, DoneInv, AtStep
  <1>9. QED
    BY <1>6, <1>8 DEF NestInv

\* A workflow returns to the step that called it: its steps are behind execute
\* because that step has a result.
LEMMA NestReturns ==
    ASSUME FlowInv, NestInv, FlowEnds, stack' # <<>>
    PROVE  NestInv'
  <1> DEFINE n == Len(stack)
             callers == SubSeq(stack, 1, n - 1)
             s0 == StepsOf[callers[Len(callers)].flow][callers[Len(callers)].at]
  <1>1. callers # <<>> /\ stack' = MoveOn(callers) /\ Put(s0, <<>>)
    BY DEF FlowEnds
  <1>2. stack # <<>> /\ stack \in Seq(Calls)
    BY <1>1, SubSeqEmpty DEF FlowInv, StackInv
  <1>3. /\ callers \in Seq(Calls) /\ n \in Nat \ {0} /\ n - 1 \in Nat /\ Len(callers) = n - 1
        /\ \A d \in 1 .. n - 1 : callers[d] = stack[d]
    BY <1>2, CallersAreCalls, CallersAreBelow, TopOfStack
  <1>4. n - 1 \in Nat \ {0}
    BY <1>1, <1>3, TopOfStack
  <1> HIDE DEF callers
  <1> DEFINE c == stack[n - 1]
  <1>5. /\ n - 1 \in 1 .. n - 1 /\ n - 1 \in 1 .. n /\ (n - 1) + 1 = n /\ n \in 1 .. n
        /\ 1 \in 1 .. n - 1 /\ \A d \in 1 .. n - 1 : d \in 1 .. n /\ d + 1 \in 1 .. n
    BY <1>3, <1>4
  <1>6. callers[Len(callers)] = c /\ s0 = StepsOf[c.flow][c.at]
    BY <1>3, <1>5
  <1>7. c \in Calls /\ c.flow \in Flows /\ c.at \in Nat \ {0}
    <2>1. c \in Calls
      BY <1>2, <1>5
    <2>2. QED
      BY <2>1 DEF Calls
  <1>8. c.at \in DOMAIN StepsOf[c.flow] /\ s0 \in Steps
    <2>1. c.at <= Len(StepsOf[c.flow])
      BY <1>5 DEF FlowInv, CallersInv
    <2>2. StepsOf[c.flow] \in Seq(Steps)
      BY <1>7, WorkflowAssumption
    <2>3. c.at \in 1 .. Len(StepsOf[c.flow]) /\ DOMAIN StepsOf[c.flow] = 1 .. Len(StepsOf[c.flow])
      BY <1>7, <2>1, <2>2
    <2>4. QED
      BY <1>6, <2>2, <2>3
  <1>9. SubOf[s0] = stack[n].flow
    BY <1>5, <1>6 DEF NestInv, ChainInv
  <1> HIDE DEF s0
  <1>10. /\ Len(stack') = n - 1
         /\ \A d \in 1 .. n - 1 : stack'[d].flow = stack[d].flow
         /\ \A d \in 1 .. n - 1 : \A i \in Nat : i < stack[d].at => i < stack'[d].at
         /\ c.at < stack'[n - 1].at
         /\ \A d \in 1 .. n - 2 : stack'[d] = stack[d]
    <2>1. /\ Len(stack') = n - 1
          /\ \A d \in 1 .. n - 1 : stack'[d].flow = callers[d].flow
          /\ \A d \in 1 .. n - 1 : \A i \in Nat : i < callers[d].at => i < stack'[d].at
          /\ c.at < stack'[n - 1].at
      BY <1>1, <1>3, <1>6, MovesForward
    <2>2. \A d \in 1 .. n - 2 : stack'[d] = callers[d]
      <3>1. n - 2 = Len(callers) - 1
        BY <1>3
      <3>2. QED
        BY <1>1, <1>3, <3>1, MovedOn
    <2>3. \A d \in 1 .. n - 2 : d \in 1 .. n - 1
      BY <1>3
    <2>4. QED
      BY <1>3, <2>1, <2>2, <2>3
  <1>11. DOMAIN context' = {s0} \cup DOMAIN context
    BY <1>1, ContextGrows
  <1>12. ChainInv'
    <2>1. stack'[1].flow = Main
      BY <1>2, <1>5, <1>10 DEF NestInv, ChainInv
    <2>2. ASSUME NEW d \in 1 .. Len(stack') - 1
          PROVE  SubOf[StepsOf[stack'[d].flow][stack'[d].at]] = stack'[d + 1].flow
      <3>1. d \in 1 .. n - 2 /\ d \in 1 .. n - 1 /\ d + 1 \in 1 .. n - 1
        BY <1>3, <1>10
      <3>2. QED
        BY <1>10, <3>1 DEF NestInv, ChainInv
    <2>3. \A d, e \in 1 .. Len(stack') : stack'[d].flow = stack'[e].flow => d = e
      BY <1>5, <1>10 DEF NestInv, ChainInv
    <2>4. QED
      BY <2>1, <2>2, <2>3 DEF ChainInv
  <1>13. ASSUME NEW f \in Flows, NEW i \in DOMAIN StepsOf[f], Past(f, i)
         PROVE  Past(f, i)'
    <2>1. i \in Nat
      BY WorkflowAssumption
    <2>2. CASE \E d \in 1 .. n - 1 : stack[d].flow = f /\ i < stack[d].at
      <3>1. PICK d \in 1 .. n - 1 : stack[d].flow = f /\ i < stack[d].at
        BY <2>2
      <3>2. stack'[d].flow = f /\ i < stack'[d].at
        BY <1>10, <2>1, <3>1
      <3>3. QED
        BY <1>10, <3>2 DEF Past
    <2>3. CASE stack[n].flow = f
      <3>1. \A d \in 1 .. n - 1 : stack[d].flow # f
        <4>1. \A d \in 1 .. n - 1 : d # n
          BY <1>3
        <4>2. QED
          BY <1>5, <2>3, <4>1 DEF NestInv, ChainInv
      <3>2. \A d \in 1 .. Len(stack') : stack'[d].flow # f
        BY <1>10, <3>1
      <3>3. s0 \in DOMAIN context' /\ SubOf[s0] = f
        BY <1>9, <1>11, <2>3
      <3>4. QED
        BY <3>2, <3>3 DEF Past
    <2>4. CASE /\ \A d \in 1 .. n : stack[d].flow # f
               /\ \E t \in DOMAIN context : SubOf[t] = f
      <3>1. \A d \in 1 .. Len(stack') : stack'[d].flow # f
        BY <1>5, <1>10, <2>4
      <3>2. \E t \in DOMAIN context' : SubOf[t] = f
        BY <1>11, <2>4
      <3>3. QED
        BY <3>1, <3>2 DEF Past
    <2>5. \A d \in 1 .. n : d = n \/ d \in 1 .. n - 1
      BY <1>3
    <2>6. QED
      BY <1>13, <2>2, <2>3, <2>4, <2>5 DEF Past
  <1>14. DoneInv'
    <2> SUFFICES ASSUME NEW s \in DOMAIN context'
                 PROVE  \E f \in Flows : \E i \in DOMAIN StepsOf[f] :
                            s = StepsOf[f][i] /\ Past(f, i)'
      BY DEF DoneInv
    <2>1. CASE s \in DOMAIN context
      BY <1>2, <1>13, <2>1 DEF NestInv, DoneInv
    <2>2. CASE s = s0
      <3>1. PICK f \in Flows, i \in DOMAIN StepsOf[c.flow] : f = c.flow /\ i = c.at
        BY <1>7, <1>8
      <3>2. \E d \in 1 .. Len(stack') : stack'[d].flow = f /\ i < stack'[d].at
        BY <1>5, <1>10, <3>1
      <3>3. Past(f, i)'
        BY <3>2 DEF Past
      <3>4. s = StepsOf[f][i] /\ i \in DOMAIN StepsOf[f]
        BY <1>6, <2>2, <3>1
      <3>5. QED
        BY <3>3, <3>4
    <2>3. QED
      BY <1>11, <2>1, <2>2
  <1>15. QED
    BY <1>12, <1>14 DEF NestInv

\* The calls under way and the places behind execute, from the beginning on.
LEMMA NestInductive ==
    ASSUME EachStepOnce
    PROVE  /\ Init => NestInv
           /\ FlowInv /\ NestInv /\ [Next]_vars => NestInv'
  <1>0. ASSUME NEW calls, calls = <<>>
        PROVE  1 .. Len(calls) = {} /\ 1 .. Len(calls) - 1 = {}
    BY <1>0
  <1>1. Init => NestInv
    BY <1>0 DEF Init, NestInv, ChainInv, DoneInv
  <1>2. ASSUME FlowInv, NestInv, [Next]_vars PROVE NestInv'
    <2>1. CASE stack' = stack /\ context' = context
      BY <1>2, <2>1 DEF NestInv, ChainInv, DoneInv, Past
    <2>2. CASE stack' = <<>>
      BY <1>0, <2>2 DEF NestInv, ChainInv, DoneInv
    <2>3. CASE Execute
      <3>1. /\ stack' = <<[flow |-> Main, at |-> 1]>> /\ Len(stack') = 1
            /\ 1 .. Len(stack') - 1 = {} /\ 1 .. Len(stack') = {1}
            /\ DOMAIN context' = {}
        BY <2>3 DEF Execute
      <3>2. QED
        BY <3>1 DEF NestInv, ChainInv, DoneInv
    <2>4. CASE SkipStep \/ ActionEnds \/ Collect
      <3>1. AtStep
        BY <1>2, <2>4 DEF SkipStep, ActionEnds, Collect, FlowInv, StackInv
      <3>2. \/ stack' = <<>>
            \/ /\ stack' = MoveOn(stack)
               /\ context' = context \/ \E result : Put(Step, result)
        <4>1. CASE SkipStep
          BY <4>1 DEF SkipStep
        <4>2. CASE ActionEnds
          BY <4>2 DEF ActionEnds, Raise
        <4>3. CASE Collect
          BY <4>3 DEF Collect, CollectResults, Raise
        <4>4. QED
          BY <2>4, <4>1, <4>2, <4>3
      <3>3. QED
        BY <1>2, <2>2, <3>1, <3>2, NestMoves DEF FlowInv
    <2>5. CASE BeginStep
      <3>1. \/ stack' = stack /\ context' = context
            \/ /\ AtStep /\ SubOf[Step] # None /\ context' = context
               /\ stack' = Append(stack, [flow |-> SubOf[Step], at |-> 1])
        BY <2>5 DEF BeginStep
      <3>2. QED
        BY <1>2, <2>1, <3>1, NestCalls
    <2>6. CASE FlowEnds
      BY <1>2, <2>2, <2>6, NestReturns
    <2>7. CASE \/ TryParallel \/ AllSubmitted \/ UNCHANGED vars
               \/ \E k \in DOMAIN tasks : TaskStarts(k) \/ TaskEnds(k)
      BY <2>1, <2>7 DEF TryParallel, AllSubmitted, TaskStarts, TaskEnds, vars
    <2>8. QED
      BY <1>2, <2>3, <2>4, <2>5, <2>6, <2>7 DEF Next
  <1>3. QED
    BY <1>1, <1>2

\* A step that execute begins has no result, and none of its actions is an action
\* of a step that has one.
LEMMA BeginsOnlyNew ==
    ASSUME EachStepOnce, FlowInv, NestInv
    PROVE  BeginsAfresh
  BY StepIsNew DEF BeginsAfresh, BeginStep, FlowInv

\* In workflows that name every step once, however they are nested, none is begun
\* again when there is a result of its actions.
THEOREM NothingBeginsTwice ==
    ASSUME EachStepOnce
    PROVE  Spec => NothingIsRepeated
  <1>1. Init => FlowInv /\ NestInv
    BY FlowInductive, NestInductive
  <1>2. FlowInv /\ NestInv /\ [Next]_vars => (FlowInv /\ NestInv)'
    BY FlowInductive, NestInductive
  <1>3. FlowInv /\ NestInv =>
            [BeginStep => \A s \in DOMAIN context : Actions(s) \cap Actions(Step) = {}]_vars
    BY BeginsOnlyNew DEF BeginsAfresh
  <1>4. QED
    BY <1>1, <1>2, <1>3, PTL DEF Spec, NothingIsRepeated

\* In such workflows the results in the context are those of steps none of whose
\* actions raised.
THEOREM ResultsStayWhole ==
    ASSUME EachStepOnce
    PROVE  Spec => []ResultsAreWhole
  <1> DEFINE Inv == FlowInv /\ NestInv /\ ResultInv
  <1>1. Init => Inv
    <2>1. Init => ResultInv
      BY DEF Init, ResultInv, ResultsAreWhole
    <2>2. QED
      BY <2>1, FlowInductive, NestInductive
  <1>2. Inv /\ [Next]_vars => Inv'
    BY FlowInductive, NestInductive, BeginsOnlyNew, ResultsKeep
  <1>3. Inv => ResultsAreWhole
    BY DEF ResultInv
  <1> HIDE DEF Inv
  <1>4. QED
    BY <1>1, <1>2, <1>3, PTL DEF Spec
=============================================================================
