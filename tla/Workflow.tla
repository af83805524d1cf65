------------------------------ MODULE Workflow ------------------------------
(***************************************************************************)
(* agent/workflow.py: execute goes through the steps of a workflow.  A     *)
(* step runs one action in the caller's thread, or its parallel steps on a *)
(* pool of threads, or another workflow; results go to the context that    *)
(* all of them share.                                                      *)
(*                                                                         *)
(* Conditions and actions are the user's code: a condition says yes or no  *)
(* (or raises, which should_execute takes for no) and an action returns or *)
(* raises.  The actions already submitted run while the conditions of the  *)
(* parallel steps after them are evaluated.                                *)
(***************************************************************************)
EXTENDS Naturals, Sequences, FiniteSets

CONSTANTS
    Steps,
    Flows,      \* workflows
    Main,       \* the workflow that is executed
    None,
    StepsOf,    \* [Flows -> Seq(Steps)]: Workflow.steps
    ParallelOf, \* [Steps -> Seq(Steps)]: WorkflowStep.parallel_steps
    SubOf,      \* [Steps -> Flows \cup {None}]: WorkflowStep.sub_workflow
    Workers     \* threads of the pool

ASSUME WorkflowAssumption ==
    /\ Main \in Flows /\ None \notin Flows
    /\ StepsOf \in [Flows -> Seq(Steps)]
    /\ ParallelOf \in [Steps -> Seq(Steps)]
    /\ SubOf \in [Steps -> Flows \cup {None}]
    /\ Workers \in Nat \ {0}

VARIABLES
    outcome,    \* of the last call of execute
    stack,      \* the calls of execute under way: workflow and step
    phase,      \* where the innermost call is
    tried,      \* parallel steps whose condition was evaluated
    tasks,      \* the futures of the last pool
    context,    \* the results this execution has put in the context, by step
    called,     \* history: steps whose action was called in this execution
    failed      \* history: steps whose action raised in this execution

vars == <<outcome, stack, phase, tried, tasks, context, called, failed>>

Tasks == [step : Steps, state : {"queued", "running", "returned", "raised"}]

TypeOK ==
    /\ outcome \in {"running", "returned", "raised"}
    /\ stack \in Seq([flow : Flows, at : Nat])
    /\ phase \in {"condition", "action", "submit", "collect", "none"}
    /\ tried \in Nat
    /\ tasks \in Seq(Tasks)
    /\ DOMAIN context \subseteq Steps
    /\ called \subseteq Steps /\ failed \subseteq called

----------------------------------------------------------------------------

Top == stack[Len(stack)]

\* The step the innermost call is at.
Step == StepsOf[Top.flow][Top.at]

AtStep == stack # <<>> /\ Top.at <= Len(StepsOf[Top.flow])

MoveOn(calls) == [calls EXCEPT ![Len(calls)].at = @ + 1]

Init ==
    /\ outcome = "returned"
    /\ stack = <<>> /\ phase = "none"
    /\ tried = 0 /\ tasks = <<>>
    /\ context = <<>>
    /\ called = {} /\ failed = {}

\* A call of execute.  The caller's context may hold anything: execute reads it
\* only through the user's conditions and actions, which may be and do anything here.
Execute ==
    /\ outcome # "running"
    /\ outcome' = "running"
    /\ stack' = <<[flow |-> Main, at |-> 1]>> /\ phase' = "condition"
    /\ tried' = 0 /\ tasks' = <<>>
    /\ context' = <<>>
    /\ called' = {} /\ failed' = {}

\* The result of a step is put in the context.
Put(s, result) ==
    context' = [t \in {s} \cup DOMAIN context |-> IF t = s THEN result ELSE context[t]]

\* The condition of the step does not hold, or it raises.
SkipStep ==
    /\ phase = "condition" /\ AtStep
    /\ stack' = MoveOn(stack)
    /\ UNCHANGED <<outcome, phase, tried, tasks, context, called, failed>>

BeginStep ==
    /\ phase = "condition" /\ AtStep
    /\ \/ /\ ParallelOf[Step] # <<>>
          /\ phase' = "submit" /\ tried' = 0 /\ tasks' = <<>>
          /\ UNCHANGED <<stack, called>>
       \/ /\ ParallelOf[Step] = <<>> /\ SubOf[Step] # None
          /\ stack' = Append(stack, [flow |-> SubOf[Step], at |-> 1])
          /\ UNCHANGED <<phase, tried, tasks, called>>
       \/ /\ ParallelOf[Step] = <<>> /\ SubOf[Step] = None
          /\ phase' = "action"
          /\ called' = called \cup {Step}
          /\ UNCHANGED <<stack, tried, tasks>>
    /\ UNCHANGED <<outcome, context, failed>>

\* An exception that no execute catches.
Raise ==
    /\ outcome' = "raised"
    /\ stack' = <<>> /\ phase' = "none"

\* Mutant of ActionEnds: the exception of an action is logged and forgotten.
ActionEndsAndGoesOn ==
    /\ phase = "action"
    /\ failed' \in {failed, failed \cup {Step}}
    /\ stack' = MoveOn(stack) /\ phase' = "condition"
    /\ UNCHANGED <<outcome, tried, tasks, context, called>>

\* The action of a sequential step ends.
ActionEnds ==
    /\ phase = "action"
    /\ \/ /\ Put(Step, <<Step>>)
          /\ stack' = MoveOn(stack) /\ phase' = "condition"
          /\ UNCHANGED <<outcome, failed>>
       \/ /\ failed' = failed \cup {Step}
          /\ Raise
          /\ UNCHANGED context
    /\ UNCHANGED <<tried, tasks, called>>

\* The condition of the next parallel step is evaluated, and its action
\* submitted if it holds.
TryParallel ==
    /\ phase = "submit"
    /\ tried < Len(ParallelOf[Step])
    /\ tried' = tried + 1
    /\ tasks' \in {tasks, Append(tasks, [step |-> ParallelOf[Step][tried + 1],
                                         state |-> "queued"])}
    /\ UNCHANGED <<outcome, stack, phase, context, called, failed>>

AllSubmitted ==
    /\ phase = "submit"
    /\ tried = Len(ParallelOf[Step])
    /\ phase' = "collect"
    /\ UNCHANGED <<outcome, stack, tried, tasks, context, called, failed>>

In(state) == {k \in DOMAIN tasks : tasks[k].state = state}

\* A free thread of the pool takes the first action of the queue.
TaskStarts(k) ==
    /\ k \in In("queued") /\ \A j \in In("queued") : k <= j
    /\ Cardinality(In("running")) < Workers
    /\ tasks' = [tasks EXCEPT ![k].state = "running"]
    /\ called' = called \cup {tasks[k].step}
    /\ UNCHANGED <<outcome, stack, phase, tried, context, failed>>

TaskEnds(k) ==
    /\ k \in In("running")
    /\ \/ /\ tasks' = [tasks EXCEPT ![k].state = "returned"]
          /\ UNCHANGED failed
       \/ /\ tasks' = [tasks EXCEPT ![k].state = "raised"]
          /\ failed' = failed \cup {tasks[k].step}
    /\ UNCHANGED <<outcome, stack, phase, tried, context, called>>

\* Mutant of CollectResults: an exception is taken for a result.
CollectDespiteFailures ==
    /\ Put(Step, [k \in DOMAIN tasks |-> tasks[k].step])
    /\ stack' = MoveOn(stack) /\ phase' = "condition"
    /\ UNCHANGED outcome

\* The results are put in the context, or the first exception leaves the loop
\* over the futures.  The mutant does so as soon as a future has raised.
CollectResults ==
    \/ /\ In("raised") = {}
       /\ Put(Step, [k \in DOMAIN tasks |-> tasks[k].step])
       /\ stack' = MoveOn(stack) /\ phase' = "condition"
       /\ UNCHANGED outcome
    \/ /\ In("raised") # {}
       /\ Raise
       /\ UNCHANGED context

CollectAtOnce ==
    /\ phase = "collect"
    /\ In("raised") # {} \/ In("queued") \cup In("running") = {}
    /\ CollectResults
    /\ UNCHANGED <<tried, tasks, called, failed>>

\* The pool's exit waits for all actions, the queued ones too, also when a
\* future has raised.
Collect ==
    /\ phase = "collect"
    /\ In("queued") \cup In("running") = {}
    /\ CollectResults
    /\ UNCHANGED <<tried, tasks, called, failed>>

\* Mutant of FlowEnds: the step that called a workflow is executed again.
FlowEndsAndRepeats ==
    /\ phase = "condition" /\ ~AtStep /\ Len(stack) > 1
    /\ LET caller == stack[Len(stack) - 1] IN
       Put(StepsOf[caller.flow][caller.at], <<>>)
    /\ stack' = SubSeq(stack, 1, Len(stack) - 1)
    /\ UNCHANGED <<outcome, phase, tried, tasks, called, failed>>

\* The innermost execute returns: to the step that called it, or to the caller.
FlowEnds ==
    /\ phase = "condition" /\ ~AtStep
    /\ LET callers == SubSeq(stack, 1, Len(stack) - 1) IN
       \/ /\ callers = <<>>
          /\ outcome' = "returned"
          /\ stack' = <<>> /\ phase' = "none"
          /\ UNCHANGED context
       \/ /\ callers # <<>>
          /\ LET caller == callers[Len(callers)] IN
             Put(StepsOf[caller.flow][caller.at], <<>>)
          /\ stack' = MoveOn(callers)
          /\ UNCHANGED <<outcome, phase>>
    /\ UNCHANGED <<tried, tasks, called, failed>>

Next ==
    \/ Execute \/ SkipStep \/ BeginStep \/ ActionEnds
    \/ TryParallel \/ AllSubmitted \/ Collect \/ FlowEnds
    \/ \E k \in DOMAIN tasks : TaskStarts(k) \/ TaskEnds(k)

Spec == Init /\ [][Next]_vars

----------------------------------------------------------------------------
(* Properties *)

Siblings(s, t) ==
    \E p \in Steps : {s, t} \subseteq {ParallelOf[p][k] : k \in DOMAIN ParallelOf[p]}

\* Nothing runs behind the caller's back: an action of a parallel step is queued
\* or running only while execute is at that step, and never once execute has
\* returned or raised.
StepsDontOverlap ==
    /\ TypeOK
    /\ In("queued") \cup In("running") # {} =>
           /\ phase \in {"submit", "collect"}
           /\ \A k \in DOMAIN tasks : \E j \in DOMAIN ParallelOf[Step] :
                  tasks[k].step = ParallelOf[Step][j]

\* The steps whose actions a step calls, if it executes no other workflow.
Actions(s) == {s} \cup {ParallelOf[s][k] : k \in DOMAIN ParallelOf[s]}

\* A step has a result in the context only if none of its actions raised, also
\* when parallel ones raise while others still run.
ResultsAreWhole == \A s \in DOMAIN context : Actions(s) \cap failed = {}

\* Workflows that name every step once: no two places have an action or a workflow
\* in common, and none has the workflow that is executed.
EachStepOnce ==
    /\ \A f, g \in Flows : \A i \in DOMAIN StepsOf[f], j \in DOMAIN StepsOf[g] :
           \/ Actions(StepsOf[f][i]) \cap Actions(StepsOf[g][j]) # {}
           \/ SubOf[StepsOf[f][i]] = SubOf[StepsOf[g][j]] /\ SubOf[StepsOf[f][i]] # None
           => f = g /\ i = j
    /\ \A s \in Steps : SubOf[s] # Main

\* In workflows that name every step once, a step is not begun again when there is
\* a result of its actions: execute comes back from every workflow to the step
\* behind the one that called it.
NothingIsRepeated ==
    [][BeginStep => \A s \in DOMAIN context : Actions(s) \cap Actions(Step) = {}]_vars

\* Once an action has raised, no other is started in the same execution, but for
\* the parallel steps next to it.
StopsAtFailure ==
    [][outcome = "running" =>
           \A s \in called' \ called, f \in failed : Siblings(s, f)]_vars

----------------------------------------------------------------------------
(* The invariants the proofs go by, in workflows that name every step once *)

\* Every call under way was made by the step the one below it is at, and no
\* workflow is called twice.
ChainInv ==
    /\ stack # <<>> => stack[1].flow = Main
    /\ \A d \in 1 .. Len(stack) - 1 :
           SubOf[StepsOf[stack[d].flow][stack[d].at]] = stack[d + 1].flow
    /\ \A d, e \in 1 .. Len(stack) : stack[d].flow = stack[e].flow => d = e

\* The place is behind execute: in a call under way that has moved past it, or in
\* a workflow that has returned to the step that called it.
Past(f, i) ==
    \/ \E d \in 1 .. Len(stack) : stack[d].flow = f /\ i < stack[d].at
    \/ /\ \A d \in 1 .. Len(stack) : stack[d].flow # f
       /\ \E t \in DOMAIN context : SubOf[t] = f

\* Only steps at places behind execute have results.
DoneInv ==
    stack # <<>> =>
        \A s \in DOMAIN context : \E f \in Flows : \E i \in DOMAIN StepsOf[f] :
            s = StepsOf[f][i] /\ Past(f, i)
=============================================================================
