----------------------------- MODULE Scheduler -----------------------------
(***************************************************************************)
(* Scheduler (scheduler.py) running the relay in a loop: its task is a run *)
(* of the pipeline, of which the calls of EitaaPublisher.publish are kept. *)
(* Another thread may call stop, and the user may press Ctrl-C.            *)
(*                                                                         *)
(*   "new"    start has not been called                                    *)
(*   "check"  the condition of the outer loop                              *)
(*   "task"   in task()                                                    *)
(*   "sleep"  the condition of the inner loop                              *)
(*   "nap"    in time.sleep(1)                                             *)
(*   "ended"  start has returned                                           *)
(***************************************************************************)
EXTENDS EitaaPublisher

CONSTANTS
    Interval,   \* interval_seconds, at least 1
    MaxPosts,   \* bound: posts a task publishes
    MaxStarts   \* bound: calls of start

ASSUME SchedulerAssumption ==
    Interval \in Nat \ {0} /\ MaxPosts \in Nat /\ MaxStarts \in Nat

VARIABLES
    running,    \* _running
    loop,       \* program point of start
    elapsed,    \* naps of the inner loop
    napped,     \* whether the current second of sleep is over
    taskPosts,  \* posts the current task has published or tried to
    starts,     \* calls of start
    rested      \* history: time since the last task ended, Interval at most

schedulerVars == <<running, loop, elapsed, napped, taskPosts, starts, rested>>
vars == <<publisherVars, schedulerVars>>

TypeOK ==
    /\ PublisherTypeOK
    /\ running \in BOOLEAN
    /\ loop \in {"new", "check", "task", "sleep", "nap", "ended"}
    /\ elapsed \in 0 .. Interval
    /\ napped \in BOOLEAN
    /\ taskPosts \in 0 .. MaxPosts
    /\ starts \in 0 .. MaxStarts
    /\ rested \in 0 .. Interval
    /\ point # "free" => loop = "task"

----------------------------------------------------------------------------

Init ==
    /\ PublisherInit
    /\ running = FALSE
    /\ loop = "new"
    /\ elapsed = 0
    /\ napped = FALSE
    /\ taskPosts = 0
    /\ starts = 0
    /\ rested = Interval

Start ==
    /\ loop \in {"new", "ended"}
    /\ starts < MaxStarts
    /\ starts' = starts + 1
    /\ running' = TRUE
    /\ loop' = "check"
    /\ rested' = Interval
    /\ UNCHANGED <<publisherVars, elapsed, napped, taskPosts>>

\* Mutant of CheckRunning: the loop sets the flag again.
CheckRunningOrRestart ==
    /\ loop = "check"
    /\ running' = TRUE
    /\ loop' = "task"
    /\ taskPosts' = 0
    /\ UNCHANGED <<publisherVars, elapsed, napped, starts, rested>>

\* while self._running; the finally clause clears the flag on the way out.
CheckRunning ==
    /\ loop = "check"
    /\ loop' = IF running THEN "task" ELSE "ended"
    /\ taskPosts' = 0
    /\ UNCHANGED <<publisherVars, running, elapsed, napped, starts, rested>>

PublishPost ==
    /\ loop = "task"
    /\ taskPosts < MaxPosts
    /\ BeginPublish
    /\ taskPosts' = taskPosts + 1
    /\ UNCHANGED <<running, loop, elapsed, napped, starts, rested>>

GoOnPublishing == PublisherStep /\ UNCHANGED schedulerVars

\* The task returns, or it raises and start logs the exception.
TaskEnds ==
    /\ loop = "task"
    /\ point = "free"
    /\ loop' = "sleep"
    /\ elapsed' = 0
    /\ rested' = 0
    /\ UNCHANGED <<publisherVars, running, napped, taskPosts, starts>>

\* Mutant of CheckElapsed: one second less.
CheckElapsedEarly ==
    /\ loop = "sleep"
    /\ IF elapsed + 1 < Interval /\ running
       THEN loop' = "nap" /\ napped' = FALSE
       ELSE loop' = "check" /\ UNCHANGED napped
    /\ UNCHANGED <<publisherVars, running, elapsed, taskPosts, starts, rested>>

CheckElapsed ==
    /\ loop = "sleep"
    /\ IF elapsed < Interval /\ running
       THEN loop' = "nap" /\ napped' = FALSE
       ELSE loop' = "check" /\ UNCHANGED napped
    /\ UNCHANGED <<publisherVars, running, elapsed, taskPosts, starts, rested>>

NapEnds ==
    /\ loop = "nap"
    /\ napped
    /\ elapsed' = elapsed + 1
    /\ loop' = "sleep"
    /\ UNCHANGED <<publisherVars, running, napped, taskPosts, starts, rested>>

\* KeyboardInterrupt ends start wherever it is, in the middle of a POST too.
Interrupt ==
    /\ loop \notin {"new", "ended"}
    /\ running' = FALSE
    /\ loop' = "ended"
    /\ AbortPublish
    /\ UNCHANGED <<elapsed, napped, taskPosts, starts, rested>>

\* stop, called by another thread at any time, before start as well.
Stop ==
    /\ running' = FALSE
    /\ UNCHANGED <<publisherVars, loop, elapsed, napped, taskPosts, starts, rested>>

Tick ==
    /\ PublisherTick
    /\ napped' = (loop = "nap" \/ napped)
    /\ rested' = IF rested < Interval THEN rested + 1 ELSE rested
    /\ UNCHANGED <<running, loop, elapsed, taskPosts, starts>>

LoopStep ==
    CheckRunning \/ PublishPost \/ GoOnPublishing \/ TaskEnds \/ CheckElapsed \/ NapEnds

Next == Start \/ LoopStep \/ Interrupt \/ Stop \/ Tick

Spec == Init /\ [][Next]_vars

\* The thread of start runs on and time passes; every call in a task has a
\* timeout (30 s for a download and for a POST).  Nobody has to call start or stop.
FairSpec == Spec /\ WF_vars(LoopStep) /\ WF_vars(Tick)

----------------------------------------------------------------------------
(* Properties *)

PublishingInv == TypeOK /\ SpacingInv

\* A task begins only after a rest of interval_seconds since the last one ended,
\* by the wall and not by the count of naps (except the first after start).
TasksRest == [][loop = "check" /\ loop' = "task" => rested >= Interval]_vars

\* A stop that comes after the first statement of start ends it, whatever the
\* task is doing, as long as start is not called again.
StopEnds == loop \notin {"new", "ended"} /\ ~running ~> loop = "ended"
=============================================================================
