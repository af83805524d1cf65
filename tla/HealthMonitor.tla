--------------------------- MODULE HealthMonitor ---------------------------
(***************************************************************************)
(* monitoring.py next to the pipeline: the counters a HealthMonitor keeps  *)
(* of the events of its process, and the health report that the end of a   *)
(* run writes into the status file (hub_integration.py).                   *)
(*                                                                         *)
(* The monitor is created, and subscribes to the event bus, when the first *)
(* status of a process is written, which is after its first run.  It lives *)
(* in memory: a crash takes it away.  It hears nothing while the event bus *)
(* is disabled, which the setting EVENT_BUS_ENABLED decides for the whole  *)
(* life of a process.  Every step here is a step of PipelineEngine         *)
(* together with what the monitor makes of its event.                      *)
(***************************************************************************)
EXTENDS PipelineEngine

CONSTANTS
    NoMonitor,  \* no monitor in the process
    NoHealth    \* no health section in the status file

VARIABLES
    enabled,    \* enabled[r]: EventBus.enabled in the process of relay r
    monitor,    \* monitor[r]: the counters of relay r's monitor
    health      \* health section of the status file

healthVars == <<vars, enabled, monitor, health>>

\* The three totals of HealthMonitor.  "duplicates" and "oldPending" are not in
\* the code: DuplicateDetected events since the monitor subscribed, and the rows
\* that were pending then.
Monitors == [fetched : Nat, published : Nat, failed : Nat,
             duplicates : Nat, oldPending : Nat]

HealthReports == [status : {"active", "degraded", "error"},
                  fetched : Nat, published : Nat, failed : Nat,
                  dbPublished : Nat, dbPending : Nat]

HealthTypeOK ==
    /\ enabled \in [Relays -> BOOLEAN]
    /\ monitor \in [Relays -> Monitors \cup {NoMonitor}]
    /\ health \in HealthReports \cup {NoHealth}

----------------------------------------------------------------------------

\* SELECT COUNT(*) FROM posts WHERE status = ...
CountRows(status) == Cardinality({k \in Keys : HasKey(posts, k) /\ posts[k].status = status})

NewMonitor == [fetched |-> 0, published |-> 0, failed |-> 0,
               duplicates |-> 0, oldPending |-> CountRows("pending")]

HealthInit ==
    /\ Init
    /\ enabled \in [Relays -> BOOLEAN]
    /\ monitor = [r \in Relays |-> NoMonitor]
    /\ health = NoHealth

\* The event a step publishes, if it publishes one.
StepEmits(r, name) ==
    /\ Len(events'[r]) > Len(events[r])
    /\ events'[r][Len(events'[r])] = name

\* Mutants of Counted: a failure is not counted; a completion is counted when
\* the publishing starts.
CountedWithoutFailures(m, r) ==
    [m EXCEPT !.published = IF StepEmits(r, "PublishingCompleted") THEN @ + 1 ELSE @,
              !.duplicates = IF StepEmits(r, "DuplicateDetected") THEN @ + 1 ELSE @]
CountedAtStart(m, r) ==
    [m EXCEPT !.published = IF StepEmits(r, "PublishingStarted") THEN @ + 1 ELSE @,
              !.failed = IF StepEmits(r, "ProcessingFailed") THEN @ + 1 ELSE @,
              !.duplicates = IF StepEmits(r, "DuplicateDetected") THEN @ + 1 ELSE @]

\* HealthMonitor.on_event for the events of a post.
Counted(m, r) ==
    [m EXCEPT !.published = IF StepEmits(r, "PublishingCompleted") THEN @ + 1 ELSE @,
              !.failed = IF StepEmits(r, "ProcessingFailed") THEN @ + 1 ELSE @,
              !.duplicates = IF StepEmits(r, "DuplicateDetected") THEN @ + 1 ELSE @]

\* A monitor hears an event when the bus is enabled: EventBus.publish returns at
\* once when it is not.
Watching(r) == monitor[r] # NoMonitor

Hears(r) == Watching(r) /\ enabled[r]

Observe(r) ==
    /\ monitor' = IF Hears(r) THEN [monitor EXCEPT ![r] = Counted(@, r)] ELSE monitor
    /\ UNCHANGED <<enabled, health>>

\* CollectorStage publishes ContentReceived for every post of the page.
ObserveFetch(r) ==
    /\ monitor' = IF Hears(r) THEN [monitor EXCEPT ![r].fetched = @ + Len(batch'[r])]
                  ELSE monitor
    /\ UNCHANGED <<enabled, health>>

\* The rule of get_health_report: error_rate > 50 is "more failures than
\* publications"; a missing token alone leaves the status as it is.
OverallStatus(database, fetcher, publisher, m) ==
    IF database = "error" THEN "error"
    ELSE IF \/ fetcher = "unavailable" \/ publisher = "error" \/ m.failed > m.published
         THEN "degraded"
         ELSE "active"

\* get_health_report, for whatever answer the three probes get.  A database that
\* fails after `read' of the two counts leaves the others at zero; 3 is no failure.
ReportsOf(m) ==
    {[status |-> OverallStatus(IF read = 3 THEN "connected" ELSE "error",
                               fetcher, publisher, m),
      fetched |-> m.fetched, published |-> m.published, failed |-> m.failed,
      dbPublished |-> IF read > 0 THEN CountRows("published") ELSE 0,
      dbPending |-> IF read > 1 THEN CountRows("pending") ELSE 0] :
         read \in 0 .. 3, fetcher \in {"available", "unavailable"},
         publisher \in {"connected", "degraded", "error"}}

\* get_health_monitor: the process's monitor, created when there is none.
Subscribed(r) == IF monitor[r] = NoMonitor THEN NewMonitor ELSE monitor[r]

\* report_hub_status at the end of a run.  No monitor is asked for when the
\* library yasinhub writes the status, in a form of its own, and when the status
\* directory cannot be made; when the configuration cannot be loaded the status
\* is written without its health section; a file that was cut has none.
EndRunAndReport(r) ==
    /\ EndRun(r)
    /\ \/ UNCHANGED monitor /\ health' \in {health, NoHealth}
       \/ /\ monitor' = [monitor EXCEPT ![r] = Subscribed(r)]
          /\ \/ health' \in ReportsOf(Subscribed(r)) \cup {NoHealth}
             \/ hub' = hub /\ UNCHANGED health
    /\ hub' = "cut" => health' = NoHealth
    /\ UNCHANGED enabled

\* The process that follows reads EVENT_BUS_ENABLED anew.
CrashAndForget(r) ==
    /\ Crash(r)
    /\ \E on \in BOOLEAN : enabled' = [enabled EXCEPT ![r] = on]
    /\ monitor' = [monitor EXCEPT ![r] = NoMonitor]
    /\ health' = IF hub' = "cut" THEN NoHealth ELSE health

HealthStep(r) ==
    \/ FetchPage(r) /\ ObserveFetch(r)
    \/ StageStep(r) /\ Observe(r)
    \/ (StartRun(r) \/ FetchFails(r) \/ StartItem(r) \/ EndChannel(r))
       /\ UNCHANGED <<enabled, monitor, health>>
    \/ EndRunAndReport(r)
    \/ CrashAndForget(r)

HealthNext == \E r \in Relays : HealthStep(r)

HealthSpec == HealthInit /\ [][HealthNext]_healthVars

----------------------------------------------------------------------------
(* Properties *)

\* Between two posts the totals account for everything the process received
\* since it subscribed: a post was published, failed or was a duplicate.  (They
\* may count more: a stage that raises is counted twice, and a post whose AI
\* processing failed is counted as failed and as published.)
FetchedIsAccountedFor ==
    \A r \in Relays : Watching(r) /\ pc[r] \in {"idle", "channel", "item"} =>
        monitor[r].fetched
            <= monitor[r].published + monitor[r].failed + monitor[r].duplicates + Len(batch[r])

\* Neither the totals nor a report written by any earlier process ever claim more
\* publications than the table has published rows, over any number of runs and
\* crashes (a database with one relay).
PublishedIsCovered ==
    /\ \A r \in Relays : Watching(r) => monitor[r].published <= CountRows("published")
    /\ health # NoHealth /\ health.status # "error" => health.published <= health.dbPublished

\* A monitor whose event bus is enabled sees every row that gets stuck: a row is
\* pending between runs only if its failure is in the totals, or if it was pending
\* when the monitor subscribed.  (With EVENT_BUS_ENABLED=false the monitor is
\* there and its totals stay 0, so they tell nothing of the table.)
StuckIsCounted ==
    \A r \in Relays : Hears(r) /\ At(r, "idle") =>
        CountRows("pending") <= monitor[r].oldPending + monitor[r].failed

----------------------------------------------------------------------------
(* The invariants the proofs go by *)

\* Whatever the keys are, finitely many of them have a row.
RowsAreFinite == IsFiniteSet({k \in Keys : HasKey(posts, k)})

\* The current item is at its end, and the event that tells its fate is counted.
IsCounted(r) == At(r, "finish") /\ ~Failed(ctx[r])

\* The totals account for all but the batch, whose first item may be counted already.
Accounted ==
    \A r \in Relays : Hears(r) =>
        monitor[r].fetched + (IF IsCounted(r) THEN 1 ELSE 0)
            <= monitor[r].published + monitor[r].failed + monitor[r].duplicates + Len(batch[r])

\* A monitor that hears nothing has counted nothing.
DeafIsEmpty ==
    \A r \in Relays : Watching(r) /\ ~enabled[r] =>
        monitor[r].fetched = 0 /\ monitor[r].published = 0

HealthInv == HealthTypeOK /\ RowsAreFinite /\ Accounted /\ DeafIsEmpty

\* With one relay the row of the current item waits for its mark.
CurrentIsPending ==
    \A r \in Relays : pc[r] \in {"age", "ai", "media", "publish", "mark"} =>
        posts[Post(r).key].status = "pending"

\* The current item may have a pending row whose failure is yet to be counted.
IsOpen(r) ==
    \/ pc[r] \in {"age", "ai", "media", "publish", "mark"}
    \/ At(r, "finish") /\ Failed(ctx[r])

StuckOrOpen ==
    \A r \in Relays : Hears(r) =>
        CountRows("pending")
            <= monitor[r].oldPending + monitor[r].failed + (IF IsOpen(r) THEN 1 ELSE 0)

OneRelayHealthInv ==
    HealthInv /\ CurrentIsPending /\ StuckOrOpen /\ PublishedIsCovered
=============================================================================
