# TLA+ specifications of YasinRelay

YasinRelay copies the posts of public Telegram channels to an Eitaa channel: a Go
fetcher reads a channel's web page, a Python pipeline cleans each post, looks it
up in a SQLite table, has it rewritten, and publishes it through the Eitaa bot
API. A message router, a health monitor, a web client and an agent toolkit stand
beside the pipeline. This directory holds the TLA+ specifications of the system,
the TLC runs that check them on small instances, and the theorems TLAPS proves
of them for every instance.

    tlc -config MCPipelineEngine.cfg MCPipelineEngine      # a run
    tlapm PipelineEngineProofs.tla                         # the proofs of a module

`PROJECT.json` lists the runs with their properties, the lines of source each
definition stands for, the mutants that show each property can fail, and the
hazards of the code.

## The system

| component | state | operations | what makes it correct | module |
|---|---|---|---|---|
| relay pipeline (`pipeline.py`, `pipeline_engine.py`) | per run: reports, the page of the current channel, the `PipelineContext` of the current post | `run`, `run_channel`, the seven stages, `PipelineManager.execute` | a post reaches Eitaa at most once; the table tells the truth; every post is accounted for; a run ends | `PipelineEngine` |
| database (`storage/`) | the table `posts`, one row per (source, message id), with a content hash and a status | `exists`, `save_post`, `mark_published` | rows are never lost; `published` is final | `RelayDatabase` |
| message router (`router.py`) | rules, transports, the dead-letter queue; rows of the same table | `add_rule`, `register_transport`, `route`, `retry_failed_messages` | priority; no letter lost; no message sent twice without cause | `MessageRouter` |
| Eitaa publisher (`eitaa_publisher.py`) | time of the last answer | `publish` | POSTs keep their distance | `EitaaPublisher` |
| scheduler (`scheduler.py`) | a running flag, a count of naps | `start`, `stop` | stops when told to, rests between tasks, survives a failing task | `Scheduler` |
| event bus (`event_bus.py`) | handlers by event name | `subscribe`, `unsubscribe`, `clear`, `publish` | each subscription is called once per event, whatever handlers do | `EventBus` |
| health monitor, hub (`monitoring.py`, `hub_integration.py`) | totals since the subscription; one status file | `on_event`, `get_health_report`, `report_hub_status` | the totals agree with what happened and with the table | `HealthMonitor` |
| start and configuration (`cli.py`, `config.py`, `yasinai_adapter.py`, `ai_processor.py`) | `.env`, `os.environ`, the content processor | `configure_interactively`, `_write_env`, `load_config`, `build_content_processor` | what was saved is what the next process runs with; a processor hands on a text | `Startup` |
| agent workflows (`agent/workflow.py`) | a context shared by the steps | `execute` | steps in order, no work behind the caller's back, a failure stops the rest | `Workflow` |
| Telemirror client (`telemirror/client.go`) | sticky attempt, time of the last request, a mutex | `FetchHTML`, `FetchURLLimit`, `waitForRate` | every attempt once; the pace; requests return | `TelemirrorClient` |
| web client (`web/app.js`) | saved list, cache, current channel, feed | `loadChannel`, `removeChannel` | shows the channel asked for last; forgets what is removed | `WebClient` |
| parser, URL checks, HTTP handlers (Go); SDK; rest of `agent/` | - | pure functions, one-step look-ups | - | not modelled |

The components meet in a few places. The pipeline calls the fetcher, the
processors and the publisher one after the other and waits for each; it shares
the table with every other relay process that has the same `DATABASE_PATH`, and
with a router that is given the database. Events go from the pipeline and the
router to handlers in the same thread; the health monitor is one of them, and its
report goes into the status file that all relays of a host write. The scheduler
calls the pipeline in its own thread. The Go server handles each request of the web
client in a goroutine, and all of them share one Telemirror client.

What is hard in it: two processes between the query and the insert of duplicate
detection; a crash, a refusal or a timeout between the insert, the POST and the
mark; posts that are edited, forwarded or reposted between two fetches; errors
of the database in the middle of a retry; callbacks that come back while the
caller still uses what it read. The `hazards` of `PROJECT.json` place each of
them at its line.

## The modules

| module | what it is |
|---|---|
| `RelayDatabase` | the table and its three transactions as operators |
| `PipelineEngine` | the relays: state, steps, properties, invariants |
| `PostLifecycle` | abstract specification: claim, execute, record, each once |
| `MCPipelineEngine` | instances of `PipelineEngine` for TLC |
| `PipelineEngineProofs` | theorems for any number of relays; for a single one, with the refinement; about events, reports and the hub's status; about the health monitor |
| `MessageRouter` | the router, its queue and its retry |
| `MessageRouterProofs` | theorems about the router |
| `EitaaPublisher` | a call of `publish`, with the time it takes |
| `Scheduler` | the loop that runs the pipeline, extending `EitaaPublisher` |
| `SchedulerProofs` | theorems about the loop and the spacing of POSTs |
| `EventDelivery` | abstract specification: what a publish owes its subscribers |
| `EventBus` | the bus, with re-entrant handlers |
| `EventBusProofs` | the refinement of `EventDelivery` |
| `HealthMonitor` | the monitor and its report, extending `PipelineEngine` |
| `Startup` | the start of the command line |
| `StartupProofs` | theorems about any settings, prompts and files |
| `Places` | the elements a loop keeps of a list, by their places |
| `Workflow` | `Workflow.execute` with its thread pool |
| `WorkflowProofs` | theorems about any workflows and about such as name every step once |
| `TelemirrorClient` | concurrent requests on one Go client |
| `TelemirrorProofs` | theorems about any number of requests |
| `WebClient` | the page of the web client |
| `WebClientProofs` | theorems about any channels and loads |
| `MC...` | instances of these modules for TLC (`Scheduler` needs none) |

### PipelineEngine

A relay is a sequential process with a program counter. `StartRun`, `FetchPage`,
`FetchFails`, `StartItem`, `EndChannel` and `EndRun` are the loops of
`Pipeline.run` and `run_channel`; `Normalize`, `Validate`, `Lookup`, `Save`,
`FilterAge`, `RunAI`, `RunMedia`, `Publish` and `Mark` are the stages, `Finish`
is the end of `PipelineManager.execute`; `Crash` is the death of the process, on
which everything but the table and the status file is lost. Duplicate detection is
two steps because its query and its insert are two transactions, and publishing
is two because the POST and the UPDATE are. An exception that leaves a stage is
`StageRaises`, the handler of `execute`. A stage returns at once for a context that
is invalid or a duplicate, so these verdicts lead straight to `Finish`.

What is abstracted:

- Texts are a small set with a function `Strip`; a post has media or not. The
  content hash is the pair of both: SHA-256 is taken to be injective, and the
  concatenation of text and URL to be unambiguous.
- The environment chooses the page a fetch returns, so a post can be edited,
  vanish or come back between two runs; it chooses whether a dated post is too old.
- The wording of the AI processor is not tracked: an item keeps the content it was
  saved under. A processor succeeds or raises.
- A POST is executed and acknowledged, or refused, or it raises, and then Eitaa may
  have executed it or not. An answer with status 200 that is not JSON counts as
  executed, as the publisher assumes.
- A fetch returns any posts of its channel, a post twice if the fetcher says so, but no
  more than `Limit`: the fetcher's command cuts its output there. A write of the
  status file that fails leaves the earlier status or a cut file (`"cut"`).
- Events are names, kept for the current item only. `Emit` is the pipeline's call of
  `event_bus.publish`, heard or not: whether the bus is enabled is `HealthMonitor`'s.
  `ContentReceived` is observed there too. The command line always gives the pipeline a database, so
  a pipeline without one is not modelled.
- A report keeps sums over the channels. `duplicates` is an addition: it counts
  what the code's reports leave out, so that a property can balance the books.

`delivered` counts, per relay, the POSTs of an item that Eitaa executed. It is the
part of the world the code never sees and the properties are about.

### MessageRouter

One caller drives the router (there is no lock in it, and nothing in the code calls
it from several threads). `BeginRoute`, `Query`, `Insert`, `Send` and `MarkRouted`
are `route`; `BeginRetry`, `RetryNext`, `Requery`, `Reinsert`, `Resend`,
`Remark` and `EndRetry` are `retry_failed_messages`. They differ in ways that
matter: a retry looks up the key alone, keeps a message the transport answered
`False` for, and calls the database outside its `try` block, after the queue was
cleared (`LoseBatch`). Whether the router has a database is chosen initially. The
predicate of a rule is the set of messages it matches (a predicate that raises
matches nothing); a transformer changes what is sent, not what is looked up, and
is left out. Transports are code of the user: they succeed, raise before or after
delivering, or return `False`. (`EitaaTransport` itself reads `publisher.config`,
an attribute `EitaaPublisher` does not have, and cannot be constructed.)
`failed`, `unsure` and `dbRaised` are history variables of the properties.

### EitaaPublisher and Scheduler

`BeginPublish` and `WaitEnds` are `_wait_for_rate_limit`, `CheckToken`,
`AttachMedia`, `PostBegins` and `PostEnds` the rest of `publish`. `Scheduler` puts
these calls into a task and the task into `start`: `CheckRunning` and
`CheckElapsed` are the conditions of its two loops, `NapEnds` a `time.sleep(1)`,
`Interrupt` a Ctrl-C, which lands anywhere. `Stop` is another thread's and may
come at any time. Time is a `Tick` of a second that every counter of elapsed time
sees; a counter stops at the value the code compares it with, so the model is
finite without a horizon. Tasks and POSTs take any time.

`lastPost` and `unanswered` are history: `_last_publish_time` is set by an answer,
whatever it says, and not by an exception. ARCHITECTURE.md:77 says the publisher
"enforces configurable message spacing"; `Spaced` is what the code keeps of it.

### EventBus

`publish` loops over a copy of the lists of its event and of the wildcard, calls
each handler in its own thread, and logs what a handler raises. While a handler
runs the program has control and may do everything to the bus; publishes inside one
another form a stack. `EventDelivery` says what a publish owes: one call for each
subscription found at its beginning, two to a handler that is subscribed both to the
event and to the wildcard. The model is the bus of one thread: what
RELEASE_NOTES.md:16 calls thread-safe has no lock, and nothing in the code publishes
from a second thread. A disabled bus calls nobody and is left out here. `Owed` is read off the copies and the positions in them,
`Subscriptions` off the lists.

### HealthMonitor

Each action is an action of `PipelineEngine` together with what `on_event` makes of
the event it publishes. The monitor is created at the end of the process's first
run, when the hub's report first asks for it, and is gone after a crash. With
`EVENT_BUS_ENABLED=false` it is created all the same and hears nothing, since `publish`
returns at once: `enabled` says of each process whether its bus is on, is chosen
initially and again by the process after a crash, and `Hears` is a monitor on an enabled bus.
`duplicates` and `oldPending` are history: the code counts no duplicates.
`ReportsOf` is every report the three probes allow, with the database failing
between any two of its counts.

### Startup

A start reads `.env` into the environment (the shell's variables win, the last line
of a key wins), may ask the questions, writes the answers (`OpenFile` empties the
file, `FillFile` fills it), loads the configuration and builds the content processor.
The process may be killed between any two steps. A file is its `KEY=value` lines;
quoting is not modelled. `Load` is `main` from `load_config` to `build_pipeline`: no
channel, a text that is no number and a processor that cannot be built end the
process. `--channel` makes up for a missing setting and asks nothing. (A
`SCHEDULE_INTERVAL` that is no number ends the process too; it is not one of the
prompts' settings, and `Stop`, which may come at any time, stands for it.) `_write_env` keeps the lines it does not know where they are
and puts settings without a line at the end in the order of the prompts: `InOrder`
gives the prompts without a line in that order. `others` remembers the other lines of
the first file by their places. Whether `load_dotenv()` finds the file that `ENV_FILE`
names, and whether the package `yasinai` is installed, is chosen initially, as are the
variables the shell exports: any of the settings, as many as `MaxExported` allows. That is
a bound of the instances; the theorems hold for every value of it, so for any shell.

### Workflow

`Execute` to `FlowEnds` are the loop of `execute`, with a stack for workflows inside
workflows. A step with `parallel_steps` submits to a `ThreadPoolExecutor`
(`TryParallel`, `TaskStarts`, `TaskEnds`) and leaves its `with` block only when all
futures are done, also after an exception (`Collect`). `Put` is an assignment to the
shared context, whose keys are one per step. `context` has the results that one
execution put there: whatever else the caller's context holds, `execute` reads it only
through conditions and actions, and a result of an earlier execution is overwritten
or left, not looked at. Conditions and actions are
the user's: any condition may be false, any action may raise.

### TelemirrorClient

A request is a goroutine with a program counter. `Walk` reads the sticky attempt
(`orderedAttempts`), `Acquire`, `NapEnds` and `Granted` are `waitForRate` with its
mutex, `Send` is an exchange and what follows from its result, `Cancel` is
`ctx.Done()` in one of the two `select`s. A request of `main.go` has a context of 45
seconds (`Deadlined`), one of the server has none. Media requests
(`FetchURLLimit`) share the sticky attempt but not the pace. `age` and `timer` are
counted as in `Scheduler`.

### WebClient

JavaScript runs to completion, so a step is all that happens up to a `fetch` or
after an answer. `LoadWith` is `loadChannel` up to its `await`; `AnswerArrives` and
`AnswerFails` take any load that waits, so answers overtake each other.
`AnswerArrives` includes a `localStorage` that is full: `cacheChannel` swallows
the exception, `touchChannel` throws it into `loadChannel`'s `catch`. The saved list and the cache
outlive `OpenPage`.

## The runs

| run | instance | result |
|---|---|---|
| `pipeline_one_relay` | one relay, two channels, pages of up to two posts, two runs, one crash; a text, its padded repost, its forward, an edit to a picture, a blank post | passes, 150 614 states |
| `pipeline_two_relays` | two relays (symmetric), a post with an edited version, two runs each | passes, 752 208 states |
| `pipeline_refused_post` | one relay, one post, two runs | `NoSilentDrop` is violated |
| `router` | three messages (a post, its edit, its repost), three rules, two transports, four calls | passes, 638 351 states |
| `router_dead_letters` | the same | `DeadLetterQueueIsReliable` is violated |
| `health_monitor` | one relay, one channel, four posts (an edit, a forward, a blank one), three runs, one crash; the event bus on or off | passes, 4 240 950 states |
| `scheduled_publishing` | three seconds between POSTs, two between tasks, two posts a task, two starts | passes, 23 570 states |
| `event_bus` | two handlers, one event name and the wildcard, publishes nested twice | passes, 100 175 states |
| `telemirror` | two pages, one with a deadline, and an image; two attempts, two hosts | passes, 84 714 states |
| `web_client` | three channels (symmetric), a saved list of two, three loads at a time | passes, 12 588 states |
| `workflow` | four steps, three and two parallel ones, one nested workflow, two threads | passes, 3 317 states |
| `startup` | five settings, a first `.env` of at most two lines, one exported setting | passes, 2 050 344 states |

What they show:

- `AtMostOncePerRelay`: with any interleaving of two relays a relay has a message
  executed once at most, in one version. It cannot be stronger: two relays that
  query before either inserts publish the message once each.
- `AtMostOncePerContent`, `PublishedStays` and `ImplementsLifecycle` are about one
  relay, and are false of two: the second insert replaces the first relay's row,
  whatever its status. The supported deployment is one relay per database.
- `OneRelayInv` is the invariant the proofs go by; it contains `PipelineInv` and the
  type invariant, which hold of any number of relays.
- `PublishedWasDelivered`, `EveryItemIsReported`, `HubTruthful`: the table, the
  events and the status file say nothing that did not happen. `EveryItemIsReported`
  is about events published, whether the bus delivers them or not; `HubTruthful` is
  about a status that changes to success. An item that fails
  in its last step (`Mark`) counts as published and is reported failed.
- `RunsEnd`: no failure keeps a run from ending.
- `NoSilentDrop` fails: duplicate detection asks whether a row exists, not what it
  says, so a post whose POST was refused is a duplicate in the next run and is never
  published, against AUDIT_REPORT.md:46.
- `RuleByPriority`: the stable descending sort after every `add_rule` gives the
  highest priority, and the earliest rule among equals.
- `RouteSendsNew`, `RowStaysPublished`, `PublishedWasSent`, `TwiceOnlyIfUnsure`:
  with a database a message goes out twice only after one of three events: its
  transport was missing (the letter is queued before the table is asked), the
  transport raised after delivering, or the mark failed.
- `DeadLettersKept`: letters are lost in no other way than by a database error in a
  retry; `DeadLetterQueueIsReliable` fails because that way exists, against
  RELEASE_NOTES.md:15 and ARCHITECTURE.md:154.
- `CallsReturn`: a retry tries each letter once.
- `FetchedIsAccountedFor`, `PublishedIsCovered`, `StuckIsCounted`: the monitor misses
  the first run of every process and counts some failures twice, and yet its totals
  account for every post it was told of, claim no more publications than the table
  has. `StuckIsCounted` has a condition: while the event bus is enabled, between runs no
  pending row is younger than the subscription without a failure in the totals. With
  `EVENT_BUS_ENABLED=false` the totals stay 0 whatever gets stuck.
- `Spaced`: two POSTs are `INTER_MESSAGE_DELAY_SECONDS` apart unless the first got no
  answer. The exception is needed: after a timeout the next POST follows at once,
  although Eitaa may have executed the first (ARCHITECTURE.md:77 knows no exception).
  `TasksRest`: naps never make a rest shorter than the interval. `StopEnds`: a stop
  ends the loop unless it came before `start`, which overwrites it.
- `ImplementsDelivery`, `PublishesReturn`: the copy makes the bus deliver what it
  owes; a handler that is removed during a publish is still called by it.
- `Paced`: HTML requests are paced across goroutines, cancelled naps included.
  `EachAttemptOnce`: the order is read once per walk, so other requests that move the
  sticky attempt do no harm. `OneLateSlot`: `waitForRate` grants a slot at once
  without a look at the context, but only once. `RequestsEnd`: all requests return.
- `QuietPageShowsCurrent` has an exception and needs it: a load that was started
  before the answer of another had arrived may leave the page at the other channel.
  `RemovedIsForgotten` likewise: a channel removed while its load waits comes back
  with the answer. `SavedListIsSound` has none.
- `StepsDontOverlap`, `StopsAtFailure`: the exit of the pool waits, so a workflow
  leaves nothing running, and nothing starts after a failure but the parallel
  steps next to it. `NothingIsRepeated`: a nested workflow comes back behind the step
  that called it. `ResultsAreWhole`: a step one of whose actions raised leaves no
  result. Both are about workflows that name every step once (`EachStepOnce`, which
  the instance is checked to meet): a step that is executed again can fail while the
  context still holds its first result.
- `SavedSettingsSurvive` says which saved settings a restart brings back; the
  hypotheses of `Lasting` are the cases in which it does not: a key with two lines,
  a file that dotenv does not read, a variable of the shell, a default left blank, a
  write that was cut off. `RunningIsConfigured`: only a process that asked has all
  required settings; a post's text becomes nothing only through
  `PassthroughProcessor` and a blank answer.
- Two docstrings promise what the model, like the code, does not do, and the two
  properties leave these cases out. `build_content_processor` does not fall back to
  `PassthroughProcessor` when the package is missing (yasinai_adapter.py:245): it raises,
  as its test expects. `_write_env` does not always update known keys and preserve the
  rest (config.py:78): the file is emptied before it is filled, so a death in between
  loses the user's lines, and of two lines of a key the first is rewritten and the last is
  read.

The bounds are small because the interesting cases are: two runs and a crash are
the least in which a row of an earlier run meets its post again after a crash and
after a failure; two posts in a page and two channels are the least for a repost
within a page and a forward between channels. Four calls of the router are needed:
`RouteSendsNew` without its exception for letters in doubt holds for three and
fails for four (queue for a missing transport, route an edit, retry, route a
repost). `MaxRuns`, `MaxCrashes` and `MaxCalls` bound
nothing else, and the deadlock check is off because a relay stops when its runs are
used up. Three runs are the least in which a monitor has missed one, seen one and
reports after a crash. Three requests are the least in which one naps, one queues
up and one moves the sticky attempt; the check of deadlock is off there because a
client with no request left rests. A saved list of two among three channels
overflows; three loads can overtake each other in every way. Two nested publishes
let a handler change the lists of the outer one. Two lines of `.env` can be two
lines of one key, a setting and another key, or none. One exported setting meets every
other one unexported; no step relates the exports of two settings. Delays of three and two
seconds give a rest that is cut short at its beginning, middle and end; the theorems
below do not depend on them.

Fairness: `FairSpec` of the pipeline is weak fairness of a relay's steps in a run,
crashes and the start of a run excluded. The relay is one thread, and the code gives
all but one of its calls a timeout (60 s for the fetcher, 30 s for
downloads, the POST and `PassthroughProcessor`'s request, 5 s for a locked database).
The exception is `YasinAIContentProcessor`'s call of its service
(yasinai_adapter.py:155): that it returns is an assumption about the package yasinai. `FairSpec` of the router is
weak fairness of the steps of an active call; that of the scheduler is weak fairness
of its thread and of time, for the same reasons. `FairSpec` of the Telemirror client
is weak fairness of goroutines and time, and strong fairness of `Acquire`: a
`sync.Mutex` hands itself to the goroutine that waits longest once that one has waited
a millisecond. `FairSpec` of the event bus is weak fairness of `publish` and strong
fairness of the end of a handler at each depth, since a handler that publishes is
not running while its publish is; a handler that never returns is out of the bus's
hands. Safety needs none.

## The proofs

`PipelineEngineProofs` proves, for every set of relays, feed, `Strip` and every
bound:

- `TypeCorrect`: `Spec => []TypeOK`;
- `PipelineInvariant`: `Spec => []PipelineInv`, and from it `DeliveredAtMostOnce`
  and `PublishedIsTrue`.

`AtMostOncePerRelay` is not inductive: to see that a POST is the first of its key
one needs that the relay never delivered the key of the item it works on
(`CurrentIsNew`). That holds at the insert because the query found no row, and what
a relay delivered always has a row (`ExecutedIsClaimed`), because rows are never
removed - by anyone. `CurrentIsClaimed` carries the row from the insert to the
POST, `MarkedIsExecuted` the POST to the mark. None of this speaks of the other
relays' progress, so it holds for any number of them.

For a single relay it proves `OneRelayInvariant`, and from it
`ContentDeliveredOnce`, `PublishedIsFinal` and `Implementation`, the refinement of
`PostLifecycle`. The strengthening is `OneRelayInv`: the answer of the query still
holds at the insert (`QueryStillHolds`, the part that fails with two relays), so no
two rows have one content (`RowsDiffer`) and the row of an item keeps the content
it is published under (`CurrentIsRow`, `ExecutedIsRow`), which is stripped
(`TextsAreStripped`). The refinement maps the insert to `Claim`, an executed POST
to `Execute`, the mark to `Record` and all other steps to stuttering.

Of the reports it proves `HubIsToldTheTruth` for any number of relays and
`ItemsAreReported` for one. `Fate` says what has been noted of an item at each point
(nothing is decided before the POST; at the end it failed, was a duplicate or was
published, and an event says so), `Balance` that the books of a run without an error
balance: fetched is published plus duplicates plus what waits in the batch. That the
row behind a `PublishingCompleted` says `published` needs one relay
(`CompletedIsRecorded`): with two, the other one's insert can replace the row.

Of the health monitor it proves `FetchedIsCounted` for any number of relays, and
`PublicationsAreCovered` and `StuckRowsAreCounted` for one, the last for a relay whose event
bus is enabled, as `StuckIsCounted` says. The monitor hears of an
item's end one step before the item leaves the batch, so `Accounted` counts an item
at its end (`IsCounted`) as already off the batch; that a duplicate or a failed item is
told of at all comes from `Fate`. These parts speak of monitors that hear (`Hears`);
`DeafIsEmpty` says that the totals of the others are 0. The other two relate totals to the number of rows
with a status, so they need that rows are finitely many (`RowsAreFinite`) and how an
insert and a mark change that number. `CurrentIsPending` says that the mark finds the row
still pending, so that it adds one published row for the event that is counted next,
and `StuckOrOpen` allows one more pending row than failures while an item is open
(`IsOpen`).

`MessageRouterProofs` proves every property of the router's run but `CallsReturn`, for
any messages, rules, transports and number of calls. `RouterInv` is one invariant
for all of them. `CallFacts` is what a call knows at each of its steps (at the
send the row of its key is its own and no relative was sent), `RowInv` ties rows to
deliveries (what was sent has a row, no two rows have one content), and `SureKey`
says of a key no failure puts in doubt that at most one message of it went out,
namely its row's, and that no letter of it waits after that. The letters are needed
because a retry looks up the key alone: that it does not send twice depends on what
is in the queue. `RulesByPriority` rests on `RulesInv`: the list is the added rules,
each once, with ties in the order of addition; `SortedPlace` and `Inserted` say
where the stable sort puts a new rule, and `LeastNatural` that `CHOOSE` finds the
least position.

`TelemirrorProofs` proves for any number of requests, attempts and hosts that the mutex is
held by exactly the request that naps and that its nap covers what is missing
(`MutexAndNap`), from which `RequestsArePaced` follows; that a context that has
ended costs one slot at most (`LateAtMostOnce`, for a pause greater than zero: a pause
is where the end is noticed); and that attempts are made once (`AttemptsMadeOnce`):
`orderedAttempts` is a permutation, and the attempts made are those of the positions
passed.

`SchedulerProofs` proves `PublishingIsPaced` from `SpacingInv` (what a call sleeps plus
the time since the last answer is the delay) and `RestInv` (the naps counted, plus the one that is
over, are no more than the seconds since the task), and from it `PostsAreSpaced` and
`TasksAreRested`.

`EventBusProofs` proves `BusImplementsDelivery`: every step of the bus is a step of
`EventDelivery` or a stutter, for any handlers, events and depth. The invariant is
`BusInv`: no list has a handler twice (`subscribe` looks before it appends, and
`list.remove` leaves the order), so a copy has one place for each subscription
(`PlacesInBoth`), and what a publish owes at its beginning is what `EventDelivery` says
it owes. A call takes one place off what the top publish owes its handler
(`HandlerCalled`); changes of the lists touch no copy. `BusInvariant` states the
invariant by itself.

`StartupProofs` proves `SettingsSurvive` and `ConfiguredToRun` from `StartupInv`: what is about
to be written, and what was written last, has on the first line of every setting the
answer that was given for it (`Saves`), and the other lines at their places; a
required setting that was asked for has a value from the prompt to the run. That
`Updated` does this for any file and any prompts is where the lemmas go: `InOrder` is a
sequence of all the places it is given, each once, so that a setting without a line
gets one line and no other setting does.

`WebClientProofs` proves `QuietPage` from `QuietInv` (unless loads overlapped, at most one
waits, and it is of the current channel), and `SavedListStaysSound` and `RemovedStaysForgotten`
from `ListInv`, which adds to the two properties that no load of a removed channel
waits. The filter of the saved list is `InOrder` of the places that are kept: what is
left has no channel twice if the list had none, and is shorter by the one taken out.

`WorkflowProofs` proves `FailureStops` and `NothingRunsBehind` for any workflows, also such as
execute a step twice or themselves. `StackInv` and `CallersInv` say that the calls of
`execute` under way are at steps of their workflows; `PoolInv` that the tasks of the pool
are parallel steps of the step execute is at, and that what failed is among them while an
execution goes on after a failure; `CalledInv` that only called actions raise.
`NothingBeginsTwice` and `ResultsStayWhole` are about workflows that meet `EachStepOnce`, to
any depth of nesting: by `ChainInv` each call under way was made by the step the one
below it is at, so that no workflow is called twice at a time, and by `DoneInv` only
places behind execute have results, in a call that has moved past them or in a workflow
that has returned to a step with a result. `ResultInv` adds that the step whose actions run
is none of these, so that what it fails in has no result.

The proofs assume `PipelineAssumption` (the constants have their types, and
stripping twice is stripping once), `NoRowAssumption` (the absent row is not a
row), `RouterAssumption`, `TelemirrorAssumption`, `DelayAssumption`,
`SchedulerAssumption`, `WorkflowAssumption`, `EventBusAssumption`, `WebClientAssumption`,
which type the constants, and `StartupAssumption`: the prompts are each of another
setting, `Unset` is no value and the empty string no answer, a required setting has no
default, and neither the text of a post nor the AI's is empty. TLC evaluates each in the
runs of its module. `EachStepOnce` and `Relays = {r}` are hypotheses of the theorems that
need them.

Loops over lists are written with places and `InOrder` where something is proved of
them, because `SelectSeq` is recursive; `Cardinality` is reasoned about with the
library's theorems on finite sets.

Only model-checked: liveness (`RunsEnd`, `CallsReturn`, `StopEnds`, `RequestsEnd`,
`PublishesReturn`), which is out of the prover's reach under fairness. All other properties
of the passing runs have a theorem. The two violations, of `NoSilentDrop` and
`DeadLetterQueueIsReliable`, are TLC's.

## Not modelled

- The channel parser (`parser.go`, `convert.go`): HTML to records, character by
  character. It has no state and no control worth a model.
- URL checks (`security.go`): address arithmetic and DNS.
- The HTTP handlers, the SDK, hooks, memory, planner and plugins of `agent/`: one call
  or one look-up each. Their hazards are listed where there are any.
- `agent/event_bus.py` is `EventBus` without wildcards and `enabled`.
- The subprocess of the fetcher, prompts' wording, logging, the media processor's data,
  the library yasinhub, the service worker, installation scripts: input and output.
- The router with several callers: it has no lock, and nothing in the code calls it
  from several threads.
