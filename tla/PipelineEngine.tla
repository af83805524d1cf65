--------------------------- MODULE PipelineEngine ---------------------------
(***************************************************************************)
(* The relay pipeline of pipeline.py and pipeline_engine.py: relay         *)
(* processes that fetch the posts of their source channels and take each   *)
(* post through the stages Normalizer, Validator, DuplicateDetection,      *)
(* AgeFilter, AIProcessor, MediaProcessor and Publisher, sharing one       *)
(* SQLite table.                                                           *)
(*                                                                         *)
(* A relay is sequential.  Its program counter names what it does next:    *)
(*                                                                         *)
(*   "idle"      no Pipeline.run is active (cli.py, Scheduler)             *)
(*   "channel"   the channel loop of Pipeline.run                          *)
(*   "item"      the context loop of Pipeline.run_channel                  *)
(*   "normalize", "validate", "lookup", "save", "age", "ai", "media",      *)
(*   "publish", "mark"                                                     *)
(*               inside the stages; DuplicateDetection is two points, as   *)
(*               its query and its insert are two transactions, and so is  *)
(*               Publisher: the POST and the UPDATE                        *)
(*   "finish"    after the stage loop of PipelineManager.execute           *)
(*                                                                         *)
(* A stage returns at once when the context is invalid or a duplicate, so  *)
(* the stages after such a verdict are skipped: control goes to "finish".  *)
(***************************************************************************)
EXTENDS Naturals, Sequences, FiniteSets, RelayDatabase

CONSTANTS
    Relays,     \* relay processes that open the same DATABASE_PATH
    Channels,   \* SOURCE_CHANNELS, in configuration order
    Feed,       \* Feed[ch]: the posts channel ch can show (fetch_engine.Post)
    Strip,      \* Strip[t]: str.strip() of the text t
    Empty,      \* the empty text
    Limit,      \* bound: posts of a fetch (--limit, which the fetcher's binary keeps to)
    MaxRuns,    \* bound: runs a relay starts
    MaxCrashes  \* bound: crashes of all the relays together

\* A post as the fetcher returns it.  "dated" says that published_at is known.
Posts == [key : Keys, text : Texts, media : BOOLEAN, dated : BOOLEAN]

\* What the table and Eitaa can tell apart: the key and the content of a post.
Items == [key : Keys, content : Contents]

ASSUME PipelineAssumption ==
    /\ Channels \in Seq(DOMAIN Feed)
    /\ \A ch \in DOMAIN Feed : Feed[ch] \subseteq Posts
    /\ Empty \in Texts
    /\ Strip \in [Texts -> Texts]
    /\ \A t \in Texts : Strip[Strip[t]] = Strip[t]
    /\ Limit \in Nat /\ MaxRuns \in Nat /\ MaxCrashes \in Nat

VARIABLES
    posts,      \* the shared table
    delivered,  \* delivered[r][i]: POSTs of item i by relay r that Eitaa executed
    pc,         \* program counter of a relay
    chan,       \* index of the channel a relay works on
    batch,      \* contexts of the channel still to execute, the current one first
    ctx,        \* PipelineContext of the current item
    events,     \* names of the events published for the current item
    report,     \* totals over the ChannelRunReports of the current run
    hub,        \* the status in yasinrelay.json, the one file of all relays;
                \* "cut" after a write that stopped half way
    runs,       \* runs a relay has started
    crashes     \* crashes so far

vars == <<posts, delivered, pc, chan, batch, ctx, events, report, hub, runs, crashes>>

Stages == {"normalize", "validate", "lookup", "save", "age", "ai", "media",
           "publish", "mark", "finish"}

EventNames == {"ProcessingStarted", "ContentNormalized", "DuplicateDetected",
               "AIProcessingCompleted", "MediaProcessingCompleted",
               "PublishingStarted", "PublishingCompleted", "ProcessingFailed"}

\* "errors" tells only whether the list is empty.
Contexts == [text : Texts, duplicate : BOOLEAN, valid : BOOLEAN,
             success : BOOLEAN, errors : BOOLEAN]

\* "duplicates" is not in the code's reports: it counts the contexts that ended
\* as duplicates, so that a property can say what became of every fetched post.
Reports == [fetched : Nat, published : Nat, duplicates : Nat, errors : BOOLEAN]

TypeOK ==
    /\ posts \in Tables
    /\ delivered \in [Relays -> [Items -> Nat]]
    /\ pc \in [Relays -> {"idle", "channel", "item"} \cup Stages]
    /\ chan \in [Relays -> 1 .. Len(Channels) + 1]
    /\ batch \in [Relays -> Seq(Posts)]
    /\ ctx \in [Relays -> Contexts]
    /\ events \in [Relays -> Seq(EventNames)]
    /\ report \in [Relays -> Reports]
    /\ hub \in {"none", "ok", "error", "cut"}
    /\ runs \in [Relays -> 0 .. MaxRuns]
    /\ crashes \in 0 .. MaxCrashes
    /\ \A r \in Relays : /\ pc[r] \in Stages => batch[r] # <<>>
                         /\ pc[r] \in Stages \cup {"item"} => chan[r] <= Len(Channels)

----------------------------------------------------------------------------

FreshContext(p) == [text |-> p.text, duplicate |-> FALSE, valid |-> TRUE,
                    success |-> FALSE, errors |-> FALSE]

NoContext == [text |-> Empty, duplicate |-> FALSE, valid |-> TRUE,
              success |-> FALSE, errors |-> FALSE]

NoReport == [fetched |-> 0, published |-> 0, duplicates |-> 0, errors |-> FALSE]

Post(r) == Head(batch[r])

\* processed_text and processed_media_url: what DuplicateDetection hashes.
Content(r) == [text |-> ctx[r].text, media |-> Post(r).media]

Item(r) == [key |-> Post(r).key, content |-> Content(r)]

Init ==
    /\ posts = EmptyTable
    /\ delivered = [r \in Relays |-> [i \in Items |-> 0]]
    /\ pc = [r \in Relays |-> "idle"]
    /\ chan = [r \in Relays |-> 1]
    /\ batch = [r \in Relays |-> <<>>]
    /\ ctx = [r \in Relays |-> NoContext]
    /\ events = [r \in Relays |-> <<>>]
    /\ report = [r \in Relays |-> NoReport]
    /\ hub = "none"
    /\ runs = [r \in Relays |-> 0]
    /\ crashes = 0

----------------------------------------------------------------------------
(* Building blocks of the steps *)

At(r, point) == pc[r] = point

Goto(r, point) == pc' = [pc EXCEPT ![r] = point]

\* event_bus.publish(...): whether anyone hears the event is not told here.
Emit(r, name) == events' = [events EXCEPT ![r] = Append(@, name)]

\* The run's own state: nothing a stage touches.
runVars == <<chan, batch, report, hub, runs, crashes>>

\* Mutant of NoteError: the failure is logged and not recorded.
NoteNothing(r) == UNCHANGED ctx

\* context.errors.append(...) by a stage that goes on with the item.
NoteError(r) == ctx' = [ctx EXCEPT ![r].errors = TRUE]

\* context.is_valid = False with an error: every later stage is skipped.
Invalidate(r) == ctx' = [ctx EXCEPT ![r].valid = FALSE, ![r].errors = TRUE]

\* An exception leaves a stage: execute invalidates the context, publishes
\* ProcessingFailed and breaks out of the stage loop.
StageRaises(r) ==
    /\ Invalidate(r)
    /\ Emit(r, "ProcessingFailed")
    /\ Goto(r, "finish")
    /\ UNCHANGED <<posts, delivered>>

----------------------------------------------------------------------------
(* Pipeline.run and Pipeline.run_channel *)

StartRun(r) ==
    /\ At(r, "idle")
    /\ runs[r] < MaxRuns
    /\ runs' = [runs EXCEPT ![r] = @ + 1]
    /\ report' = [report EXCEPT ![r] = NoReport]
    /\ chan' = [chan EXCEPT ![r] = 1]
    /\ Goto(r, "channel")
    /\ UNCHANGED <<posts, delivered, batch, ctx, events, hub, crashes>>

\* What a fetch of a channel may return: posts of it in any order.  Nothing in
\* the fetch engine keeps a message_id from being on a page twice.
Pages(ch) == UNION {[1 .. n -> Feed[ch]] : n \in 0 .. Limit}

FetchPage(r) ==
    /\ At(r, "channel")
    /\ chan[r] <= Len(Channels)
    /\ \E page \in Pages(Channels[chan[r]]) :
           /\ batch' = [batch EXCEPT ![r] = page]
           /\ report' = [report EXCEPT ![r].fetched = @ + Len(page)]
    /\ Goto(r, "item")
    /\ UNCHANGED <<posts, delivered, chan, ctx, events, hub, runs, crashes>>

\* A FetchError or any other exception of the collector ends the channel.
FetchFails(r) ==
    /\ At(r, "channel")
    /\ chan[r] <= Len(Channels)
    /\ report' = [report EXCEPT ![r].errors = TRUE]
    /\ chan' = [chan EXCEPT ![r] = @ + 1]
    /\ UNCHANGED <<posts, delivered, pc, batch, ctx, events, hub, runs, crashes>>

StartItem(r) ==
    /\ At(r, "item")
    /\ batch[r] # <<>>
    /\ ctx' = [ctx EXCEPT ![r] = FreshContext(Post(r))]
    /\ events' = [events EXCEPT ![r] = <<"ProcessingStarted">>]
    /\ Goto(r, "normalize")
    /\ UNCHANGED <<posts, delivered, runVars>>

EndChannel(r) ==
    /\ At(r, "item")
    /\ batch[r] = <<>>
    /\ chan' = [chan EXCEPT ![r] = @ + 1]
    /\ Goto(r, "channel")
    /\ UNCHANGED <<posts, delivered, batch, ctx, events, report, hub, runs, crashes>>

\* report_hub_status at the end of run: success is "no error in any report".
\* A failure is logged and dropped.  Before the file is opened the earlier status
\* stays; write_text empties the file first, so a write that fails leaves it cut.
EndRun(r) ==
    /\ At(r, "channel")
    /\ chan[r] > Len(Channels)
    /\ \/ hub' = IF report[r].errors THEN "error" ELSE "ok"
       \/ hub' \in {hub, "cut"}
    /\ Goto(r, "idle")
    /\ UNCHANGED <<posts, delivered, chan, batch, ctx, events, report, runs, crashes>>

----------------------------------------------------------------------------
(* The stages *)

\* Mutant of Normalize: the text is not stripped.
NormalizeNothing(r) ==
    /\ At(r, "normalize")
    /\ Emit(r, "ContentNormalized")
    /\ Goto(r, "validate")
    /\ UNCHANGED <<posts, delivered, ctx, runVars>>

Normalize(r) ==
    /\ At(r, "normalize")
    /\ ctx' = [ctx EXCEPT ![r].text = Strip[@]]
    /\ Emit(r, "ContentNormalized")
    /\ Goto(r, "validate")
    /\ UNCHANGED <<posts, delivered, runVars>>

IsBlank(r) == ctx[r].text = Empty /\ ~Post(r).media

Validate(r) ==
    /\ At(r, "validate")
    /\ \/ /\ IsBlank(r)
          /\ Invalidate(r)
          /\ Goto(r, "finish")
       \/ /\ ~IsBlank(r)
          /\ UNCHANGED ctx
          /\ Goto(r, "lookup")
    /\ UNCHANGED <<posts, delivered, events, runVars>>

\* The query of DuplicateDetectionStage: its own connection and transaction.
Lookup(r) ==
    /\ At(r, "lookup")
    /\ \/ /\ Exists(posts, Post(r).key, Content(r))
          /\ ctx' = [ctx EXCEPT ![r].duplicate = TRUE]
          /\ Emit(r, "DuplicateDetected")
          /\ Goto(r, "finish")
          /\ UNCHANGED <<posts, delivered>>
       \/ /\ ~Exists(posts, Post(r).key, Content(r))
          /\ Goto(r, "save")
          /\ UNCHANGED <<posts, delivered, ctx, events>>
       \/ StageRaises(r)
    /\ UNCHANGED runVars

\* Mutant of Save: a locked database is tried again, from the query on.
SaveRetriesForever(r) ==
    /\ At(r, "save")
    /\ \/ /\ posts' = SavePending(posts, Post(r).key, Content(r))
          /\ Goto(r, "age")
       \/ /\ UNCHANGED posts
          /\ Goto(r, "lookup")
    /\ UNCHANGED <<delivered, ctx, events, runVars>>

\* The insert of DuplicateDetectionStage, after a query that found nothing.
Save(r) ==
    /\ At(r, "save")
    /\ \/ /\ posts' = SavePending(posts, Post(r).key, Content(r))
          /\ Goto(r, "age")
          /\ UNCHANGED <<delivered, ctx, events>>
       \/ StageRaises(r)
    /\ UNCHANGED runVars

\* Whether a dated post is older than max_age_hours is the environment's choice.
FilterAge(r) ==
    /\ At(r, "age")
    /\ \/ /\ UNCHANGED ctx
          /\ Goto(r, "ai")
       \/ /\ Post(r).dated
          /\ Invalidate(r)
          /\ Goto(r, "finish")
    /\ UNCHANGED <<posts, delivered, events, runVars>>

\* The processor's wording is not tracked: an item keeps the content it was
\* saved under.  A failure is noted and the original text goes on.
RunAI(r) ==
    /\ At(r, "ai")
    /\ \/ Emit(r, "AIProcessingCompleted") /\ UNCHANGED ctx
       \/ NoteError(r) /\ UNCHANGED events
    /\ Goto(r, "media")
    /\ UNCHANGED <<posts, delivered, runVars>>

RunMedia(r) ==
    /\ At(r, "media")
    /\ \/ ~Post(r).media /\ UNCHANGED <<ctx, events>>
       \/ Post(r).media /\ Emit(r, "MediaProcessingCompleted") /\ UNCHANGED ctx
       \/ Post(r).media /\ NoteError(r) /\ UNCHANGED events
    /\ Goto(r, "publish")
    /\ UNCHANGED <<posts, delivered, runVars>>

Deliver(r) == delivered' = [delivered EXCEPT ![r][Item(r)] = @ + 1]

\* Mutant of Publish: "ok": false with HTTP 200 passes for a success.
PublishIgnoringRefusal(r) ==
    /\ At(r, "publish")
    /\ Emit(r, "PublishingStarted")
    /\ Deliver(r) \/ UNCHANGED delivered
    /\ ctx' = [ctx EXCEPT ![r].success = TRUE]
    /\ Goto(r, "mark")
    /\ UNCHANGED <<posts, runVars>>

\* EitaaPublisher.publish: the POST is answered with success; or refused
\* (an HTTP status other than 200, or "ok": false); or it raises, when no
\* token is set or the connection breaks - before or after Eitaa executed it.
Publish(r) ==
    /\ At(r, "publish")
    /\ Emit(r, "PublishingStarted")
    /\ \/ /\ Deliver(r)
          /\ ctx' = [ctx EXCEPT ![r].success = TRUE]
          /\ Goto(r, "mark")
       \/ /\ UNCHANGED delivered
          /\ NoteError(r)
          /\ Goto(r, "finish")
       \/ /\ Deliver(r)
          /\ NoteError(r)
          /\ Goto(r, "finish")
    /\ UNCHANGED <<posts, runVars>>

\* mark_published, then PublishingCompleted; an sqlite3.Error skips the event.
Mark(r) ==
    /\ At(r, "mark")
    /\ \/ /\ posts' = MarkPublished(posts, Post(r).key)
          /\ Emit(r, "PublishingCompleted")
          /\ UNCHANGED ctx
       \/ /\ NoteError(r)
          /\ UNCHANGED <<posts, events>>
    /\ Goto(r, "finish")
    /\ UNCHANGED <<delivered, runVars>>

\* Whether execute ends with ProcessingFailed; the mutant forgets the errors.
FailedOnlyIfInvalid(c) == ~c.valid
Failed(c) == ~c.valid \/ c.errors

\* The end of PipelineManager.execute, and run_channel's use of its result.
Finish(r) ==
    LET c == ctx[r] IN
    /\ At(r, "finish")
    /\ IF Failed(c) THEN Emit(r, "ProcessingFailed") ELSE UNCHANGED events
    /\ report' = [report EXCEPT
           ![r].published = IF c.success THEN @ + 1 ELSE @,
           ![r].duplicates = IF c.duplicate THEN @ + 1 ELSE @,
           ![r].errors = @ \/ c.errors]
    /\ batch' = [batch EXCEPT ![r] = Tail(@)]
    /\ ctx' = [ctx EXCEPT ![r] = NoContext]
    /\ Goto(r, "item")
    /\ UNCHANGED <<posts, delivered, chan, hub, runs, crashes>>

----------------------------------------------------------------------------
(* The environment *)

\* The process dies; the table and the hub's status file stay, but for a file
\* that is being written.
Crash(r) ==
    /\ crashes < MaxCrashes
    /\ ~At(r, "idle")
    /\ crashes' = crashes + 1
    /\ Goto(r, "idle")
    /\ chan' = [chan EXCEPT ![r] = 1]
    /\ batch' = [batch EXCEPT ![r] = <<>>]
    /\ ctx' = [ctx EXCEPT ![r] = NoContext]
    /\ events' = [events EXCEPT ![r] = <<>>]
    /\ report' = [report EXCEPT ![r] = NoReport]
    /\ \/ UNCHANGED hub
       \/ At(r, "channel") /\ chan[r] > Len(Channels) /\ hub' = "cut"
    /\ UNCHANGED <<posts, delivered, runs>>

RunStep(r) ==
    \/ FetchPage(r) \/ FetchFails(r) \/ StartItem(r) \/ EndChannel(r) \/ EndRun(r)

StageStep(r) ==
    \/ Normalize(r) \/ Validate(r) \/ Lookup(r) \/ Save(r) \/ FilterAge(r)
    \/ RunAI(r) \/ RunMedia(r) \/ Publish(r) \/ Mark(r) \/ Finish(r)

Next == \E r \in Relays : StartRun(r) \/ RunStep(r) \/ StageStep(r) \/ Crash(r)

Spec == Init /\ [][Next]_vars

\* Once a run has started, its steps go on: every call out of the process has
\* a timeout (60 s for the fetcher, 30 s for the downloads and the POST, 5 s for
\* a locked database).  Nothing makes a run start, and nothing makes a relay crash.
FairSpec == Spec /\ \A r \in Relays : WF_vars(RunStep(r) \/ StageStep(r))
----------------------------------------------------------------------------
(* Safety *)

\* The items of which relay r had a POST executed by Eitaa.
Executed(r) == {i \in Items : delivered[r][i] > 0}

\* Duplicate detection, for any number of relays and across crashes: a relay
\* has at most one version of a (channel, message_id) executed by Eitaa, once,
\* in all its runs (DuplicateDetectionStage before PublisherStage).
AtMostOncePerRelay ==
    \A r \in Relays : \A i, j \in Executed(r) :
        delivered[r][i] = 1 /\ (i.key = j.key => i = j)

SameContent(c, d) == Strip[c.text] = Strip[d.text] /\ c.media = d.media

\* With one relay, no content reaches Eitaa twice under two message ids: the
\* repost, the forward to another source channel and the version that differs
\* in surrounding white space are all caught by the content hash, because
\* NormalizerStage strips the text before DuplicateDetectionStage hashes it.
AtMostOncePerContent ==
    \A r \in Relays : \A i, j \in Executed(r) : SameContent(i.content, j.content) => i = j

\* The table does not claim what did not happen: a row says `published' only
\* when Eitaa executed a POST of that key.
PublishedWasDelivered ==
    \A k \in Keys : IsPublished(posts, k) =>
        \E r \in Relays : \E i \in Executed(r) : i.key = k

Emitted(r, name) == \E n \in DOMAIN events[r] : events[r][n] = name

\* No post leaves execute unseen: when the item is done its events tell its
\* fate, and a PublishingCompleted is never published for a post whose row
\* does not say so or whose report does not count it.
EveryItemIsReported ==
    \A r \in Relays :
        /\ At(r, "item") /\ events[r] # <<>> =>
              \/ Emitted(r, "DuplicateDetected")
              \/ Emitted(r, "PublishingCompleted")
              \/ Emitted(r, "ProcessingFailed")
        /\ At(r, "finish") /\ Emitted(r, "PublishingCompleted") =>
              ctx[r].success /\ IsPublished(posts, Post(r).key)

\* With one relay a row that says `published' says so for ever: INSERT OR
\* REPLACE never takes it back to `pending'.
PublishedStays ==
    [][\A k \in Keys : IsPublished(posts, k) => IsPublished(posts', k)]_vars

\* A success written for YasinHub means that every fetched post of the run was
\* published or was a duplicate (Pipeline.run: "no error in any report").
HubTruthful ==
    [][hub' = "ok" /\ hub # "ok" =>
          \E r \in Relays :
              /\ At(r, "channel") /\ pc'[r] = "idle"
              /\ report[r].fetched = report[r].published + report[r].duplicates]_vars

\* AUDIT_REPORT.md says of a refused POST that "this prevents silent post drops
\* and ensures accurate SQLite database tracking": a post that a later run calls
\* a duplicate was published, or its publication is still going on.
NoSilentDrop ==
    \A r \in Relays :
        At(r, "finish") /\ ctx[r].duplicate =>
            \E k \in Keys :
                /\ k = Post(r).key \/ (HasKey(posts, k) /\ posts[k].content = Content(r))
                /\ \/ IsPublished(posts, k)
                   \/ \E q \in Relays \ {r} : pc[q] \in Stages /\ Post(q).key = k

----------------------------------------------------------------------------
(* The invariant the proofs go by *)

\* From the insert on, the table has the current item's key.
CurrentIsClaimed ==
    \A r \in Relays : pc[r] \in {"age", "ai", "media", "publish", "mark"} =>
        HasKey(posts, Post(r).key)

\* What a relay ever delivered is in the table: rows are replaced, never removed.
ExecutedIsClaimed ==
    \A r \in Relays : \A i \in Executed(r) : HasKey(posts, i.key)

\* Between its query and its POST a relay works on a key it never delivered.
CurrentIsNew ==
    \A r \in Relays : pc[r] \in {"save", "age", "ai", "media", "publish"} =>
        \A i \in Executed(r) : i.key # Post(r).key

\* A row is marked only after a POST of its key.
MarkedIsExecuted ==
    \A r \in Relays : At(r, "mark") => \E i \in Executed(r) : i.key = Post(r).key

PipelineInv ==
    /\ TypeOK
    /\ CurrentIsClaimed
    /\ ExecutedIsClaimed
    /\ CurrentIsNew
    /\ MarkedIsExecuted
    /\ AtMostOncePerRelay
    /\ PublishedWasDelivered

\* With one relay the query still holds at the insert, so no two rows have the
\* same content, and a row keeps the content that was delivered.
RowsDiffer ==
    \A k, l \in Keys :
        HasKey(posts, k) /\ HasKey(posts, l) /\ posts[k].content = posts[l].content => k = l

ExecutedIsRow ==
    \A r \in Relays : \A i \in Executed(r) : posts[i.key].content = i.content

QueryStillHolds ==
    \A r \in Relays : At(r, "save") => ~Exists(posts, Post(r).key, Content(r))

CurrentIsRow ==
    \A r \in Relays : pc[r] \in {"age", "ai", "media", "publish", "mark"} =>
        posts[Post(r).key].content = Content(r)

\* From NormalizerStage on an item has a stripped text, and so does what is executed.
IsStripped(t) == Strip[t] = t

TextsAreStripped ==
    \A r \in Relays :
        /\ pc[r] \in Stages \ {"normalize", "finish"} => IsStripped(ctx[r].text)
        /\ \A i \in Executed(r) : IsStripped(i.content.text)

OneRelayInv ==
    /\ PipelineInv
    /\ TextsAreStripped
    /\ RowsDiffer
    /\ ExecutedIsRow
    /\ QueryStillHolds
    /\ CurrentIsRow

----------------------------------------------------------------------------
(* The abstract specification *)

Claimed == {i \in Items : HasKey(posts, i.key) /\ posts[i.key].content = i.content}

Lifecycle == INSTANCE PostLifecycle WITH
    Items    <- Items,
    claimed  <- Claimed,
    executed <- UNION {Executed(r) : r \in Relays},
    recorded <- {i \in Claimed : IsPublished(posts, i.key)}

\* One relay gives every post the life PostLifecycle describes.
ImplementsLifecycle == Lifecycle!LifecycleSpec

----------------------------------------------------------------------------
(* Liveness *)

\* A run of a relay ends, whatever fails in it: a failing fetch, stage, POST or
\* transaction ends the item or the channel, never the loop.
RunsEnd == \A r \in Relays : ~At(r, "idle") ~> At(r, "idle")
=============================================================================
