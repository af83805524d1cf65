----------------------- MODULE PipelineEngineProofs -----------------------
(***************************************************************************)
(* Theorems about the relay pipeline, for every feed and every bound on    *)
(* runs and crashes: what holds with any number of relay processes, what   *)
(* holds with one only, what an item's end reports of it, and what the     *)
(* totals of the health monitor account for.                               *)
(***************************************************************************)
EXTENDS HealthMonitor, SequenceTheorems, FiniteSetTheorems, TLAPS

\* The table's operators keep it a table.
LEMMA TableOps ==
    ASSUME NEW t \in Tables, NEW k \in Keys, NEW c \in Contents
    PROVE  /\ SavePending(t, k, c) \in Tables
           /\ MarkPublished(t, k) \in Tables
  BY DEF Tables, Rows, SavePending, MarkPublished, HasKey

\* A save or a mark removes no row, whoever makes it.
LEMMA RowsStay ==
    ASSUME NEW t \in Tables, NEW k \in Keys, NEW c \in Contents, NEW j \in Keys,
           HasKey(t, j)
    PROVE  HasKey(SavePending(t, k, c), j) /\ HasKey(MarkPublished(t, k), j)
  BY NoRowAssumption DEF Tables, Rows, SavePending, MarkPublished, HasKey

\* The current item of a relay inside the stages is a post, and its identity an item.
LEMMA CurrentIsItem ==
    ASSUME TypeOK, NEW r \in Relays, pc[r] \in Stages
    PROVE  /\ batch[r] # <<>> /\ batch[r] \in Seq(Posts)
           /\ Post(r) \in Posts
           /\ Content(r) \in Contents
           /\ Item(r) \in Items
  <1>1. batch[r] # <<>> /\ batch[r] \in Seq(Posts)
    BY DEF TypeOK
  <1>2. Post(r) \in Posts
    BY <1>1 DEF Post
  <1>3. ctx[r].text \in Texts
    BY DEF TypeOK, Contexts
  <1>4. QED
    BY <1>1, <1>2, <1>3 DEF Posts, Content, Contents, Item, Items

\* A fetched page is a sequence of posts.
LEMMA PagesArePosts ==
    ASSUME NEW ch \in DOMAIN Feed, NEW s \in Pages(ch)
    PROVE  s \in Seq(Posts) /\ Len(s) \in Nat
  <1>1. PICK n \in 0 .. Limit : s \in [1 .. n -> Feed[ch]]
    BY DEF Pages
  <1>2. n \in Nat
    BY PipelineAssumption
  <1>3. Feed[ch] \subseteq Posts
    BY PipelineAssumption
  <1>4. s \in [1 .. n -> Posts]
    BY <1>1, <1>3
  <1>5. QED
    BY <1>2, <1>4

\* The fields of a report.
LEMMA ReportFields ==
    ASSUME NEW rep \in Reports
    PROVE  /\ rep.fetched \in Nat /\ rep.published \in Nat /\ rep.duplicates \in Nat
           /\ rep.errors \in BOOLEAN
  BY DEF Reports

\* Updates of one field keep a report a report and a context a context.
LEMMA ReportUpdates ==
    ASSUME NEW rep \in Reports, NEW m \in Nat, NEW n \in Nat, NEW b \in BOOLEAN
    PROVE  /\ [rep EXCEPT !.fetched = m] \in Reports
           /\ [rep EXCEPT !.errors = b] \in Reports
           /\ [rep EXCEPT !.published = m, !.duplicates = n, !.errors = b] \in Reports
  BY DEF Reports

\* Updates of one field, or of two at once, keep a context a context.
LEMMA ContextUpdates ==
    ASSUME NEW c \in Contexts, NEW t \in Texts
    PROVE  /\ c.text \in Texts
           /\ [c EXCEPT !.text = t] \in Contexts
           /\ [c EXCEPT !.duplicate = TRUE] \in Contexts
           /\ [c EXCEPT !.success = TRUE] \in Contexts
           /\ [c EXCEPT !.errors = TRUE] \in Contexts
           /\ [c EXCEPT !.valid = FALSE, !.errors = TRUE] \in Contexts
  BY DEF Contexts

----------------------------------------------------------------------------
(* Type correctness *)

\* Every relay starts idle, on an empty table.
LEMMA InitTypeOK == Init => TypeOK
  <1> SUFFICES ASSUME Init PROVE TypeOK
    OBVIOUS
  <1>1. 1 \in 1 .. Len(Channels) + 1
    BY PipelineAssumption
  <1>2. NoContext \in Contexts /\ NoReport \in Reports
    BY PipelineAssumption DEF NoContext, Contexts, NoReport, Reports
  <1>3. EmptyTable \in Tables
    BY DEF EmptyTable, Tables
  <1>4. QED
    BY <1>1, <1>2, <1>3, PipelineAssumption DEF Init, TypeOK, Stages

\* A run's own steps and the environment's.
LEMMA RunTypeOK ==
    ASSUME TypeOK, NEW r \in Relays, StartRun(r) \/ RunStep(r) \/ Crash(r)
    PROVE  TypeOK'
  <1> USE PipelineAssumption
  <1>0. Len(Channels) \in Nat
    OBVIOUS
  <1>1. CASE StartRun(r)
    <2>1. NoReport \in Reports
      BY DEF NoReport, Reports
    <2>2. QED
      BY <1>0, <1>1, <2>1, SMTT(30) DEF StartRun, TypeOK, At, Goto, Stages
  <1>2. CASE FetchPage(r)
    <2>1. PICK page \in Pages(Channels[chan[r]]) :
              /\ batch' = [batch EXCEPT ![r] = page]
              /\ report' = [report EXCEPT ![r].fetched = @ + Len(page)]
      BY <1>2 DEF FetchPage
    <2>2. Channels[chan[r]] \in DOMAIN Feed
      BY <1>0, <1>2 DEF FetchPage, TypeOK
    <2>3. page \in Seq(Posts) /\ Len(page) \in Nat
      BY <2>2, PagesArePosts
    <2>4. report' \in [Relays -> Reports]
      <3>1. report[r] \in Reports
        BY DEF TypeOK
      <3>2. report[r].fetched + Len(page) \in Nat
        BY <2>3, <3>1, ReportFields
      <3>3. [report[r] EXCEPT !.fetched = @ + Len(page)] \in Reports
        BY <3>1, <3>2, ReportUpdates
      <3>4. QED
        BY <2>1, <3>3 DEF TypeOK
    <2>5. QED
      BY <1>2, <2>1, <2>3, <2>4 DEF FetchPage, TypeOK, At, Goto, Stages
  <1>3. CASE FetchFails(r)
    <2>1. report' \in [Relays -> Reports]
      <3>1. report[r] \in Reports
        BY DEF TypeOK
      <3>2. [report[r] EXCEPT !.errors = TRUE] \in Reports
        BY <3>1, ReportUpdates
      <3>3. QED
        BY <1>3, <3>2 DEF FetchFails, TypeOK
    <2>2. chan' \in [Relays -> 1 .. Len(Channels) + 1]
      BY <1>0, <1>3 DEF FetchFails, TypeOK
    <2>3. \A q \in Relays : pc[q] \in Stages \cup {"item"} => chan'[q] = chan[q]
      BY <1>3 DEF FetchFails, TypeOK, At, Stages
    <2>4. QED
      BY <1>0, <1>3, <2>1, <2>2, <2>3 DEF FetchFails, TypeOK
  <1>4. CASE StartItem(r)
    <2>1. Post(r) \in Posts
      BY <1>4 DEF StartItem, TypeOK, Post
    <2>2. FreshContext(Post(r)) \in Contexts
      BY <2>1 DEF FreshContext, Posts, Contexts
    <2>3. <<"ProcessingStarted">> \in Seq(EventNames)
      BY DEF EventNames
    <2>4. ctx' \in [Relays -> Contexts] /\ events' \in [Relays -> Seq(EventNames)]
      BY <1>4, <2>2, <2>3 DEF StartItem, TypeOK
    <2>5. batch[r] # <<>> /\ chan[r] <= Len(Channels)
      BY <1>4 DEF StartItem, TypeOK, At
    <2>6. QED
      BY <1>4, <2>4, <2>5 DEF StartItem, TypeOK, At, Goto, Stages, runVars
  <1>5. CASE EndChannel(r)
    <2>1. chan[r] <= Len(Channels)
      BY <1>5 DEF EndChannel, TypeOK, At
    <2>2. QED
      BY <1>0, <1>5, <2>1, SMTT(30) DEF EndChannel, TypeOK, At, Goto, Stages
  <1>6. CASE EndRun(r)
    BY <1>6 DEF EndRun, TypeOK, At, Goto, Stages
  <1>7. CASE Crash(r)
    <2>1. NoReport \in Reports /\ NoContext \in Contexts
      BY DEF NoReport, Reports, NoContext, Contexts
    <2>2. QED
      BY <1>0, <1>7, <2>1 DEF Crash, TypeOK, At, Goto, Stages
  <1>8. QED
    BY <1>1, <1>2, <1>3, <1>4, <1>5, <1>6, <1>7 DEF RunStep

\* What a stage changes of TypeOK: the table, the deliveries, the context, the
\* events and the report keep their types, and control stays with the item.
LEMMA StageTypeStep ==
    ASSUME TypeOK, NEW r \in Relays, pc[r] \in Stages,
           NEW point \in Stages, Goto(r, point),
           UNCHANGED runVars,
           posts' \in Tables,
           delivered' \in [Relays -> [Items -> Nat]],
           ctx' \in [Relays -> Contexts],
           events' \in [Relays -> Seq(EventNames)]
    PROVE  TypeOK'
  BY DEF TypeOK, Goto, runVars

\* The pieces stages are made of keep the types.
LEMMA StageParts ==
    ASSUME TypeOK, NEW r \in Relays
    PROVE  /\ \A name \in EventNames :
                 Emit(r, name) => events' \in [Relays -> Seq(EventNames)]
           /\ NoteError(r) => ctx' \in [Relays -> Contexts]
           /\ Invalidate(r) => ctx' \in [Relays -> Contexts]
           /\ pc[r] \in Stages /\ Deliver(r) => delivered' \in [Relays -> [Items -> Nat]]
           /\ UNCHANGED events => events' \in [Relays -> Seq(EventNames)]
           /\ UNCHANGED ctx => ctx' \in [Relays -> Contexts]
           /\ UNCHANGED delivered => delivered' \in [Relays -> [Items -> Nat]]
           /\ UNCHANGED posts => posts' \in Tables
  <1>1. ASSUME NEW name \in EventNames, Emit(r, name)
        PROVE  events' \in [Relays -> Seq(EventNames)]
    <2>1. events[r] \in Seq(EventNames)
      BY DEF TypeOK
    <2>2. Append(events[r], name) \in Seq(EventNames)
      BY <2>1
    <2>3. QED
      BY <1>1, <2>2 DEF Emit, TypeOK
  <1>2. ctx[r] \in Contexts
    BY DEF TypeOK
  <1>3. /\ [ctx[r] EXCEPT !.errors = TRUE] \in Contexts
        /\ [ctx[r] EXCEPT !.valid = FALSE, !.errors = TRUE] \in Contexts
    BY <1>2, ctx[r].text \in Texts, ContextUpdates DEF Contexts
  <1>4. NoteError(r) => ctx' \in [Relays -> Contexts]
    BY <1>3 DEF NoteError, TypeOK
  <1>5. Invalidate(r) => ctx' \in [Relays -> Contexts]
    BY <1>3 DEF Invalidate, TypeOK
  <1>6. pc[r] \in Stages /\ Deliver(r) => delivered' \in [Relays -> [Items -> Nat]]
    BY CurrentIsItem DEF Deliver, TypeOK
  <1>7. QED
    BY <1>1, <1>4, <1>5, <1>6 DEF TypeOK

\* Every stage, and the end of execute.
LEMMA StageTypeOK ==
    ASSUME TypeOK, NEW r \in Relays, StageStep(r)
    PROVE  TypeOK'
  <1> USE StageParts, StageTypeStep
  <1>a. \A name \in EventNames : Emit(r, name) => events' \in [Relays -> Seq(EventNames)]
    OBVIOUS
  <1>b. StageRaises(r) => /\ ctx' \in [Relays -> Contexts]
                          /\ events' \in [Relays -> Seq(EventNames)]
                          /\ posts' \in Tables
                          /\ delivered' \in [Relays -> [Items -> Nat]]
    BY "ProcessingFailed" \in EventNames DEF StageRaises, EventNames
  <1>c. ctx[r] \in Contexts /\ ctx[r].text \in Texts
    BY DEF TypeOK, Contexts
  <1>1. CASE Normalize(r)
    <2>1. Strip[ctx[r].text] \in Texts
      BY <1>c, PipelineAssumption
    <2>2. [ctx[r] EXCEPT !.text = Strip[@]] \in Contexts
      BY <1>c, <2>1, ContextUpdates
    <2>3. ctx' \in [Relays -> Contexts]
      BY <1>1, <2>2 DEF Normalize, TypeOK
    <2>4. events' \in [Relays -> Seq(EventNames)]
      BY <1>1, <1>a DEF Normalize, EventNames
    <2>5. QED
      BY <1>1, <2>3, <2>4 DEF Normalize, At, Stages
  <1>2. CASE Validate(r)
    BY <1>2 DEF Validate, At, Stages
  <1>3. CASE Lookup(r)
    <2>1. [ctx[r] EXCEPT !.duplicate = TRUE] \in Contexts
      BY <1>c, ContextUpdates
    <2>2. ctx' \in [Relays -> Contexts]
      BY <1>3, <1>b, <2>1 DEF Lookup, TypeOK
    <2>3. events' \in [Relays -> Seq(EventNames)]
      BY <1>3, <1>a, <1>b DEF Lookup, EventNames
    <2>4. posts' \in Tables /\ delivered' \in [Relays -> [Items -> Nat]]
      BY <1>3, <1>b DEF Lookup
    <2>5. QED
      BY <1>3, <2>2, <2>3, <2>4 DEF Lookup, StageRaises, At, Stages
  <1>4. CASE Save(r)
    <2>1. pc[r] \in Stages
      BY <1>4 DEF Save, At, Stages
    <2>2. Post(r).key \in Keys /\ Content(r) \in Contents
      BY <2>1, CurrentIsItem DEF Posts
    <2>3. SavePending(posts, Post(r).key, Content(r)) \in Tables
      BY <2>2, TableOps DEF TypeOK
    <2>4. QED
      BY <1>4, <1>b, <2>1, <2>3 DEF Save, StageRaises, At, Stages
  <1>5. CASE FilterAge(r)
    BY <1>5 DEF FilterAge, At, Stages
  <1>6. CASE RunAI(r)
    <2>1. events' \in [Relays -> Seq(EventNames)] /\ ctx' \in [Relays -> Contexts]
      BY <1>6, <1>a DEF RunAI, EventNames
    <2>2. QED
      BY <1>6, <2>1 DEF RunAI, At, Stages
  <1>7. CASE RunMedia(r)
    <2>1. events' \in [Relays -> Seq(EventNames)] /\ ctx' \in [Relays -> Contexts]
      BY <1>7, <1>a DEF RunMedia, EventNames
    <2>2. QED
      BY <1>7, <2>1 DEF RunMedia, At, Stages
  <1>8. CASE Publish(r)
    <2>1. pc[r] \in Stages
      BY <1>8 DEF Publish, At, Stages
    <2>2. [ctx[r] EXCEPT !.success = TRUE] \in Contexts
      BY <1>c, ContextUpdates
    <2>3. ctx' \in [Relays -> Contexts]
      BY <1>8, <2>2 DEF Publish, TypeOK
    <2>4. events' \in [Relays -> Seq(EventNames)]
      BY <1>8, <1>a DEF Publish, EventNames
    <2>5. delivered' \in [Relays -> [Items -> Nat]]
      BY <1>8, <2>1 DEF Publish
    <2>6. QED
      BY <1>8, <2>1, <2>3, <2>4, <2>5 DEF Publish, Stages
  <1>9. CASE Mark(r)
    <2>1. pc[r] \in Stages
      BY <1>9 DEF Mark, At, Stages
    <2>2. MarkPublished(posts, Post(r).key) \in Tables
      BY <2>1, CurrentIsItem, TableOps DEF TypeOK, Posts
    <2>3. events' \in [Relays -> Seq(EventNames)]
      BY <1>9, <1>a DEF Mark, EventNames
    <2>4. QED
      BY <1>9, <2>1, <2>2, <2>3 DEF Mark, Stages
  <1>10. CASE Finish(r)
    <2>1. batch[r] # <<>> /\ batch[r] \in Seq(Posts)
      BY <1>10, CurrentIsItem DEF Finish, At, Stages
    <2>2. Tail(batch[r]) \in Seq(Posts)
      BY <2>1
    <2>3. NoContext \in Contexts
      BY PipelineAssumption DEF NoContext, Contexts
    <2>4. events' \in [Relays -> Seq(EventNames)]
      BY <1>10, <1>a DEF Finish, EventNames
    <2>5. report' \in [Relays -> Reports]
      <3>1. report[r] \in Reports
        BY DEF TypeOK
      <3>2. ctx[r].errors \in BOOLEAN
        BY <1>c DEF Contexts
      <3> DEFINE m == IF ctx[r].success THEN report[r].published + 1 ELSE report[r].published
                 n == IF ctx[r].duplicate THEN report[r].duplicates + 1 ELSE report[r].duplicates
                 b == report[r].errors \/ ctx[r].errors
      <3>3. m \in Nat /\ n \in Nat
        BY <3>1, ReportFields
      <3>4. b \in BOOLEAN
        OBVIOUS
      <3>5. [report[r] EXCEPT !.published = m, !.duplicates = n, !.errors = b] \in Reports
        BY <3>1, <3>3, <3>4, ReportUpdates
      <3>6. report' = [report EXCEPT ![r] =
                [report[r] EXCEPT !.published = m, !.duplicates = n, !.errors = b]]
        BY <1>10 DEF Finish
      <3>7. QED
        BY <3>5, <3>6 DEF TypeOK
    <2>6. QED
      BY <1>10, <2>2, <2>3, <2>4, <2>5 DEF Finish, TypeOK, At, Goto, Stages
  <1>11. QED
    BY <1>1, <1>2, <1>3, <1>4, <1>5, <1>6, <1>7, <1>8, <1>9, <1>10 DEF StageStep

\* Every step of every relay keeps the types; so does stuttering.
LEMMA NextTypeOK == TypeOK /\ [Next]_vars => TypeOK'
  <1> SUFFICES ASSUME TypeOK, [Next]_vars PROVE TypeOK'
    OBVIOUS
  <1>1. CASE Next
    BY <1>1, RunTypeOK, StageTypeOK DEF Next
  <1>2. CASE UNCHANGED vars
    BY <1>2 DEF vars, TypeOK
  <1>3. QED
    BY <1>1, <1>2

\* The types of PipelineEngine hold for every number of relays and every bound;
\* in particular a relay inside the stages has a current post, and the channel
\* loop of Pipeline.run never leaves the configured channels.
THEOREM TypeCorrect == Spec => []TypeOK
  BY InitTypeOK, NextTypeOK, PTL DEF Spec

----------------------------------------------------------------------------
(* The invariant of any number of relays *)

Waiting == {"save", "age", "ai", "media", "publish"}
Claiming == {"age", "ai", "media", "publish", "mark"}

\* A step that touches neither the table nor the deliveries, and takes one relay
\* to a point whose claims it can make, or to one without claims.
LEMMA QuietStep ==
    ASSUME PipelineInv, TypeOK', NEW r \in Relays,
           posts' = posts, delivered' = delivered,
           \A q \in Relays \ {r} : pc'[q] = pc[q] /\ batch'[q] = batch[q],
           pc'[r] # "mark",
           pc'[r] \in Claiming =>
               batch'[r] = batch[r] /\ HasKey(posts, Post(r).key),
           pc'[r] \in Waiting =>
               batch'[r] = batch[r] /\ \A i \in Executed(r) : i.key # Post(r).key
    PROVE  PipelineInv'
  <1>1. \A q \in Relays : Executed(q)' = Executed(q)
    BY DEF Executed
  <1>2. \A q \in Relays \ {r} : Post(q)' = Post(q)
    BY DEF Post
  <1>3. batch'[r] = batch[r] => Post(r)' = Post(r)
    BY DEF Post
  <1>4. CurrentIsClaimed'
    BY <1>2, <1>3 DEF PipelineInv, CurrentIsClaimed, Claiming
  <1>5. ExecutedIsClaimed'
    BY <1>1 DEF PipelineInv, ExecutedIsClaimed
  <1>6. CurrentIsNew'
    BY <1>1, <1>2, <1>3 DEF PipelineInv, CurrentIsNew, Waiting
  <1>7. MarkedIsExecuted'
    BY <1>1, <1>2 DEF PipelineInv, MarkedIsExecuted, At
  <1>8. AtMostOncePerRelay'
    BY <1>1 DEF PipelineInv, AtMostOncePerRelay
  <1>9. PublishedWasDelivered'
    BY <1>1 DEF PipelineInv, PublishedWasDelivered
  <1>10. QED
    BY <1>4, <1>5, <1>6, <1>7, <1>8, <1>9 DEF PipelineInv

\* The steps of a run and a crash are quiet.
LEMMA RunInv ==
    ASSUME PipelineInv, TypeOK', NEW r \in Relays,
           StartRun(r) \/ RunStep(r) \/ Crash(r)
    PROVE  PipelineInv'
  <1>1. TypeOK
    BY DEF PipelineInv
  <1>2. posts' = posts /\ delivered' = delivered
    BY DEF StartRun, RunStep, FetchPage, FetchFails, StartItem, EndChannel, EndRun, Crash
  <1>3. \A q \in Relays \ {r} : pc'[q] = pc[q] /\ batch'[q] = batch[q]
    BY <1>1 DEF StartRun, RunStep, FetchPage, FetchFails, StartItem, EndChannel, EndRun,
                Crash, Goto, TypeOK, runVars
  <1>4. pc'[r] \in {"idle", "channel", "item", "normalize"}
    BY <1>1 DEF StartRun, RunStep, FetchPage, FetchFails, StartItem, EndChannel, EndRun,
                Crash, At, Goto, TypeOK
  <1>5. QED
    BY <1>2, <1>3, <1>4, QuietStep DEF Claiming, Waiting

\* The steps of the stages that neither save, nor publish, nor mark.
LEMMA QuietStageInv ==
    ASSUME PipelineInv, TypeOK', NEW r \in Relays,
           \/ Normalize(r) \/ Validate(r) \/ Lookup(r) \/ FilterAge(r)
           \/ RunAI(r) \/ RunMedia(r) \/ Finish(r)
    PROVE  PipelineInv'
  <1>1. TypeOK
    BY DEF PipelineInv
  <1>2. posts' = posts /\ delivered' = delivered
    BY DEF Normalize, Validate, Lookup, FilterAge, RunAI, RunMedia, Finish, StageRaises
  <1>3. \A q \in Relays \ {r} : pc'[q] = pc[q] /\ batch'[q] = batch[q]
    BY <1>1 DEF Normalize, Validate, Lookup, FilterAge, RunAI, RunMedia, Finish,
                StageRaises, Goto, TypeOK, runVars
  <1>4. CASE Normalize(r) \/ Validate(r) \/ Finish(r)
    <2>1. pc'[r] \in {"validate", "lookup", "finish", "item"}
      BY <1>1, <1>4 DEF Normalize, Validate, Finish, Goto, TypeOK
    <2>2. QED
      BY <1>2, <1>3, <2>1, QuietStep DEF Claiming, Waiting
  <1>5. CASE Lookup(r)
    <2>1. batch' = batch /\ pc'[r] \in {"finish", "save"}
      BY <1>1, <1>5 DEF Lookup, StageRaises, Goto, TypeOK, runVars
    <2>2. pc'[r] = "save" => ~HasKey(posts, Post(r).key)
      BY <1>1, <1>5 DEF Lookup, StageRaises, Goto, TypeOK, Exists
    <2>3. pc'[r] = "save" => \A i \in Executed(r) : i.key # Post(r).key
      BY <2>2 DEF PipelineInv, ExecutedIsClaimed
    <2>4. QED
      BY <1>2, <1>3, <2>1, <2>3, QuietStep DEF Claiming, Waiting
  <1>6. CASE FilterAge(r) \/ RunAI(r) \/ RunMedia(r)
    <2>1. /\ batch' = batch
          /\ pc[r] \in {"age", "ai", "media"}
          /\ pc'[r] \in {"ai", "media", "publish", "finish"}
      BY <1>1, <1>6 DEF FilterAge, RunAI, RunMedia, At, Goto, TypeOK, runVars
    <2>2. HasKey(posts, Post(r).key) /\ \A i \in Executed(r) : i.key # Post(r).key
      BY <2>1 DEF PipelineInv, CurrentIsClaimed, CurrentIsNew
    <2>3. QED
      BY <1>2, <1>3, <2>1, <2>2, QuietStep DEF Claiming, Waiting
  <1>7. QED
    BY <1>4, <1>5, <1>6

\* The insert claims the key of the current item and takes no claim away.
LEMMA SaveInv ==
    ASSUME PipelineInv, TypeOK', NEW r \in Relays, Save(r)
    PROVE  PipelineInv'
  <1>1. TypeOK /\ pc[r] = "save"
    BY DEF PipelineInv, Save, At
  <1>2. batch' = batch /\ delivered' = delivered
    BY DEF Save, StageRaises, runVars
  <1>3. \A q \in Relays \ {r} : pc'[q] = pc[q]
    BY <1>1 DEF Save, StageRaises, Goto, TypeOK
  <1>4. CASE StageRaises(r)
    <2>1. posts' = posts /\ pc'[r] = "finish"
      BY <1>1, <1>4 DEF StageRaises, Goto, TypeOK
    <2>2. QED
      BY <1>2, <1>3, <2>1, QuietStep DEF Claiming, Waiting
  <1>5. CASE posts' = SavePending(posts, Post(r).key, Content(r)) /\ Goto(r, "age")
    <2> DEFINE key == Post(r).key
    <2>1. key \in Keys /\ Content(r) \in Contents /\ posts \in Tables
      BY <1>1, CurrentIsItem DEF Stages, Posts, TypeOK
    <2>2. pc' = [pc EXCEPT ![r] = "age"]
      BY <1>5 DEF Goto
    <2>3. \A k \in Keys : HasKey(posts, k) => HasKey(posts, k)'
      BY <1>5, <2>1, RowsStay DEF HasKey
    <2>4. HasKey(posts, key)'
      BY <1>2, <1>5, <2>1, NoRowAssumption DEF HasKey, SavePending, Tables, Rows, Post
    <2>5. \A k \in Keys : IsPublished(posts, k)' => IsPublished(posts, k)
      BY <1>5, <2>1, NoRowAssumption DEF IsPublished, HasKey, SavePending, Tables, Rows
    <2>6. \A q \in Relays : Executed(q)' = Executed(q) /\ Post(q)' = Post(q)
      BY <1>2 DEF Executed, Post
    <2>7. \A q \in Relays : \A i \in Executed(q) : i.key \in Keys
      BY DEF Executed, Items
    <2>8. \A q \in Relays : pc[q] \in Stages => Post(q).key \in Keys
      BY <1>1, CurrentIsItem DEF Posts
    <2>9. CurrentIsClaimed'
      BY <1>1, <2>2, <2>3, <2>4, <2>6, <2>8
      DEF PipelineInv, CurrentIsClaimed, TypeOK, Stages
    <2>10. ExecutedIsClaimed'
      BY <2>3, <2>6, <2>7 DEF PipelineInv, ExecutedIsClaimed
    <2>11. CurrentIsNew'
      BY <1>1, <2>2, <2>6 DEF PipelineInv, CurrentIsNew, TypeOK
    <2>12. MarkedIsExecuted'
      BY <1>1, <2>2, <2>6 DEF PipelineInv, MarkedIsExecuted, At, TypeOK
    <2>13. AtMostOncePerRelay'
      BY <1>2, <2>6 DEF PipelineInv, AtMostOncePerRelay
    <2>14. PublishedWasDelivered'
      BY <2>5, <2>6 DEF PipelineInv, PublishedWasDelivered
    <2>15. QED
      BY <2>9, <2>10, <2>11, <2>12, <2>13, <2>14 DEF PipelineInv
  <1>6. QED
    BY <1>4, <1>5 DEF Save
\* An executed POST adds the current item to the relay's executed items.
LEMMA DeliverEffect ==
    ASSUME TypeOK, NEW r \in Relays, pc[r] \in Stages, Deliver(r)
    PROVE  /\ Item(r) \in Items
           /\ Executed(r)' = Executed(r) \cup {Item(r)}
           /\ \A q \in Relays \ {r} : delivered'[q] = delivered[q] /\ Executed(q)' = Executed(q)
           /\ \A i \in Items \ {Item(r)} : delivered'[r][i] = delivered[r][i]
           /\ delivered'[r][Item(r)] = delivered[r][Item(r)] + 1
  <1>1. Item(r) \in Items
    BY CurrentIsItem
  <1>2. delivered \in [Relays -> [Items -> Nat]]
    BY DEF TypeOK
  <1>3. /\ \A q \in Relays \ {r} : delivered'[q] = delivered[q]
        /\ \A i \in Items \ {Item(r)} : delivered'[r][i] = delivered[r][i]
        /\ delivered'[r][Item(r)] = delivered[r][Item(r)] + 1
    BY <1>1, <1>2 DEF Deliver
  <1>4. \A q \in Relays \ {r} : Executed(q)' = Executed(q)
    BY <1>3 DEF Executed
  <1>5. delivered[r][Item(r)] \in Nat
    BY <1>1, <1>2
  <1>6. Executed(r)' = Executed(r) \cup {Item(r)}
    BY <1>1, <1>3, <1>5 DEF Executed
  <1>7. QED
    BY <1>1, <1>3, <1>4, <1>6

\* The POST: the item was never executed before, so it now was once; the relay
\* goes on to mark it only after an execution.
LEMMA PublishInv ==
    ASSUME PipelineInv, TypeOK', NEW r \in Relays, Publish(r)
    PROVE  PipelineInv'
  <1>1. TypeOK /\ pc[r] = "publish" /\ pc[r] \in Stages
    BY DEF PipelineInv, Publish, At, Stages
  <1>2. batch' = batch /\ posts' = posts
    BY DEF Publish, runVars
  <1>3. \A q \in Relays \ {r} : pc'[q] = pc[q]
    BY <1>1 DEF Publish, Goto, TypeOK
  <1>4. pc'[r] \in {"mark", "finish"} /\ (Deliver(r) \/ pc'[r] = "finish")
    BY <1>1 DEF Publish, Goto, TypeOK
  <1>5. CASE delivered' = delivered /\ pc'[r] = "finish"
    BY <1>2, <1>3, <1>5, QuietStep DEF Claiming, Waiting
  <1>6. CASE Deliver(r)
    <2>1. Item(r).key = Post(r).key
      BY DEF Item
    <2>2. HasKey(posts, Post(r).key) /\ \A i \in Executed(r) : i.key # Post(r).key
      BY <1>1 DEF PipelineInv, CurrentIsClaimed, CurrentIsNew
    <2>3. Item(r) \in Items /\ delivered \in [Relays -> [Items -> Nat]]
      BY <1>1, <1>6, DeliverEffect DEF TypeOK
    <2>4. delivered'[r][Item(r)] = 1
      <3>1. Item(r) \notin Executed(r)
        BY <2>1, <2>2
      <3>2. delivered[r][Item(r)] = 0
        BY <2>3, <3>1 DEF Executed
      <3>3. QED
        BY <1>1, <1>6, <3>2, DeliverEffect
    <2>5. \A q \in Relays : Post(q)' = Post(q)
      BY <1>2 DEF Post
    <2>6. /\ Executed(r)' = Executed(r) \cup {Item(r)}
          /\ \A q \in Relays \ {r} : Executed(q)' = Executed(q)
      BY <1>1, <1>6, DeliverEffect
    <2>7. CurrentIsClaimed'
      BY <1>1, <1>2, <1>3, <1>4, <2>2, <2>5 DEF PipelineInv, CurrentIsClaimed
    <2>8. ExecutedIsClaimed'
      BY <1>2, <2>1, <2>2, <2>6 DEF PipelineInv, ExecutedIsClaimed
    <2>9. CurrentIsNew'
      BY <1>3, <1>4, <2>5, <2>6 DEF PipelineInv, CurrentIsNew
    <2>10. MarkedIsExecuted'
      BY <1>3, <2>1, <2>5, <2>6 DEF PipelineInv, MarkedIsExecuted, At
    <2>11. AtMostOncePerRelay'
      <3> SUFFICES ASSUME NEW q \in Relays, NEW i \in Executed(q)', NEW j \in Executed(q)'
                   PROVE  delivered'[q][i] = 1 /\ (i.key = j.key => i = j)
        BY DEF AtMostOncePerRelay
      <3>1. CASE q # r
        BY <1>1, <1>6, <2>6, <3>1, DeliverEffect DEF PipelineInv, AtMostOncePerRelay
      <3>2. CASE q = r
        <4>1. i \in Executed(r) \cup {Item(r)} /\ j \in Executed(r) \cup {Item(r)}
          BY <2>6, <3>2
        <4>2. delivered'[r][i] = 1
          <5>1. CASE i = Item(r)
            BY <2>4, <5>1
          <5>2. CASE i # Item(r)
            <6>1. i \in Executed(r) /\ i \in Items
              BY <4>1, <5>2 DEF Executed
            <6>2. delivered[r][i] = 1
              BY <6>1 DEF PipelineInv, AtMostOncePerRelay
            <6>3. QED
              BY <1>1, <1>6, <5>2, <6>1, <6>2, DeliverEffect
          <5>3. QED
            BY <5>1, <5>2
        <4>3. i.key = j.key => i = j
          BY <2>1, <2>2, <4>1 DEF PipelineInv, AtMostOncePerRelay
        <4>4. QED
          BY <3>2, <4>2, <4>3
      <3>3. QED
        BY <3>1, <3>2
    <2>12. PublishedWasDelivered'
      BY <1>2, <2>6 DEF PipelineInv, PublishedWasDelivered
    <2>13. QED
      BY <2>7, <2>8, <2>9, <2>10, <2>11, <2>12 DEF PipelineInv
  <1>7. QED
    BY <1>4, <1>5, <1>6 DEF Publish

\* The mark: the row it turns to `published' is one whose key was executed.
LEMMA MarkInv ==
    ASSUME PipelineInv, TypeOK', NEW r \in Relays, Mark(r)
    PROVE  PipelineInv'
  <1> DEFINE key == Post(r).key
  <1>1. TypeOK /\ pc[r] = "mark"
    BY DEF PipelineInv, Mark, At
  <1>2. batch' = batch /\ delivered' = delivered
    BY DEF Mark, runVars
  <1>3. \A q \in Relays \ {r} : pc'[q] = pc[q]
    BY <1>1 DEF Mark, Goto, TypeOK
  <1>4. pc'[r] = "finish"
    BY <1>1 DEF Mark, Goto, TypeOK
  <1>5. CASE posts' = posts
    BY <1>2, <1>3, <1>4, <1>5, QuietStep DEF Claiming, Waiting
  <1>6. CASE posts' = MarkPublished(posts, key)
    <2>1. key \in Keys /\ posts \in Tables
      BY <1>1, CurrentIsItem DEF Stages, Posts, TypeOK
    <2>2. \A q \in Relays : Executed(q)' = Executed(q) /\ Post(q)' = Post(q)
      BY <1>2 DEF Executed, Post
    <2>3. \A k \in Keys : HasKey(posts, k) => HasKey(posts, k)'
      BY <1>6, <2>1, NoRowAssumption DEF HasKey, MarkPublished, Tables, Rows
    <2>4. \A k \in Keys \ {key} : IsPublished(posts, k)' => IsPublished(posts, k)
      BY <1>6, <2>1 DEF IsPublished, HasKey, MarkPublished, Tables
    <2>5. \E i \in Executed(r) : i.key = key
      BY <1>1 DEF PipelineInv, MarkedIsExecuted, At
    <2>6. \A q \in Relays : \A i \in Executed(q) : i.key \in Keys
      BY DEF Executed, Items
    <2>7. \A q \in Relays : pc[q] \in Stages => Post(q).key \in Keys
      BY <1>1, CurrentIsItem DEF Posts
    <2>8. CurrentIsClaimed'
      BY <1>3, <1>4, <2>2, <2>3, <2>7 DEF PipelineInv, CurrentIsClaimed, Stages
    <2>9. ExecutedIsClaimed'
      BY <2>2, <2>3, <2>6 DEF PipelineInv, ExecutedIsClaimed
    <2>10. CurrentIsNew'
      BY <1>3, <1>4, <2>2 DEF PipelineInv, CurrentIsNew
    <2>11. MarkedIsExecuted'
      BY <1>3, <1>4, <2>2 DEF PipelineInv, MarkedIsExecuted, At
    <2>12. AtMostOncePerRelay'
      BY <1>2, <2>2 DEF PipelineInv, AtMostOncePerRelay
    <2>13. PublishedWasDelivered'
      BY <2>2, <2>4, <2>5 DEF PipelineInv, PublishedWasDelivered
    <2>14. QED
      BY <2>8, <2>9, <2>10, <2>11, <2>12, <2>13 DEF PipelineInv
  <1>7. QED
    BY <1>5, <1>6 DEF Mark

\* Nothing is claimed, executed or published at first.
LEMMA InitPipelineInv == Init => PipelineInv
  <1> SUFFICES ASSUME Init PROVE PipelineInv
    OBVIOUS
  <1>1. TypeOK
    BY InitTypeOK
  <1>2. \A r \in Relays : Executed(r) = {} /\ pc[r] = "idle"
    BY DEF Init, Executed
  <1>3. \A k \in Keys : ~HasKey(posts, k)
    BY DEF Init, EmptyTable, HasKey
  <1>4. QED
    BY <1>1, <1>2, <1>3
    DEF PipelineInv, CurrentIsClaimed, ExecutedIsClaimed, CurrentIsNew, MarkedIsExecuted,
        AtMostOncePerRelay, PublishedWasDelivered, IsPublished, At

\* The invariant is inductive.
LEMMA NextPipelineInv == PipelineInv /\ [Next]_vars => PipelineInv'
  <1> SUFFICES ASSUME PipelineInv, [Next]_vars PROVE PipelineInv'
    OBVIOUS
  <1>1. TypeOK'
    BY NextTypeOK DEF PipelineInv
  <1>2. CASE Next
    BY <1>1, <1>2, RunInv, QuietStageInv, SaveInv, PublishInv, MarkInv DEF Next, StageStep
  <1>3. CASE UNCHANGED vars
    BY <1>1, <1>3
    DEF vars, PipelineInv, CurrentIsClaimed, ExecutedIsClaimed, CurrentIsNew, MarkedIsExecuted,
        AtMostOncePerRelay, PublishedWasDelivered, Executed, Post, At
  <1>4. QED
    BY <1>2, <1>3

\* The invariant of the relays' claims on the table holds in every reachable
\* state, however many relays share the table and whichever of them crash.
THEOREM PipelineInvariant == Spec => []PipelineInv
  BY InitPipelineInv, NextPipelineInv, PTL DEF Spec

\* Duplicate detection: a relay has at most one version of a (channel,
\* message_id) executed by Eitaa, once, in all its runs.
THEOREM DeliveredAtMostOnce == Spec => []AtMostOncePerRelay
  <1>1. PipelineInv => AtMostOncePerRelay
    BY DEF PipelineInv
  <1>2. QED
    BY <1>1, PipelineInvariant, PTL

\* The table never calls a post published of which Eitaa executed no POST.
THEOREM PublishedIsTrue == Spec => []PublishedWasDelivered
  <1>1. PipelineInv => PublishedWasDelivered
    BY DEF PipelineInv
  <1>2. QED
    BY <1>1, PipelineInvariant, PTL

----------------------------------------------------------------------------
(***************************************************************************)
(* A single relay process: the row of a post keeps the content the post was *)
(* looked up under, so the content hash keeps a content from being published *)
(* twice, `published' is final, and the pipeline implements PostLifecycle. *)
(***************************************************************************)

\* A step of the only relay r that leaves the table and the deliveries alone.
LEMMA QuietStepOne ==
    ASSUME NEW r, Relays = {r}, OneRelayInv, PipelineInv', TextsAreStripped',
           posts' = posts, delivered' = delivered,
           pc'[r] = "save" => /\ batch'[r] = batch[r] /\ ctx'[r].text = ctx[r].text
                              /\ ~Exists(posts, Post(r).key, Content(r)),
           pc'[r] \in Claiming => /\ batch'[r] = batch[r] /\ ctx'[r].text = ctx[r].text
                                  /\ posts[Post(r).key].content = Content(r)
    PROVE  OneRelayInv'
  <1>1. batch'[r] = batch[r] /\ ctx'[r].text = ctx[r].text =>
            Post(r)' = Post(r) /\ Content(r)' = Content(r)
    BY DEF Post, Content
  <1>2. RowsDiffer'
    BY DEF OneRelayInv, RowsDiffer
  <1>3. ExecutedIsRow'
    BY DEF OneRelayInv, ExecutedIsRow, Executed
  <1>4. QueryStillHolds'
    BY <1>1 DEF QueryStillHolds, At
  <1>5. CurrentIsRow'
    BY <1>1 DEF CurrentIsRow, Claiming
  <1>6. QED
    BY <1>2, <1>3, <1>4, <1>5 DEF OneRelayInv

\* Setting flags of a context leaves its text.
LEMMA FlagsOnly ==
    ASSUME TypeOK, NEW r \in Relays, NoteError(r) \/ Invalidate(r) \/ UNCHANGED ctx
    PROVE  ctx'[r].text = ctx[r].text
  <1>1. ctx \in [Relays -> Contexts]
    BY DEF TypeOK
  <1>2. ctx[r] \in Contexts
    BY <1>1
  <1>3. /\ [ctx[r] EXCEPT !.errors = TRUE].text = ctx[r].text
        /\ [ctx[r] EXCEPT !.valid = FALSE, !.errors = TRUE].text = ctx[r].text
    BY <1>2 DEF Contexts
  <1>4. QED
    BY <1>1, <1>3 DEF NoteError, Invalidate

\* So does recording a success.
LEMMA SuccessOnly ==
    ASSUME TypeOK, NEW r \in Relays, ctx' = [ctx EXCEPT ![r].success = TRUE]
    PROVE  ctx'[r].text = ctx[r].text
  <1>1. ctx \in [Relays -> Contexts] /\ ctx[r] \in Contexts
    BY DEF TypeOK
  <1>2. [ctx[r] EXCEPT !.success = TRUE].text = ctx[r].text
    BY <1>1 DEF Contexts
  <1>3. QED
    BY <1>1, <1>2

\* What the insert does to the rows: the key had none, no row had the content.
LEMMA SaveEffect ==
    ASSUME NEW t \in Tables, NEW k \in Keys, NEW c \in Contents, ~Exists(t, k, c)
    PROVE  /\ SavePending(t, k, c)[k] = [content |-> c, status |-> "pending"]
           /\ HasKey(SavePending(t, k, c), k)
           /\ \A j \in Keys \ {k} : SavePending(t, k, c)[j] = t[j]
           /\ ~HasKey(t, k)
           /\ \A j \in Keys : HasKey(t, j) => t[j].content # c
  BY NoRowAssumption DEF Exists, HasKey, HasContent, SavePending, Tables, Rows

\* What the mark does to the rows: keys and contents stay.
LEMMA MarkEffect ==
    ASSUME NEW t \in Tables, NEW k \in Keys
    PROVE  /\ \A j \in Keys : HasKey(MarkPublished(t, k), j) <=> HasKey(t, j)
           /\ \A j \in Keys : HasKey(t, j) => MarkPublished(t, k)[j].content = t[j].content
           /\ \A j \in Keys \ {k} : MarkPublished(t, k)[j] = t[j]
           /\ HasKey(t, k) => IsPublished(MarkPublished(t, k), k)
  BY NoRowAssumption DEF HasKey, MarkPublished, Tables, Rows, IsPublished

\* Every step of the only relay keeps the invariant of the single relay.
LEMMA OneRelayStep ==
    ASSUME NEW r, Relays = {r}, OneRelayInv, PipelineInv', TextsAreStripped',
           StartRun(r) \/ RunStep(r) \/ StageStep(r) \/ Crash(r)
    PROVE  OneRelayInv'
  <1>0. TypeOK /\ PipelineInv /\ r \in Relays
    BY DEF OneRelayInv, PipelineInv
  <1>1. CASE StartRun(r) \/ RunStep(r) \/ Crash(r)
    <2>1. posts' = posts /\ delivered' = delivered
      BY <1>1 DEF StartRun, RunStep, FetchPage, FetchFails, StartItem, EndChannel, EndRun, Crash
    <2>2. pc'[r] \in {"idle", "channel", "item", "normalize"}
      BY <1>0, <1>1 DEF StartRun, RunStep, FetchPage, FetchFails, StartItem, EndChannel, EndRun,
                        Crash, At, Goto, TypeOK
    <2>3. QED
      BY <2>1, <2>2, QuietStepOne DEF Claiming
  <1>2. CASE Normalize(r) \/ Validate(r) \/ Finish(r)
    <2>1. posts' = posts /\ delivered' = delivered
      BY <1>2 DEF Normalize, Validate, Finish
    <2>2. pc'[r] \in {"validate", "lookup", "finish", "item"}
      BY <1>0, <1>2 DEF Normalize, Validate, Finish, Goto, TypeOK
    <2>3. QED
      BY <2>1, <2>2, QuietStepOne DEF Claiming
  <1>3. CASE Lookup(r)
    <2>1. posts' = posts /\ delivered' = delivered /\ batch' = batch
      BY <1>3 DEF Lookup, StageRaises, runVars
    <2>2. pc'[r] \in {"finish", "save"}
      BY <1>0, <1>3 DEF Lookup, StageRaises, Goto, TypeOK
    <2>3. pc'[r] = "save" => ctx' = ctx /\ ~Exists(posts, Post(r).key, Content(r))
      BY <1>0, <1>3 DEF Lookup, StageRaises, Goto, TypeOK
    <2>4. QED
      BY <2>1, <2>2, <2>3, QuietStepOne DEF Claiming
  <1>4. CASE Save(r)
    <2>1. batch' = batch /\ delivered' = delivered
      BY <1>4 DEF Save, StageRaises, runVars
    <2>2. CASE StageRaises(r)
      <3>1. posts' = posts /\ pc'[r] = "finish"
        BY <1>0, <2>2 DEF StageRaises, Goto, TypeOK
      <3>2. QED
        BY <2>1, <3>1, QuietStepOne DEF Claiming
    <2>3. CASE posts' = SavePending(posts, Post(r).key, Content(r)) /\ Goto(r, "age") /\ ctx' = ctx
      <3> DEFINE k == Post(r).key
                 c == Content(r)
      <3>1. pc[r] = "save" /\ pc'[r] = "age"
        BY <1>0, <1>4, <2>3 DEF Save, At, Goto, TypeOK
      <3>2. k \in Keys /\ c \in Contents /\ posts \in Tables
        BY <1>0, <3>1, CurrentIsItem DEF Stages, Posts, TypeOK
      <3>3. ~Exists(posts, k, c)
        BY <1>0, <3>1 DEF OneRelayInv, QueryStillHolds, At
      <3> HIDE DEF k, c
      <3>4. /\ posts'[k].content = c
            /\ \A j \in Keys \ {k} : posts'[j] = posts[j]
            /\ \A j \in Keys : HasKey(posts, j) => posts[j].content # c
        <4>1. posts' = SavePending(posts, k, c)
          BY <2>3 DEF k, c
        <4>2. posts'[k] = [content |-> c, status |-> "pending"]
          BY <3>2, <3>3, <4>1, SaveEffect
        <4>3. QED
          BY <3>2, <3>3, <4>1, <4>2, SaveEffect
      <3>5. Post(r)' = Post(r) /\ Content(r)' = c
        BY <2>1, <2>3 DEF Post, Content, c
      <3>6. RowsDiffer'
        BY <3>2, <3>4 DEF OneRelayInv, RowsDiffer, HasKey
      <3>7. ExecutedIsRow'
        <4>1. \A i \in Executed(r) : i.key # k /\ i.key \in Keys
          BY <1>0, <3>1 DEF PipelineInv, CurrentIsNew, Executed, Items, k
        <4>2. Executed(r)' = Executed(r)
          BY <2>1 DEF Executed
        <4>3. QED
          BY <3>4, <4>1, <4>2 DEF OneRelayInv, ExecutedIsRow
      <3>8. QueryStillHolds'
        BY <3>1 DEF QueryStillHolds, At
      <3>9. CurrentIsRow'
        BY <3>4, <3>5 DEF CurrentIsRow, k
      <3>10. QED
        BY <3>6, <3>7, <3>8, <3>9 DEF OneRelayInv
    <2>4. QED
      BY <1>4, <2>2, <2>3 DEF Save
  <1>5. CASE FilterAge(r) \/ RunAI(r) \/ RunMedia(r)
    <2>1. posts' = posts /\ delivered' = delivered /\ batch' = batch
      BY <1>5 DEF FilterAge, RunAI, RunMedia, runVars
    <2>2. pc[r] \in Claiming /\ pc'[r] \in {"ai", "media", "publish", "finish"}
      BY <1>0, <1>5 DEF FilterAge, RunAI, RunMedia, At, Goto, TypeOK, Claiming
    <2>3. ctx'[r].text = ctx[r].text
      BY <1>0, <1>5, FlagsOnly DEF FilterAge, RunAI, RunMedia
    <2>4. posts[Post(r).key].content = Content(r)
      BY <1>0, <2>2 DEF OneRelayInv, CurrentIsRow, Claiming
    <2>5. QED
      BY <2>1, <2>2, <2>3, <2>4, QuietStepOne DEF Claiming
  <1>6. CASE Publish(r)
    <2>1. posts' = posts /\ batch' = batch
      BY <1>6 DEF Publish, runVars
    <2>2. pc[r] = "publish" /\ pc[r] \in Stages /\ pc'[r] \in {"mark", "finish"}
      BY <1>0, <1>6 DEF Publish, At, Goto, TypeOK, Stages
    <2>3. ctx'[r].text = ctx[r].text
      BY <1>0, <1>6, SuccessOnly, FlagsOnly DEF Publish
    <2>4. posts[Post(r).key].content = Content(r)
      BY <1>0, <2>2 DEF OneRelayInv, CurrentIsRow
    <2>5. Post(r)' = Post(r) /\ Content(r)' = Content(r)
      BY <2>1, <2>3 DEF Post, Content
    <2>6. ExecutedIsRow'
      <3>1. CASE delivered' = delivered
        BY <2>1, <3>1 DEF OneRelayInv, ExecutedIsRow, Executed
      <3>2. CASE Deliver(r)
        <4>1. Executed(r)' = Executed(r) \cup {Item(r)}
          BY <1>0, <2>2, <3>2, DeliverEffect
        <4>2. Item(r).key = Post(r).key /\ Item(r).content = Content(r)
          BY DEF Item
        <4>3. QED
          BY <2>1, <2>4, <4>1, <4>2 DEF OneRelayInv, ExecutedIsRow
      <3>3. QED
        BY <1>6, <3>1, <3>2 DEF Publish
    <2>7. RowsDiffer'
      BY <2>1 DEF OneRelayInv, RowsDiffer
    <2>8. QueryStillHolds' /\ CurrentIsRow'
      BY <2>1, <2>2, <2>4, <2>5 DEF QueryStillHolds, CurrentIsRow, At
    <2>9. QED
      BY <2>6, <2>7, <2>8 DEF OneRelayInv
  <1>7. CASE Mark(r)
    <2>1. delivered' = delivered /\ pc[r] = "mark" /\ pc'[r] = "finish"
      BY <1>0, <1>7 DEF Mark, At, Goto, TypeOK
    <2>2. CASE posts' = posts
      BY <2>1, <2>2, QuietStepOne DEF Claiming
    <2>3. CASE posts' = MarkPublished(posts, Post(r).key)
      <3>1. Post(r).key \in Keys /\ posts \in Tables
        BY <1>0, <2>1, CurrentIsItem DEF Stages, Posts, TypeOK
      <3>2. /\ \A j \in Keys : HasKey(posts, j)' <=> HasKey(posts, j)
            /\ \A j \in Keys : HasKey(posts, j) => posts'[j].content = posts[j].content
        BY <2>3, <3>1, MarkEffect DEF HasKey
      <3>3. RowsDiffer'
        BY <3>2 DEF OneRelayInv, RowsDiffer
      <3>4. ExecutedIsRow'
        <4>1. \A i \in Executed(r) : i.key \in Keys /\ HasKey(posts, i.key)
          BY <1>0 DEF PipelineInv, ExecutedIsClaimed, Executed, Items
        <4>2. Executed(r)' = Executed(r)
          BY <2>1 DEF Executed
        <4>3. QED
          BY <3>2, <4>1, <4>2 DEF OneRelayInv, ExecutedIsRow
      <3>5. QueryStillHolds' /\ CurrentIsRow'
        BY <2>1 DEF QueryStillHolds, CurrentIsRow, At
      <3>6. QED
        BY <3>3, <3>4, <3>5 DEF OneRelayInv
    <2>4. QED
      BY <1>7, <2>2, <2>3 DEF Mark
  <1>8. QED
    BY <1>1, <1>2, <1>3, <1>4, <1>5, <1>6, <1>7 DEF StageStep

\* NormalizerStage strips the text and no later stage replaces it: every step of
\* every relay keeps the texts stripped.
LEMMA StrippedStep ==
    ASSUME TypeOK, TextsAreStripped, NEW r \in Relays,
           StartRun(r) \/ RunStep(r) \/ StageStep(r) \/ Crash(r)
    PROVE  TextsAreStripped'
  <1> DEFINE Tracked == Stages \ {"normalize", "finish"}
  <1>1. \A q \in Relays \ {r} : pc'[q] = pc[q] /\ ctx'[q] = ctx[q]
    BY DEF StartRun, RunStep, FetchPage, FetchFails, StartItem, EndChannel, EndRun, Crash,
           StageStep, Normalize, Validate, Lookup, Save, FilterAge, RunAI, RunMedia, Publish,
           Mark, Finish, StageRaises, NoteError, Invalidate, Goto, TypeOK, runVars
  <1>2. pc'[r] \in Tracked => IsStripped(ctx[r].text)'
    <2>1. CASE StartRun(r) \/ RunStep(r) \/ Crash(r) \/ Finish(r)
      BY <2>1 DEF StartRun, RunStep, FetchPage, FetchFails, StartItem, EndChannel, EndRun, Crash,
                  Finish, At, Goto, TypeOK, Stages
    <2>2. CASE Normalize(r)
      <3>1. ctx \in [Relays -> Contexts] /\ ctx[r] \in Contexts
        BY DEF TypeOK
      <3>2. ctx'[r].text = Strip[ctx[r].text] /\ ctx[r].text \in Texts
        BY <2>2, <3>1 DEF Normalize, Contexts
      <3>3. QED
        BY <3>2, PipelineAssumption DEF IsStripped
    <2>3. CASE Lookup(r)
      BY <2>3 DEF Lookup, StageRaises, At, Goto, TypeOK, TextsAreStripped, Stages, IsStripped
    <2>4. CASE \/ Validate(r) \/ Save(r) \/ FilterAge(r) \/ RunAI(r) \/ RunMedia(r) \/ Mark(r)
      <3>1. pc[r] \in Tracked
        BY <2>4 DEF Validate, Save, FilterAge, RunAI, RunMedia, Mark, At, Stages
      <3>2. ctx'[r].text = ctx[r].text
        BY <2>4, FlagsOnly
        DEF Validate, Save, FilterAge, RunAI, RunMedia, Mark, StageRaises
      <3>3. QED
        BY <3>1, <3>2 DEF TextsAreStripped, IsStripped
    <2>5. CASE Publish(r)
      <3>1. pc[r] \in Tracked
        BY <2>5 DEF Publish, At, Stages
      <3>2. ctx'[r].text = ctx[r].text
        BY <2>5, SuccessOnly, FlagsOnly DEF Publish
      <3>3. QED
        BY <3>1, <3>2 DEF TextsAreStripped, IsStripped
    <2>6. QED
      BY <2>1, <2>2, <2>3, <2>4, <2>5 DEF StageStep
  <1>3. \A q \in Relays : \A i \in Executed(q)' : IsStripped(i.content.text)
    <2>1. CASE Publish(r) /\ Deliver(r)
      <3>1. pc[r] = "publish" /\ pc[r] \in Stages
        BY <2>1 DEF Publish, At, Stages
      <3>2. Item(r).content.text = ctx[r].text /\ IsStripped(ctx[r].text)
        BY <3>1 DEF Item, Content, TextsAreStripped
      <3>3. QED
        BY <2>1, <3>1, <3>2, DeliverEffect DEF TextsAreStripped
    <2>2. CASE delivered' = delivered
      BY <2>2 DEF Executed, TextsAreStripped
    <2>3. QED
      BY <2>1, <2>2
      DEF StartRun, RunStep, FetchPage, FetchFails, StartItem, EndChannel, EndRun, Crash,
          StageStep, Normalize, Validate, Lookup, Save, FilterAge, RunAI, RunMedia, Publish,
          Mark, Finish, StageRaises, runVars
  <1>4. QED
    BY <1>1, <1>2, <1>3 DEF TextsAreStripped, IsStripped

\* The invariant of the single relay is inductive.
LEMMA OneRelayInductive ==
    ASSUME NEW r, Relays = {r}
    PROVE  /\ Init => OneRelayInv
           /\ OneRelayInv /\ [Next]_vars => OneRelayInv'
  <1>1. Init => OneRelayInv
    <2> SUFFICES ASSUME Init PROVE OneRelayInv
      OBVIOUS
    <2>1. PipelineInv
      BY InitPipelineInv
    <2>2. Executed(r) = {} /\ pc[r] = "idle" /\ \A k \in Keys : ~HasKey(posts, k)
      BY DEF Init, Executed, EmptyTable, HasKey
    <2>3. QED
      BY <2>1, <2>2
      DEF OneRelayInv, TextsAreStripped, RowsDiffer, ExecutedIsRow, QueryStillHolds, CurrentIsRow,
          At, Stages
  <1>2. ASSUME OneRelayInv, [Next]_vars PROVE OneRelayInv'
    <2>1. PipelineInv'
      BY <1>2, NextPipelineInv DEF OneRelayInv
    <2>2. CASE Next
      <3>1. TypeOK /\ TextsAreStripped
        BY <1>2 DEF OneRelayInv, PipelineInv
      <3>2. TextsAreStripped'
        BY <2>2, <3>1, StrippedStep DEF Next
      <3>3. QED
        BY <1>2, <2>1, <2>2, <3>2, OneRelayStep DEF Next
    <2>3. CASE UNCHANGED vars
      <3>1. TextsAreStripped'
        BY <1>2, <2>3 DEF vars, OneRelayInv, TextsAreStripped, Executed, IsStripped
      <3>2. QED
        BY <1>2, <2>1, <2>3, <3>1, QuietStepOne
        DEF vars, OneRelayInv, QueryStillHolds, CurrentIsRow, At, Claiming
    <2>4. QED
      BY <1>2, <2>2, <2>3
  <1>3. QED
    BY <1>1, <1>2

\* With one relay the query of DuplicateDetection still holds at its insert, and
\* the row keeps the content under which the post is published, always.
THEOREM OneRelayInvariant ==
    ASSUME NEW r, Relays = {r}
    PROVE  Spec => []OneRelayInv
  <1>1. Init => OneRelayInv
    BY OneRelayInductive
  <1>2. OneRelayInv /\ [Next]_vars => OneRelayInv'
    BY OneRelayInductive
  <1>3. QED
    BY <1>1, <1>2, PTL DEF Spec

\* With one relay no content reaches Eitaa under two message ids.
THEOREM ContentDeliveredOnce ==
    ASSUME NEW r, Relays = {r}
    PROVE  Spec => []AtMostOncePerContent
  <1>1. OneRelayInv => AtMostOncePerContent
    <2> SUFFICES ASSUME OneRelayInv, NEW i \in Executed(r), NEW j \in Executed(r),
                        SameContent(i.content, j.content)
                 PROVE  i = j
      BY DEF AtMostOncePerContent
    <2>1. i.key \in Keys /\ j.key \in Keys
      BY DEF Executed, Items
    <2>2. HasKey(posts, i.key) /\ HasKey(posts, j.key)
      BY DEF OneRelayInv, PipelineInv, ExecutedIsClaimed
    <2>3. posts[i.key].content = i.content /\ posts[j.key].content = j.content
      BY DEF OneRelayInv, ExecutedIsRow
    <2>4. i.content = j.content
      <3>1. i.content \in Contents /\ j.content \in Contents
        BY DEF Executed, Items
      <3>2. i.content.text = j.content.text /\ i.content.media = j.content.media
        BY DEF SameContent, OneRelayInv, TextsAreStripped, IsStripped
      <3>3. QED
        BY <3>1, <3>2 DEF Contents
    <2>5. i.key = j.key
      BY <2>1, <2>2, <2>3, <2>4 DEF OneRelayInv, RowsDiffer
    <2>6. QED
      BY <2>5 DEF OneRelayInv, PipelineInv, AtMostOncePerRelay
  <1>2. QED
    BY <1>1, OneRelayInvariant, PTL

\* How a step of the only relay changes the table and the deliveries: an item
\* is claimed, executed or marked, or nothing of them changes.
LEMMA TableSteps ==
    ASSUME NEW r, Relays = {r}, OneRelayInv, [Next]_vars
    PROVE  \/ posts' = posts /\ delivered' = delivered
           \/ /\ pc[r] = "save" /\ delivered' = delivered
              /\ posts' = SavePending(posts, Post(r).key, Content(r))
              /\ ~Exists(posts, Post(r).key, Content(r))
           \/ pc[r] = "publish" /\ posts' = posts /\ Deliver(r)
           \/ /\ pc[r] = "mark" /\ delivered' = delivered
              /\ posts' = MarkPublished(posts, Post(r).key)
  <1>1. CASE UNCHANGED vars
    BY <1>1 DEF vars
  <1>2. CASE StartRun(r) \/ RunStep(r) \/ Crash(r)
    BY <1>2 DEF StartRun, RunStep, FetchPage, FetchFails, StartItem, EndChannel, EndRun, Crash
  <1>3. CASE StageStep(r)
    <2>1. CASE Save(r)
      BY <2>1 DEF Save, StageRaises, At, OneRelayInv, QueryStillHolds
    <2>2. CASE Publish(r)
      BY <2>2 DEF Publish, At
    <2>3. CASE Mark(r)
      BY <2>3 DEF Mark, At
    <2>4. QED
      BY <1>3, <2>1, <2>2, <2>3
      DEF StageStep, Normalize, Validate, Lookup, FilterAge, RunAI, RunMedia, Finish, StageRaises
  <1>4. QED
    BY <1>1, <1>2, <1>3 DEF Next

\* With one relay a row that says `published' says so for ever.
THEOREM PublishedIsFinal ==
    ASSUME NEW r, Relays = {r}
    PROVE  Spec => PublishedStays
  <1>1. OneRelayInv /\ [Next]_vars =>
            [\A k \in Keys : IsPublished(posts, k) => IsPublished(posts', k)]_vars
    <2> SUFFICES ASSUME OneRelayInv, [Next]_vars, NEW k \in Keys, IsPublished(posts, k)
                 PROVE  IsPublished(posts', k)
      OBVIOUS
    <2>0. TypeOK /\ r \in Relays /\ posts \in Tables
      BY DEF OneRelayInv, PipelineInv, TypeOK
    <2>1. CASE posts' = posts
      BY <2>1
    <2>2. CASE /\ pc[r] = "save"
               /\ posts' = SavePending(posts, Post(r).key, Content(r))
               /\ ~Exists(posts, Post(r).key, Content(r))
      <3>1. Post(r).key \in Keys /\ Content(r) \in Contents
        BY <2>0, <2>2, CurrentIsItem DEF Stages, Posts
      <3>2. k # Post(r).key
        BY <2>2 DEF Exists, IsPublished
      <3>3. posts'[k] = posts[k]
        BY <2>0, <2>2, <3>2 DEF SavePending, Tables
      <3>4. QED
        BY <3>3 DEF IsPublished, HasKey
    <2>3. CASE pc[r] = "mark" /\ posts' = MarkPublished(posts, Post(r).key)
      <3>1. Post(r).key \in Keys
        BY <2>0, <2>3, CurrentIsItem DEF Stages, Posts
      <3>2. CASE k = Post(r).key
        BY <2>0, <2>3, <3>1, <3>2, MarkEffect DEF IsPublished
      <3>3. CASE k # Post(r).key
        <4>1. posts'[k] = posts[k]
          BY <2>0, <2>3, <3>1, <3>3, MarkEffect
        <4>2. QED
          BY <4>1 DEF IsPublished, HasKey
      <3>4. QED
        BY <3>2, <3>3
    <2>4. QED
      BY <2>1, <2>2, <2>3, TableSteps
  <1>2. QED
    BY <1>1, OneRelayInvariant, PTL DEF Spec, PublishedStays
----------------------------------------------------------------------------
(* Refinement *)

\* The items of PostLifecycle, read off a table and off the deliveries.
ClaimedIn(t) == {i \in Items : HasKey(t, i.key) /\ t[i.key].content = i.content}
RecordedIn(t) == {i \in ClaimedIn(t) : IsPublished(t, i.key)}
ExecutedItems == UNION {Executed(q) : q \in Relays}

\* An item is determined by its key and its content.
LEMMA ItemsDiffer ==
    ASSUME NEW i \in Items, NEW j \in Items, i.key = j.key, i.content = j.content
    PROVE  i = j
  BY DEF Items

\* An insert after a query that found nothing claims one item, unlike any other.
LEMMA InsertClaims ==
    ASSUME NEW t \in Tables, NEW i \in Items, ~Exists(t, i.key, i.content)
    PROVE  /\ \A j \in ClaimedIn(t) : j.key # i.key /\ j.content # i.content
           /\ ClaimedIn(SavePending(t, i.key, i.content)) = ClaimedIn(t) \cup {i}
           /\ RecordedIn(SavePending(t, i.key, i.content)) = RecordedIn(t)
  <1> DEFINE u == SavePending(t, i.key, i.content)
  <1>0. i.key \in Keys /\ i.content \in Contents /\ \A j \in Items : j.key \in Keys
    BY DEF Items
  <1>1. /\ u[i.key] = [content |-> i.content, status |-> "pending"]
        /\ HasKey(u, i.key)
        /\ \A j \in Keys \ {i.key} : u[j] = t[j]
        /\ ~HasKey(t, i.key)
        /\ \A j \in Keys : HasKey(t, j) => t[j].content # i.content
    BY <1>0, SaveEffect
  <1> HIDE DEF u
  <1>2. \A j \in ClaimedIn(t) : j.key # i.key /\ j.content # i.content
    BY <1>0, <1>1 DEF ClaimedIn
  <1>3. ASSUME NEW j \in Items, j.key # i.key
        PROVE  /\ j \in ClaimedIn(u) <=> j \in ClaimedIn(t)
               /\ j \in RecordedIn(u) <=> j \in RecordedIn(t)
    BY <1>0, <1>1, <1>3 DEF ClaimedIn, RecordedIn, IsPublished, HasKey
  <1>4. i \in ClaimedIn(u) /\ ~IsPublished(u, i.key)
    BY <1>0, <1>1 DEF ClaimedIn, IsPublished
  <1>5. ASSUME NEW j \in ClaimedIn(u), j.key = i.key PROVE j = i
    BY <1>1, <1>5, ItemsDiffer DEF ClaimedIn
  <1>6. ClaimedIn(u) = ClaimedIn(t) \cup {i}
    <2>1. ClaimedIn(u) \subseteq Items /\ ClaimedIn(t) \subseteq Items
      BY DEF ClaimedIn
    <2>2. QED
      BY <1>2, <1>3, <1>4, <1>5, <2>1
  <1>7. RecordedIn(u) = RecordedIn(t)
    <2>1. RecordedIn(u) \subseteq Items /\ RecordedIn(t) \subseteq ClaimedIn(t)
      BY DEF RecordedIn, ClaimedIn
    <2>2. \A j \in RecordedIn(u) : j.key # i.key
      BY <1>4 DEF RecordedIn
    <2>3. \A j \in RecordedIn(t) : j.key # i.key /\ j \in Items
      BY <1>2, <2>1 DEF ClaimedIn
    <2>4. QED
      BY <1>3, <2>1, <2>2, <2>3
  <1>8. QED
    BY <1>2, <1>6, <1>7 DEF u

\* A mark claims nothing and records the claimed item of its key.
LEMMA MarkRecords ==
    ASSUME NEW t \in Tables, NEW i \in ClaimedIn(t)
    PROVE  /\ ClaimedIn(MarkPublished(t, i.key)) = ClaimedIn(t)
           /\ RecordedIn(MarkPublished(t, i.key)) = RecordedIn(t) \cup {i}
  <1> DEFINE u == MarkPublished(t, i.key)
  <1>0. i \in Items /\ i.key \in Keys /\ HasKey(t, i.key) /\ t[i.key].content = i.content
    BY DEF ClaimedIn, Items
  <1>1. /\ \A j \in Keys : HasKey(u, j) <=> HasKey(t, j)
        /\ \A j \in Keys : HasKey(t, j) => u[j].content = t[j].content
        /\ \A j \in Keys \ {i.key} : u[j] = t[j]
        /\ IsPublished(u, i.key)
    BY <1>0, MarkEffect
  <1> HIDE DEF u
  <1>2. ClaimedIn(u) = ClaimedIn(t)
    BY <1>1 DEF ClaimedIn, Items
  <1>3. ASSUME NEW j \in ClaimedIn(t)
        PROVE  j \in RecordedIn(u) <=> j \in RecordedIn(t) \/ j = i
    <2>1. CASE j.key = i.key
      <3>1. j = i
        BY <1>0, <2>1, ItemsDiffer DEF ClaimedIn
      <3>2. QED
        BY <1>1, <1>2, <3>1 DEF RecordedIn
    <2>2. CASE j.key # i.key
      <3>1. u[j.key] = t[j.key]
        BY <1>1, <2>2 DEF ClaimedIn, Items
      <3>2. QED
        BY <1>2, <2>2, <3>1 DEF RecordedIn, IsPublished, HasKey
    <2>3. QED
      BY <2>1, <2>2
  <1>4. RecordedIn(u) \subseteq ClaimedIn(t) /\ RecordedIn(t) \subseteq ClaimedIn(t)
    BY <1>2 DEF RecordedIn
  <1>5. QED
    BY <1>2, <1>3, <1>4 DEF u

\* Every step of the only relay is a step of PostLifecycle or a stutter: the
\* insert claims the item, the POST executes it, the mark records it.
LEMMA LifecycleStep ==
    ASSUME NEW r, Relays = {r}, OneRelayInv, [Next]_vars
    PROVE  \/ \E i \in Items : \/ /\ \A j \in ClaimedIn(posts) : j.key # i.key /\ j.content # i.content
                                 /\ ClaimedIn(posts)' = ClaimedIn(posts) \cup {i}
                                 /\ UNCHANGED <<ExecutedItems, RecordedIn(posts)>>
                              \/ /\ i \in ClaimedIn(posts) \ ExecutedItems
                                 /\ ExecutedItems' = ExecutedItems \cup {i}
                                 /\ UNCHANGED <<ClaimedIn(posts), RecordedIn(posts)>>
                              \/ /\ i \in ExecutedItems \ RecordedIn(posts)
                                 /\ RecordedIn(posts)' = RecordedIn(posts) \cup {i}
                                 /\ UNCHANGED <<ClaimedIn(posts), ExecutedItems>>
           \/ UNCHANGED <<ClaimedIn(posts), ExecutedItems, RecordedIn(posts)>>
  <1> DEFINE item == Item(r)
  <1>0. TypeOK /\ PipelineInv /\ r \in Relays /\ posts \in Tables
    BY DEF OneRelayInv, PipelineInv, TypeOK
  <1>1. ExecutedItems = Executed(r) /\ ExecutedItems' = Executed(r)'
    BY DEF ExecutedItems
  <1>2. item.key = Post(r).key /\ item.content = Content(r)
    BY DEF Item
  <1>3. pc[r] \in Stages => item \in Items
    BY <1>0, CurrentIsItem
  <1>4. delivered' = delivered => Executed(r)' = Executed(r)
    BY DEF Executed
  <1>5. posts' = posts =>
            ClaimedIn(posts)' = ClaimedIn(posts) /\ RecordedIn(posts)' = RecordedIn(posts)
    BY DEF ClaimedIn, RecordedIn
  <1>6. ClaimedIn(posts)' = ClaimedIn(posts') /\ RecordedIn(posts)' = RecordedIn(posts')
    BY DEF ClaimedIn, RecordedIn, IsPublished, HasKey
  <1>7. pc[r] \in {"publish", "mark"} => item \in ClaimedIn(posts)
    BY <1>0, <1>2, <1>3
    DEF ClaimedIn, Stages, PipelineInv, CurrentIsClaimed, OneRelayInv, CurrentIsRow
  <1> HIDE DEF item
  <1>8. CASE posts' = posts /\ delivered' = delivered
    BY <1>1, <1>4, <1>5, <1>8
  <1>9. CASE pc[r] = "save" /\ posts' = SavePending(posts, item.key, item.content)
             /\ ~Exists(posts, item.key, item.content) /\ delivered' = delivered
    <2>1. item \in Items
      BY <1>3, <1>9 DEF Stages
    <2>2. /\ \A j \in ClaimedIn(posts) : j.key # item.key /\ j.content # item.content
          /\ ClaimedIn(posts') = ClaimedIn(posts) \cup {item}
          /\ RecordedIn(posts') = RecordedIn(posts)
      BY <1>0, <1>9, <2>1, InsertClaims
    <2>3. QED
      BY <1>1, <1>4, <1>6, <1>9, <2>1, <2>2
  <1>10. CASE pc[r] = "publish" /\ posts' = posts /\ Deliver(r)
    <2>1. item \in Items /\ item \in ClaimedIn(posts)
      BY <1>3, <1>7, <1>10 DEF Stages
    <2>2. item \notin Executed(r)
      BY <1>0, <1>2, <1>10 DEF PipelineInv, CurrentIsNew
    <2>3. Executed(r)' = Executed(r) \cup {item}
      BY <1>0, <1>10, DeliverEffect DEF Stages, item
    <2>4. QED
      BY <1>1, <1>5, <1>10, <2>1, <2>2, <2>3
  <1>11. CASE pc[r] = "mark" /\ posts' = MarkPublished(posts, item.key) /\ delivered' = delivered
    <2>1. item \in Items /\ item \in ClaimedIn(posts)
      BY <1>3, <1>7, <1>11 DEF Stages
    <2>2. item \in Executed(r)
      <3>1. PICK i \in Executed(r) : i.key = item.key
        BY <1>0, <1>2, <1>11 DEF PipelineInv, MarkedIsExecuted, At
      <3>2. i.content = item.content
        BY <1>0, <2>1, <3>1 DEF OneRelayInv, ExecutedIsRow, ClaimedIn
      <3>3. QED
        BY <2>1, <3>1, <3>2, ItemsDiffer DEF Executed
    <2>3. /\ ClaimedIn(posts') = ClaimedIn(posts)
          /\ RecordedIn(posts') = RecordedIn(posts) \cup {item}
      BY <1>0, <1>11, <2>1, MarkRecords
    <2>4. QED
      BY <1>1, <1>4, <1>6, <1>11, <2>1, <2>2, <2>3
  <1>12. QED
    BY <1>2, <1>8, <1>9, <1>10, <1>11, TableSteps
\* One relay implements PostLifecycle: what it does to the table and to the
\* channel is, step by step, claiming, executing and recording items.
THEOREM Implementation ==
    ASSUME NEW r, Relays = {r}
    PROVE  Spec => ImplementsLifecycle
  <1>1. Init => Lifecycle!LifecycleInit
    BY DEF Init, Lifecycle!LifecycleInit, Claimed, EmptyTable, HasKey, Items, Executed
  <1>2. OneRelayInv /\ [Next]_vars => [Lifecycle!LifecycleNext]_(Lifecycle!lifecycleVars)
    BY LifecycleStep
    DEF Lifecycle!LifecycleNext, Lifecycle!lifecycleVars, Lifecycle!Claim, Lifecycle!Execute,
        Lifecycle!Record, Claimed, ClaimedIn, RecordedIn, ExecutedItems
  <1>3. QED
    BY <1>1, <1>2, OneRelayInvariant, PTL
    DEF Spec, ImplementsLifecycle, Lifecycle!LifecycleSpec

----------------------------------------------------------------------------
(***************************************************************************)
(* What the pipeline tells the world: the events that end an item and the  *)
(* status it writes for YasinHub.                                          *)
(***************************************************************************)

Fates == {"DuplicateDetected", "PublishingCompleted", "ProcessingFailed"}

\* Where relay q is in the life of an item, and what has been noted of the item.
\* Until the POST nothing is decided; at the end the item failed, or it was a
\* duplicate, or it was published, never two of the last two.
Fate(q) ==
    /\ pc[q] \in Stages \ {"finish"} =>
          /\ ~ctx[q].duplicate /\ ctx[q].valid
          /\ ~Emitted(q, "PublishingCompleted")
          /\ ctx[q].success <=> At(q, "mark")
    /\ At(q, "finish") =>
          /\ ctx[q].valid \/ ctx[q].errors
          /\ ctx[q].duplicate => Emitted(q, "DuplicateDetected")
          /\ Emitted(q, "PublishingCompleted") => ctx[q].success
          /\ \/ ctx[q].errors
             \/ ctx[q].duplicate /\ ~ctx[q].success
             \/ ~ctx[q].duplicate /\ ctx[q].success /\ Emitted(q, "PublishingCompleted")
    /\ pc[q] \notin Stages => events[q] = <<>> \/ \E name \in Fates : Emitted(q, name)

\* The books of a run without an error balance: every fetched post was published,
\* was a duplicate, or waits in the batch.
Balance(q) ==
    /\ pc[q] \in {"idle", "channel"} => batch[q] = <<>>
    /\ ~At(q, "idle") /\ ~report[q].errors =>
          report[q].fetched = report[q].published + report[q].duplicates + Len(batch[q])

ReportInv == TypeOK /\ \A q \in Relays : Fate(q) /\ Balance(q)

----------------------------------------------------------------------------
(* What a step does to the state of a relay *)

RelayStep(r) == StartRun(r) \/ RunStep(r) \/ StageStep(r) \/ Crash(r)

\* A step of r leaves the program counter, the item and the books of the others.
LEMMA OthersStay ==
    ASSUME TypeOK, NEW r \in Relays, RelayStep(r), NEW q \in Relays \ {r}
    PROVE  /\ pc'[q] = pc[q] /\ ctx'[q] = ctx[q] /\ events'[q] = events[q]
           /\ batch'[q] = batch[q] /\ report'[q] = report[q]
  <1>1. CASE StartRun(r) \/ RunStep(r) \/ Crash(r)
    <2>1. pc'[q] = pc[q]
      BY <1>1 DEF TypeOK, StartRun, RunStep, FetchPage, FetchFails, StartItem, EndChannel, EndRun,
                  Crash, Goto
    <2>2. ctx'[q] = ctx[q] /\ events'[q] = events[q]
      BY <1>1 DEF TypeOK, StartRun, RunStep, FetchPage, FetchFails, StartItem, EndChannel, EndRun,
                  Crash, runVars
    <2>3. batch'[q] = batch[q] /\ report'[q] = report[q]
      <3>1. CASE FetchPage(r)
        BY <3>1 DEF TypeOK, FetchPage
      <3>2. CASE StartRun(r) \/ FetchFails(r) \/ Crash(r)
        BY <3>2 DEF TypeOK, StartRun, FetchFails, Crash
      <3>3. CASE StartItem(r) \/ EndChannel(r) \/ EndRun(r)
        BY <3>3 DEF StartItem, EndChannel, EndRun, runVars
      <3>4. QED
        BY <1>1, <3>1, <3>2, <3>3 DEF RunStep
    <2>4. QED
      BY <2>1, <2>2, <2>3
  <1>2. CASE StageStep(r)
    <2>1. batch'[q] = batch[q] /\ report'[q] = report[q]
      BY <1>2 DEF TypeOK, StageStep, Normalize, Validate, Lookup, Save, FilterAge, RunAI, RunMedia,
                  Publish, Mark, Finish, runVars
    <2>2. pc'[q] = pc[q] /\ ctx'[q] = ctx[q]
      BY <1>2 DEF TypeOK, StageStep, Normalize, Validate, Lookup, Save, FilterAge, RunAI, RunMedia,
                  Publish, Mark, Finish, StageRaises, Invalidate, NoteError, Goto
    <2>3. events'[q] = events[q]
      BY <1>2 DEF TypeOK, StageStep, Normalize, Validate, Lookup, Save, FilterAge, RunAI, RunMedia,
                  Publish, Mark, Finish, StageRaises, Emit
    <2>4. QED
      BY <2>1, <2>2, <2>3
  <1>3. QED
    BY <1>1, <1>2 DEF RelayStep

\* So what holds of them goes on to hold.
LEMMA OthersKeep ==
    ASSUME ReportInv, NEW r \in Relays, RelayStep(r), NEW q \in Relays \ {r}
    PROVE  (Fate(q) /\ Balance(q))'
  <1>1. /\ pc'[q] = pc[q] /\ ctx'[q] = ctx[q] /\ events'[q] = events[q]
        /\ batch'[q] = batch[q] /\ report'[q] = report[q]
    BY OthersStay DEF ReportInv
  <1>2. Fate(q) /\ Balance(q)
    BY DEF ReportInv
  <1>3. Fate(q)'
    BY <1>1, <1>2 DEF Fate, Emitted, At
  <1>4. Balance(q)'
    BY <1>1, <1>2 DEF Balance, At
  <1>5. QED
    BY <1>3, <1>4

\* An event that is published is added to those of the item.
LEMMA EmitAdds ==
    ASSUME TypeOK, NEW r \in Relays, NEW name \in EventNames, Emit(r, name)
    PROVE  /\ \A other : Emitted(r, other)' <=> Emitted(r, other) \/ other = name
           /\ events'[r] # <<>>
  <1>1. events[r] \in Seq(EventNames) /\ events'[r] = Append(events[r], name)
    BY DEF Emit, TypeOK
  <1>2. Len(events[r]) \in Nat /\ DOMAIN events[r] = 1 .. Len(events[r])
    BY <1>1
  <1>3. /\ DOMAIN events'[r] = 1 .. Len(events[r]) + 1
        /\ \A n \in 1 .. Len(events[r]) : events'[r][n] = events[r][n]
        /\ events'[r][Len(events[r]) + 1] = name
    BY <1>1, <1>2
  <1>4. ASSUME NEW other PROVE Emitted(r, other)' <=> Emitted(r, other) \/ other = name
    BY <1>2, <1>3 DEF Emitted
  <1>5. events'[r] # <<>>
    BY <1>1
  <1>6. QED
    BY <1>4, <1>5

\* Nothing is published: the events of the item are what they were.
LEMMA EmitNothing ==
    ASSUME UNCHANGED events, NEW r
    PROVE  \A other : Emitted(r, other)' <=> Emitted(r, other)
  BY DEF Emitted

\* A failure is noted among the errors, and says nothing of duplicate or success.
LEMMA Noted ==
    ASSUME TypeOK, NEW r \in Relays, NoteError(r) \/ Invalidate(r)
    PROVE  /\ ctx'[r].errors
           /\ ctx'[r].duplicate <=> ctx[r].duplicate
           /\ ctx'[r].success <=> ctx[r].success
  <1>1. ctx \in [Relays -> Contexts] /\ ctx[r] \in Contexts
    BY DEF TypeOK
  <1>2. QED
    BY <1>1 DEF Contexts, NoteError, Invalidate

\* An error that is noted leaves the item valid.
LEMMA ErrorNoted ==
    ASSUME TypeOK, NEW r \in Relays, NoteError(r)
    PROVE  /\ ctx'[r].valid <=> ctx[r].valid
           /\ ctx'[r].duplicate <=> ctx[r].duplicate
           /\ ctx'[r].success <=> ctx[r].success
  <1>1. ctx \in [Relays -> Contexts] /\ ctx[r] \in Contexts
    BY DEF TypeOK
  <1>2. QED
    BY <1>1 DEF Contexts, NoteError

\* The text of an item is noted in a field of its own.
LEMMA TextNoted ==
    ASSUME TypeOK, NEW r \in Relays, NEW t, ctx' = [ctx EXCEPT ![r].text = t]
    PROVE  /\ ctx'[r].valid <=> ctx[r].valid
           /\ ctx'[r].duplicate <=> ctx[r].duplicate
           /\ ctx'[r].success <=> ctx[r].success
  <1>1. ctx \in [Relays -> Contexts] /\ ctx[r] \in Contexts
    BY DEF TypeOK
  <1>2. QED
    BY <1>1 DEF Contexts

\* So is the finding of a duplicate.
LEMMA DuplicateNoted ==
    ASSUME TypeOK, NEW r \in Relays, ctx' = [ctx EXCEPT ![r].duplicate = TRUE]
    PROVE  /\ ctx'[r].duplicate
           /\ ctx'[r].valid <=> ctx[r].valid
           /\ ctx'[r].success <=> ctx[r].success
  <1>1. ctx \in [Relays -> Contexts] /\ ctx[r] \in Contexts
    BY DEF TypeOK
  <1>2. QED
    BY <1>1 DEF Contexts

\* So is a success.
LEMMA SuccessNoted ==
    ASSUME TypeOK, NEW r \in Relays, ctx' = [ctx EXCEPT ![r].success = TRUE]
    PROVE  /\ ctx'[r].success
           /\ ctx'[r].valid <=> ctx[r].valid
           /\ ctx'[r].duplicate <=> ctx[r].duplicate
  <1>1. ctx \in [Relays -> Contexts] /\ ctx[r] \in Contexts
    BY DEF TypeOK
  <1>2. QED
    BY <1>1 DEF Contexts

----------------------------------------------------------------------------
(* The fate of an item *)

\* A stage raises before anything is decided: the item fails.
LEMMA RaiseFate ==
    ASSUME ReportInv, NEW r \in Relays, StageRaises(r), pc[r] \in {"lookup", "save"}
    PROVE  Fate(r)'
  <1>1. TypeOK /\ Fate(r)
    BY DEF ReportInv
  <1>2. pc'[r] = "finish"
    BY <1>1 DEF StageRaises, Goto, TypeOK
  <1>3. \A other : Emitted(r, other)' <=> Emitted(r, other) \/ other = "ProcessingFailed"
    BY <1>1, EmitAdds DEF StageRaises, EventNames
  <1>4. ctx'[r].errors /\ ~ctx'[r].duplicate /\ ~ctx'[r].success
    BY <1>1, Noted DEF StageRaises, Fate, At, Stages
  <1>5. ~Emitted(r, "PublishingCompleted")'
    BY <1>1, <1>3 DEF Fate, Stages
  <1>6. QED
    BY <1>2, <1>4, <1>5 DEF Fate, At, Stages

\* A step of the relay's run outside the stages.
LEMMA RunFate ==
    ASSUME ReportInv, NEW r \in Relays, StartRun(r) \/ RunStep(r) \/ Crash(r)
    PROVE  Fate(r)'
  <1>1. TypeOK /\ Fate(r)
    BY DEF ReportInv
  <1>2. CASE StartRun(r) \/ FetchPage(r) \/ FetchFails(r) \/ EndChannel(r) \/ EndRun(r)
    <2>1. events' = events
      BY <1>2 DEF StartRun, FetchPage, FetchFails, EndChannel, EndRun
    <2>2. pc[r] \notin Stages
      BY <1>2 DEF StartRun, FetchPage, FetchFails, EndChannel, EndRun, At, Stages
    <2>3. pc'[r] \notin Stages
      BY <1>1, <1>2 DEF StartRun, FetchPage, FetchFails, EndChannel, EndRun, At, Goto, Stages, TypeOK
    <2>4. QED
      BY <1>1, <2>1, <2>2, <2>3 DEF Fate, Emitted, At, Stages
  <1>3. CASE StartItem(r)
    <2>1. pc'[r] = "normalize" /\ events'[r] = <<"ProcessingStarted">>
      BY <1>1, <1>3 DEF StartItem, Goto, TypeOK
    <2>2. ~ctx'[r].duplicate /\ ctx'[r].valid /\ ~ctx'[r].success
      BY <1>1, <1>3 DEF StartItem, FreshContext, TypeOK
    <2>3. ~Emitted(r, "PublishingCompleted")'
      BY <2>1 DEF Emitted
    <2>4. QED
      BY <2>1, <2>2, <2>3 DEF Fate, At, Stages
  <1>4. CASE Crash(r)
    <2>1. pc'[r] = "idle" /\ events'[r] = <<>>
      BY <1>1, <1>4 DEF Crash, Goto, TypeOK
    <2>2. QED
      BY <2>1 DEF Fate, At, Stages
  <1>5. QED
    BY <1>2, <1>3, <1>4 DEF RunStep

\* The stages up to the POST, and the POST.
LEMMA StageFate ==
    ASSUME ReportInv, NEW r \in Relays,
           \/ Normalize(r) \/ Validate(r) \/ Lookup(r) \/ Save(r) \/ FilterAge(r)
           \/ RunAI(r) \/ RunMedia(r) \/ Publish(r)
    PROVE  Fate(r)'
  <1>1. TypeOK /\ Fate(r)
    BY DEF ReportInv
  <1>2. pc[r] \in Stages \ {"mark", "finish"}
    BY DEF Normalize, Validate, Lookup, Save, FilterAge, RunAI, RunMedia, Publish, At, Stages
  <1>3. /\ ~ctx[r].duplicate /\ ctx[r].valid /\ ~ctx[r].success
        /\ ~Emitted(r, "PublishingCompleted")
    BY <1>1, <1>2 DEF Fate, At
  <1>a. \A name \in EventNames \ {"PublishingCompleted"} :
            Emit(r, name) => ~Emitted(r, "PublishingCompleted")'
    BY <1>1, <1>3, EmitAdds
  <1>b. UNCHANGED events => ~Emitted(r, "PublishingCompleted")'
    BY <1>3, EmitNothing
  <1>4. CASE Normalize(r)
    <2>1. pc'[r] = "validate"
      BY <1>1, <1>4 DEF Normalize, Goto, TypeOK
    <2>2. ~ctx'[r].duplicate /\ ctx'[r].valid /\ ~ctx'[r].success
      BY <1>1, <1>3, <1>4, TextNoted DEF Normalize
    <2>3. ~Emitted(r, "PublishingCompleted")'
      BY <1>4, <1>a DEF Normalize, EventNames
    <2>4. QED
      BY <2>1, <2>2, <2>3 DEF Fate, At, Stages
  <1>5. CASE Validate(r) \/ FilterAge(r)
    <2>1. ~Emitted(r, "PublishingCompleted")'
      BY <1>5, <1>b DEF Validate, FilterAge
    <2>2. \/ pc'[r] = "finish" /\ Invalidate(r)
          \/ pc'[r] \in {"lookup", "ai"} /\ ctx' = ctx
      BY <1>1, <1>5 DEF Validate, FilterAge, Goto, TypeOK
    <2>3. CASE pc'[r] = "finish" /\ Invalidate(r)
      <3>1. ctx'[r].errors /\ ~ctx'[r].duplicate /\ ~ctx'[r].success
        BY <1>1, <1>3, <2>3, Noted
      <3>2. QED
        BY <2>1, <2>3, <3>1 DEF Fate, At, Stages
    <2>4. CASE pc'[r] \in {"lookup", "ai"} /\ ctx' = ctx
      BY <1>3, <2>1, <2>4 DEF Fate, At, Stages
    <2>5. QED
      BY <2>2, <2>3, <2>4
  <1>6. CASE Lookup(r) \/ Save(r)
    <2>1. CASE StageRaises(r)
      BY <1>6, <2>1, RaiseFate DEF Lookup, Save, At
    <2>2. CASE pc'[r] \in {"save", "age"} /\ UNCHANGED <<ctx, events>>
      BY <1>3, <1>b, <2>2 DEF Fate, At, Stages
    <2>3. CASE /\ pc'[r] = "finish" /\ ctx' = [ctx EXCEPT ![r].duplicate = TRUE]
               /\ Emit(r, "DuplicateDetected")
      <3>1. \A other : Emitted(r, other)' <=> Emitted(r, other) \/ other = "DuplicateDetected"
        BY <1>1, <2>3, EmitAdds DEF EventNames
      <3>2. ctx'[r].valid /\ ctx'[r].duplicate /\ ~ctx'[r].success
        BY <1>1, <1>3, <2>3, DuplicateNoted
      <3>3. QED
        BY <1>3, <2>3, <3>1, <3>2 DEF Fate, At, Stages
    <2>4. QED
      BY <1>1, <1>6, <2>1, <2>2, <2>3 DEF Lookup, Save, Goto, TypeOK
  <1>7. CASE RunAI(r) \/ RunMedia(r)
    <2>1. pc'[r] \in {"media", "publish"}
      BY <1>1, <1>7 DEF RunAI, RunMedia, Goto, TypeOK
    <2>2. ctx' = ctx \/ NoteError(r)
      BY <1>7 DEF RunAI, RunMedia
    <2>3. ~ctx'[r].duplicate /\ ctx'[r].valid /\ ~ctx'[r].success
      BY <1>1, <1>3, <2>2, ErrorNoted
    <2>4. ~Emitted(r, "PublishingCompleted")'
      BY <1>7, <1>a, <1>b DEF RunAI, RunMedia, EventNames
    <2>5. QED
      BY <2>1, <2>3, <2>4 DEF Fate, At, Stages
  <1>8. CASE Publish(r)
    <2>1. ~Emitted(r, "PublishingCompleted")'
      BY <1>8, <1>a DEF Publish, EventNames
    <2>2. \/ pc'[r] = "mark" /\ ctx' = [ctx EXCEPT ![r].success = TRUE]
          \/ pc'[r] = "finish" /\ NoteError(r)
      BY <1>1, <1>8 DEF Publish, Goto, TypeOK
    <2>3. CASE pc'[r] = "mark" /\ ctx' = [ctx EXCEPT ![r].success = TRUE]
      <3>1. ~ctx'[r].duplicate /\ ctx'[r].valid /\ ctx'[r].success
        BY <1>1, <1>3, <2>3, SuccessNoted
      <3>2. QED
        BY <2>1, <2>3, <3>1 DEF Fate, At, Stages
    <2>4. CASE pc'[r] = "finish" /\ NoteError(r)
      <3>1. ctx'[r].errors /\ ~ctx'[r].duplicate /\ ~ctx'[r].success
        BY <1>1, <1>3, <2>4, Noted
      <3>2. QED
        BY <2>1, <2>4, <3>1 DEF Fate, At, Stages
    <2>5. QED
      BY <2>2, <2>3, <2>4
  <1>9. QED
    BY <1>4, <1>5, <1>6, <1>7, <1>8

\* The mark ends the item as published, or with an error.
LEMMA MarkFate ==
    ASSUME ReportInv, NEW r \in Relays, Mark(r)
    PROVE  Fate(r)'
  <1>1. TypeOK /\ Fate(r) /\ pc[r] = "mark"
    BY DEF ReportInv, Mark, At
  <1>2. /\ ~ctx[r].duplicate /\ ctx[r].valid /\ ctx[r].success
        /\ ~Emitted(r, "PublishingCompleted")
    BY <1>1 DEF Fate, At, Stages
  <1>3. pc'[r] = "finish"
    BY <1>1 DEF Mark, Goto, TypeOK
  <1>4. CASE Emit(r, "PublishingCompleted") /\ UNCHANGED ctx
    <2>1. Emitted(r, "PublishingCompleted")'
      BY <1>1, <1>4, EmitAdds DEF EventNames
    <2>2. QED
      BY <1>2, <1>3, <1>4, <2>1 DEF Fate, At, Stages
  <1>5. CASE NoteError(r) /\ UNCHANGED events
    <2>1. ctx'[r].errors /\ ~ctx'[r].duplicate /\ ctx'[r].success
      BY <1>1, <1>2, <1>5, Noted
    <2>2. QED
      BY <1>3, <2>1 DEF Fate, At, Stages
  <1>6. QED
    BY <1>4, <1>5 DEF Mark

\* The end of execute publishes ProcessingFailed if no other event told the fate.
LEMMA FinishFate ==
    ASSUME ReportInv, NEW r \in Relays, Finish(r)
    PROVE  Fate(r)'
  <1>1. TypeOK /\ Fate(r) /\ pc[r] = "finish"
    BY DEF ReportInv, Finish, At
  <1>2. pc'[r] = "item"
    BY <1>1 DEF Finish, Goto, TypeOK
  <1>3. \E name \in Fates : Emitted(r, name)'
    <2>1. CASE Failed(ctx[r])
      <3>1. Emitted(r, "ProcessingFailed")'
        BY <1>1, <2>1, EmitAdds DEF Finish, EventNames
      <3>2. QED
        BY <3>1 DEF Fates
    <2>2. CASE ~Failed(ctx[r])
      <3>1. Emitted(r, "DuplicateDetected") \/ Emitted(r, "PublishingCompleted")
        BY <1>1, <2>2 DEF Fate, Failed, At
      <3>2. Emitted(r, "DuplicateDetected")' \/ Emitted(r, "PublishingCompleted")'
        BY <2>2, <3>1, EmitNothing DEF Finish
      <3>3. QED
        BY <3>2 DEF Fates
    <2>3. QED
      BY <2>1, <2>2
  <1>4. QED
    BY <1>2, <1>3 DEF Fate, At, Stages

----------------------------------------------------------------------------
(* The books *)

\* A stage before the end of execute touches neither the batch nor the report.
LEMMA StageBalance ==
    ASSUME ReportInv, NEW r \in Relays, StageStep(r), ~Finish(r)
    PROVE  Balance(r)'
  <1>1. TypeOK /\ Balance(r)
    BY DEF ReportInv
  <1>2. batch' = batch /\ report' = report
    BY DEF StageStep, Normalize, Validate, Lookup, Save, FilterAge, RunAI, RunMedia, Publish, Mark,
           runVars
  <1>3. pc[r] \in Stages
    BY DEF StageStep, Normalize, Validate, Lookup, Save, FilterAge, RunAI, RunMedia, Publish, Mark,
           At, Stages
  <1>4. pc'[r] \in Stages
    BY <1>1 DEF StageStep, Normalize, Validate, Lookup, Save, FilterAge, RunAI, RunMedia, Publish,
                Mark, StageRaises, Goto, Stages, TypeOK
  <1>5. QED
    BY <1>1, <1>2, <1>3, <1>4 DEF Balance, At, Stages

\* The end of execute takes the item out of the batch and counts it once, unless
\* it had an error.
LEMMA FinishBalance ==
    ASSUME ReportInv, NEW r \in Relays, Finish(r)
    PROVE  Balance(r)'
  <1>1. TypeOK /\ Fate(r) /\ Balance(r) /\ pc[r] = "finish"
    BY DEF ReportInv, Finish, At
  <1>2. pc'[r] = "item"
    BY <1>1 DEF Finish, Goto, TypeOK
  <1>3. batch[r] # <<>> /\ batch[r] \in Seq(Posts)
    BY <1>1 DEF TypeOK, Stages
  <1>4. batch'[r] = Tail(batch[r])
    BY <1>1 DEF Finish, TypeOK
  <1>5. Len(batch'[r]) = Len(batch[r]) - 1 /\ Len(batch[r]) \in Nat
    BY <1>3, <1>4
  <1>6. report[r] \in Reports /\ report \in [Relays -> Reports]
    BY <1>1 DEF TypeOK
  <1>7. /\ report'[r].fetched = report[r].fetched
        /\ report'[r].errors = (report[r].errors \/ ctx[r].errors)
        /\ report'[r].published =
              IF ctx[r].success THEN report[r].published + 1 ELSE report[r].published
        /\ report'[r].duplicates =
              IF ctx[r].duplicate THEN report[r].duplicates + 1 ELSE report[r].duplicates
    BY <1>6 DEF Finish, Reports
  <1>8. ASSUME ~report'[r].errors
        PROVE  report'[r].fetched =
                   report'[r].published + report'[r].duplicates + Len(batch'[r])
    <2>1. ~report[r].errors /\ ~ctx[r].errors
      BY <1>7, <1>8
    <2>2. ctx[r].duplicate <=> ~ctx[r].success
      BY <1>1, <2>1 DEF Fate, At
    <2>3. report[r].fetched = report[r].published + report[r].duplicates + Len(batch[r])
      BY <1>1, <2>1 DEF Balance, At
    <2>4. /\ report[r].fetched \in Nat /\ report[r].published \in Nat
          /\ report[r].duplicates \in Nat
      BY <1>6, ReportFields
    <2>5. report'[r].published + report'[r].duplicates =
              report[r].published + report[r].duplicates + 1
      <3>1. CASE ctx[r].success
        BY <1>7, <2>2, <2>4, <3>1
      <3>2. CASE ~ctx[r].success
        BY <1>7, <2>2, <2>4, <3>2
      <3>3. QED
        BY <3>1, <3>2
    <2>6. report'[r].fetched = report[r].fetched
      BY <1>7
    <2> DEFINE counted == report[r].published + report[r].duplicates
               left == Len(batch[r])
    <2>7. /\ counted \in Nat /\ left \in Nat
          /\ report'[r].fetched = counted + left
          /\ report'[r].published + report'[r].duplicates = counted + 1
          /\ Len(batch'[r]) = left - 1
      BY <1>5, <2>3, <2>4, <2>5, <2>6
    <2> HIDE DEF counted, left
    <2>8. (counted + 1) + (left - 1) = counted + left
      BY <2>7
    <2>9. QED
      BY <2>7, <2>8
  <1>9. QED
    BY <1>2, <1>8 DEF Balance, At

\* The steps of the run open the books, add a page to them and close them.
LEMMA RunBalance ==
    ASSUME ReportInv, NEW r \in Relays, StartRun(r) \/ RunStep(r) \/ Crash(r)
    PROVE  Balance(r)'
  <1>1. TypeOK /\ Balance(r)
    BY DEF ReportInv
  <1>2. report[r] \in Reports /\ report \in [Relays -> Reports]
    BY <1>1 DEF TypeOK
  <1>3. CASE StartRun(r)
    <2>1. batch' = batch /\ batch[r] = <<>>
      BY <1>1, <1>3 DEF StartRun, Balance, At
    <2>2. report'[r] = NoReport
      BY <1>2, <1>3 DEF StartRun
    <2>3. pc'[r] = "channel"
      BY <1>1, <1>3 DEF StartRun, Goto, TypeOK
    <2>4. QED
      BY <2>1, <2>2, <2>3 DEF Balance, At, NoReport
  <1>4. CASE FetchPage(r)
    <2>1. batch[r] = <<>> /\ pc[r] = "channel"
      BY <1>1, <1>4 DEF FetchPage, Balance, At
    <2>2. PICK page \in Pages(Channels[chan[r]]) :
              /\ batch' = [batch EXCEPT ![r] = page]
              /\ report' = [report EXCEPT ![r].fetched = @ + Len(page)]
      BY <1>4 DEF FetchPage
    <2>3. Channels[chan[r]] \in DOMAIN Feed
      BY <1>1, <1>4, PipelineAssumption DEF FetchPage, TypeOK
    <2>4. Len(page) \in Nat
      BY <2>3, PagesArePosts
    <2>5. batch'[r] = page
      BY <1>1, <2>2 DEF TypeOK
    <2>6. /\ report'[r].fetched = report[r].fetched + Len(page)
          /\ report'[r].published = report[r].published
          /\ report'[r].duplicates = report[r].duplicates
          /\ report'[r].errors = report[r].errors
      BY <1>2, <2>2 DEF Reports
    <2>7. pc'[r] = "item"
      BY <1>1, <1>4 DEF FetchPage, Goto, TypeOK
    <2>8. ~report[r].errors => report[r].fetched = report[r].published + report[r].duplicates
      BY <1>1, <1>2, <2>1, ReportFields DEF Balance, At
    <2>9. QED
      BY <1>2, <2>4, <2>5, <2>6, <2>7, <2>8, ReportFields DEF Balance, At
  <1>5. CASE FetchFails(r)
    <2>1. report'[r].errors
      BY <1>2, <1>5 DEF FetchFails, Reports
    <2>2. QED
      BY <1>1, <1>5, <2>1 DEF FetchFails, Balance, At
  <1>6. CASE StartItem(r) \/ EndChannel(r) \/ EndRun(r)
    <2>1. batch' = batch /\ report' = report /\ pc[r] # "idle"
      BY <1>6 DEF StartItem, EndChannel, EndRun, runVars, At
    <2>2. pc'[r] \in {"idle", "channel"} => batch[r] = <<>>
      BY <1>1, <1>6 DEF StartItem, EndChannel, EndRun, Balance, At, Goto, TypeOK
    <2>3. QED
      BY <1>1, <2>1, <2>2 DEF Balance, At
  <1>7. CASE Crash(r)
    <2>1. pc'[r] = "idle" /\ batch'[r] = <<>>
      BY <1>1, <1>7 DEF Crash, Goto, TypeOK
    <2>2. QED
      BY <2>1 DEF Balance, At
  <1>8. QED
    BY <1>3, <1>4, <1>5, <1>6, <1>7 DEF RunStep

----------------------------------------------------------------------------
(* The theorems *)

\* Nothing is fetched and nothing is told at first.
LEMMA InitReportInv == Init => ReportInv
  <1> SUFFICES ASSUME Init PROVE ReportInv
    OBVIOUS
  <1>1. ASSUME NEW q \in Relays PROVE Fate(q) /\ Balance(q)
    BY DEF Init, Fate, Balance, At, Stages
  <1>2. QED
    BY <1>1, InitTypeOK DEF ReportInv

\* The invariant of the fates and the books is inductive.
LEMMA NextReportInv == ReportInv /\ [Next]_vars => ReportInv'
  <1> SUFFICES ASSUME ReportInv, [Next]_vars PROVE ReportInv'
    OBVIOUS
  <1>1. TypeOK'
    BY NextTypeOK DEF ReportInv
  <1>2. ASSUME NEW r \in Relays, RelayStep(r) PROVE ReportInv'
    <2>1. Fate(r)'
      BY <1>2, RunFate, StageFate, MarkFate, FinishFate DEF RelayStep, StageStep
    <2>2. Balance(r)'
      BY <1>2, RunBalance, StageBalance, FinishBalance DEF RelayStep
    <2>3. ASSUME NEW q \in Relays PROVE (Fate(q) /\ Balance(q))'
      BY <1>2, <2>1, <2>2, OthersKeep
    <2>4. QED
      BY <1>1, <2>3 DEF ReportInv
  <1>3. CASE UNCHANGED vars
    BY <1>1, <1>3 DEF vars, ReportInv, Fate, Balance, Emitted, At
  <1>4. QED
    BY <1>2, <1>3 DEF Next, RelayStep

\* The invariant holds for every number of relays.
THEOREM ReportInvariant == Spec => []ReportInv
  BY InitReportInv, NextReportInv, PTL DEF Spec

\* A success written for YasinHub means that every fetched post of the run was
\* published or was a duplicate, however many relays write the one status file.
THEOREM HubIsToldTheTruth == Spec => HubTruthful
  <1>1. ReportInv /\ [Next]_vars =>
            [hub' = "ok" /\ hub # "ok" =>
                \E r \in Relays :
                    /\ At(r, "channel") /\ pc'[r] = "idle"
                    /\ report[r].fetched = report[r].published + report[r].duplicates]_vars
    <2> SUFFICES ASSUME ReportInv, Next, hub' = "ok", hub # "ok"
                 PROVE  \E r \in Relays :
                            /\ At(r, "channel") /\ pc'[r] = "idle"
                            /\ report[r].fetched = report[r].published + report[r].duplicates
      BY DEF vars
    <2>1. PICK r \in Relays : RelayStep(r)
      BY DEF Next, RelayStep
    <2>2. CASE EndRun(r)
      <3>1. TypeOK /\ Balance(r) /\ At(r, "channel") /\ ~report[r].errors
        BY <2>2 DEF EndRun, ReportInv
      <3>2. pc'[r] = "idle"
        BY <2>2, <3>1 DEF EndRun, Goto, TypeOK
      <3>3. report[r].published \in Nat /\ report[r].duplicates \in Nat
        BY <3>1, ReportFields DEF TypeOK
      <3>4. report[r].fetched = report[r].published + report[r].duplicates
        BY <3>1, <3>3 DEF Balance, At
      <3>5. QED
        BY <3>1, <3>2, <3>4
    <2>3. CASE ~EndRun(r)
      BY <2>1, <2>3 DEF RelayStep, StartRun, RunStep, FetchPage, FetchFails, StartItem, EndChannel,
         Crash, StageStep, Normalize, Validate, Lookup, Save, FilterAge, RunAI, RunMedia, Publish,
         Mark, Finish, runVars
    <2>4. QED
      BY <2>2, <2>3
  <1>2. QED
    BY <1>1, ReportInvariant, PTL DEF Spec, HubTruthful

\* With one relay the row of an item says `published' when PublishingCompleted was
\* published for it.
CompletedIsRecorded ==
    \A q \in Relays : At(q, "finish") /\ Emitted(q, "PublishingCompleted") =>
        IsPublished(posts, Post(q).key)

\* The only relay comes to the end of an item with that event by the mark.
LEMMA CompletedStep ==
    ASSUME NEW r, Relays = {r}, ReportInv, PipelineInv, CompletedIsRecorded, ReportInv',
           RelayStep(r)
    PROVE  CompletedIsRecorded'
  <1>1. TypeOK /\ r \in Relays /\ Fate(r)
    BY DEF ReportInv
  <1>2. SUFFICES ASSUME pc'[r] = "finish", Emitted(r, "PublishingCompleted")'
                 PROVE  IsPublished(posts, Post(r).key)'
    BY DEF CompletedIsRecorded, At
  <1>3. pc[r] \in Stages \ {"finish"}
    BY <1>1, <1>2 DEF RelayStep, StartRun, RunStep, FetchPage, FetchFails, StartItem, EndChannel,
       EndRun, Crash, StageStep, Normalize, Validate, Lookup, Save, FilterAge, RunAI, RunMedia,
       Publish, Mark, Finish, At, Goto, Stages, TypeOK
  <1>4. ~Emitted(r, "PublishingCompleted")
    BY <1>1, <1>3 DEF Fate
  <1>5. ctx'[r].success
    BY <1>1, <1>2 DEF ReportInv, Fate, At
  <1>6. pc[r] = "mark"
    <2>1. CASE pc[r] # "mark"
      <3>1. \A name \in EventNames : Emit(r, name) => name = "PublishingCompleted"
        BY <1>1, <1>2, <1>4, EmitAdds
      <3>2. ~UNCHANGED events
        BY <1>2, <1>4, EmitNothing
      <3>3. StageStep(r)
        BY <1>3, <1>2, <1>1 DEF RelayStep, StartRun, RunStep, FetchPage, FetchFails, StartItem,
           EndChannel, EndRun, Crash, At, Goto, Stages, TypeOK
      <3>4. QED
        BY <1>3, <2>1, <3>1, <3>2, <3>3 DEF StageStep, Normalize, Validate, Lookup, Save, FilterAge,
           RunAI, RunMedia, Publish, Mark, Finish, StageRaises, At, EventNames
    <2>2. QED
      BY <2>1
  <1>7. Mark(r)
    BY <1>1, <1>2, <1>6 DEF RelayStep, StartRun, RunStep, FetchPage, FetchFails, StartItem,
       EndChannel, EndRun, Crash, StageStep, Normalize, Validate, Lookup, Save, FilterAge, RunAI,
       RunMedia, Publish, Mark, Finish, At, Goto, TypeOK
  <1>8. posts' = MarkPublished(posts, Post(r).key) /\ Post(r)' = Post(r)
    <2>1. ~UNCHANGED events
      BY <1>2, <1>4, EmitNothing
    <2>2. QED
      BY <1>7, <2>1 DEF Mark, runVars, Post
  <1>9. Post(r).key \in Keys /\ posts \in Tables
    BY <1>1, <1>3, CurrentIsItem DEF Posts, TypeOK
  <1>10. HasKey(posts, Post(r).key)
    BY <1>1, <1>6 DEF PipelineInv, CurrentIsClaimed
  <1>11. IsPublished(MarkPublished(posts, Post(r).key), Post(r).key)
    BY <1>9, <1>10, NoRowAssumption DEF HasKey, MarkPublished, Tables, Rows, IsPublished
  <1>12. QED
    BY <1>8, <1>11

\* With one relay no post leaves execute unseen: its events tell its fate, and
\* PublishingCompleted is told only of a post that the report counts and whose
\* row says `published'.
THEOREM ItemsAreReported ==
    ASSUME NEW r, Relays = {r}
    PROVE  Spec => []EveryItemIsReported
  <1> DEFINE Inv == ReportInv /\ PipelineInv /\ CompletedIsRecorded
  <1>1. Init => Inv
    BY InitReportInv, InitPipelineInv DEF Init, CompletedIsRecorded, At
  <1>2. Inv /\ [Next]_vars => Inv'
    <2> SUFFICES ASSUME Inv, [Next]_vars PROVE Inv'
      OBVIOUS
    <2>1. ReportInv' /\ PipelineInv'
      BY NextReportInv, NextPipelineInv
    <2>2. CASE Next
      BY <2>1, <2>2, CompletedStep DEF Next, RelayStep
    <2>3. CASE UNCHANGED vars
      BY <2>1, <2>3 DEF vars, CompletedIsRecorded, At, Emitted, Post
    <2>4. QED
      BY <2>2, <2>3
  <1>3. Inv => EveryItemIsReported
    <2> SUFFICES ASSUME Inv, NEW q \in Relays
                 PROVE  /\ At(q, "item") /\ events[q] # <<>> =>
                              \E name \in Fates : Emitted(q, name)
                        /\ At(q, "finish") /\ Emitted(q, "PublishingCompleted") =>
                              ctx[q].success /\ IsPublished(posts, Post(q).key)
      BY DEF EveryItemIsReported, Fates
    <2>1. Fate(q)
      BY DEF ReportInv
    <2>2. QED
      BY <2>1 DEF Fate, CompletedIsRecorded, At, Stages
  <1>4. QED
    BY <1>1, <1>2, <1>3, PTL DEF Spec

----------------------------------------------------------------------------
(***************************************************************************)
(* The health monitor: what its totals account for, with any number of     *)
(* relays, and how far they and the reports go along with one relay's table. *)
(***************************************************************************)

\* Every step is a step of the pipeline: the monitor only watches.
LEMMA HealthStepIsRelayStep ==
    ASSUME NEW r \in Relays, HealthStep(r)
    PROVE  RelayStep(r)
  BY DEF HealthStep, EndRunAndReport, CrashAndForget, RelayStep, RunStep

LEMMA HealthNextIsNext ==
    ASSUME [HealthNext]_healthVars
    PROVE  [Next]_vars
  BY HealthStepIsRelayStep DEF HealthNext, Next, RelayStep, healthVars

\* The fields of a monitor.
LEMMA MonitorFields ==
    ASSUME NEW m \in Monitors
    PROVE  /\ m.fetched \in Nat /\ m.published \in Nat /\ m.failed \in Nat
           /\ m.duplicates \in Nat /\ m.oldPending \in Nat
  BY DEF Monitors

\* The last event of an item tells whether a step published one.
LEMMA EmitIsSeen ==
    ASSUME TypeOK, NEW r \in Relays
    PROVE  /\ \A name \in EventNames : Emit(r, name) =>
                 \A other : StepEmits(r, other) <=> other = name
           /\ UNCHANGED events => \A other : ~StepEmits(r, other)
  <1>1. events[r] \in Seq(EventNames) /\ Len(events[r]) \in Nat
    BY DEF TypeOK
  <1>2. ASSUME NEW name \in EventNames, Emit(r, name)
        PROVE  \A other : StepEmits(r, other) <=> other = name
    <2>1. events'[r] = Append(events[r], name)
      BY <1>2 DEF Emit, TypeOK
    <2>2. Len(events'[r]) = Len(events[r]) + 1 /\ events'[r][Len(events[r]) + 1] = name
      BY <1>1, <2>1
    <2>3. QED
      BY <1>1, <2>2 DEF StepEmits
  <1>3. UNCHANGED events => \A other : ~StepEmits(r, other)
    BY <1>1 DEF StepEmits
  <1>4. QED
    BY <1>2, <1>3

\* What a stage step adds to the totals of a monitor.
Added(r, name) == IF StepEmits(r, name) THEN 1 ELSE 0

LEMMA CountedFields ==
    ASSUME NEW m \in Monitors, NEW r
    PROVE  /\ Counted(m, r) \in Monitors
           /\ Counted(m, r).fetched = m.fetched
           /\ Counted(m, r).oldPending = m.oldPending
           /\ Counted(m, r).published = m.published + Added(r, "PublishingCompleted")
           /\ Counted(m, r).failed = m.failed + Added(r, "ProcessingFailed")
           /\ Counted(m, r).duplicates = m.duplicates + Added(r, "DuplicateDetected")
  <1> DEFINE p == m.published + Added(r, "PublishingCompleted")
             f == m.failed + Added(r, "ProcessingFailed")
             d == m.duplicates + Added(r, "DuplicateDetected")
  <1>1. p \in Nat /\ f \in Nat /\ d \in Nat
    BY MonitorFields DEF Added
  <1>a. /\ p = IF StepEmits(r, "PublishingCompleted") THEN m.published + 1 ELSE m.published
        /\ f = IF StepEmits(r, "ProcessingFailed") THEN m.failed + 1 ELSE m.failed
        /\ d = IF StepEmits(r, "DuplicateDetected") THEN m.duplicates + 1 ELSE m.duplicates
    BY MonitorFields DEF Added
  <1> HIDE DEF p, f, d
  <1>2. Counted(m, r) = [m EXCEPT !.published = p, !.failed = f, !.duplicates = d]
    BY <1>a DEF Counted, Monitors
  <1>3. /\ Counted(m, r) \in Monitors
        /\ Counted(m, r).fetched = m.fetched /\ Counted(m, r).oldPending = m.oldPending
        /\ Counted(m, r).published = p /\ Counted(m, r).failed = f
        /\ Counted(m, r).duplicates = d
    BY <1>1, <1>2 DEF Monitors
  <1>4. QED
    BY <1>3 DEF p, f, d

----------------------------------------------------------------------------
(* The rows of the table are finitely many *)

KeysOfRows(t) == {k \in Keys : HasKey(t, k)}

\* The rows of a status are among them, and can be counted.
LEMMA RowsAreCounted ==
    ASSUME RowsAreFinite, NEW status
    PROVE  /\ IsFiniteSet({k \in Keys : HasKey(posts, k) /\ posts[k].status = status})
           /\ CountRows(status) \in Nat
  <1> DEFINE R == {k \in Keys : HasKey(posts, k) /\ posts[k].status = status}
  <1>1. R \subseteq KeysOfRows(posts)
    BY DEF KeysOfRows
  <1>2. IsFiniteSet(R)
    BY <1>1, FS_Subset DEF RowsAreFinite, KeysOfRows
  <1>3. Cardinality(R) \in Nat
    BY <1>2, FS_CardinalityType
  <1>4. QED
    BY <1>2, <1>3 DEF CountRows

\* The two transactions that change the table.
Inserts(r) ==
    Save(r) /\ posts' = SavePending(posts, Post(r).key, Content(r)) /\ Goto(r, "age")

Records(r) ==
    /\ Mark(r) /\ posts' = MarkPublished(posts, Post(r).key)
    /\ Emit(r, "PublishingCompleted") /\ UNCHANGED ctx /\ Goto(r, "finish")

\* A step of a relay changes the table by the insert or by the mark, if at all.
LEMMA TableChanges ==
    ASSUME TypeOK, NEW r \in Relays, RelayStep(r)
    PROVE  posts' = posts \/ Inserts(r) \/ Records(r)
  BY DEF RelayStep, StartRun, RunStep, FetchPage, FetchFails, StartItem, EndChannel, EndRun, Crash,
         StageStep, Normalize, Validate, Lookup, Save, FilterAge, RunAI, RunMedia, Publish, Mark,
         Finish, StageRaises, Inserts, Records

LEMMA RowsStayFinite ==
    ASSUME TypeOK, RowsAreFinite, NEW r \in Relays, RelayStep(r)
    PROVE  RowsAreFinite'
  <1> DEFINE key == Post(r).key
  <1>1. IsFiniteSet(KeysOfRows(posts))
    BY DEF RowsAreFinite, KeysOfRows
  <1>2. CASE posts' = posts
    BY <1>2 DEF RowsAreFinite, HasKey
  <1>3. CASE posts' \in {SavePending(posts, key, Content(r)), MarkPublished(posts, key)}
             /\ pc[r] \in Stages
    <2>1. key \in Keys /\ posts \in Tables
      BY <1>3, CurrentIsItem DEF Posts, TypeOK
    <2>2. KeysOfRows(posts') \subseteq KeysOfRows(posts) \cup {key}
      BY <1>3, <2>1 DEF KeysOfRows, HasKey, SavePending, MarkPublished, Tables
    <2>3. IsFiniteSet(KeysOfRows(posts) \cup {key})
      BY <1>1, FS_AddElement
    <2>4. IsFiniteSet(KeysOfRows(posts'))
      BY <2>2, <2>3, FS_Subset
    <2>5. QED
      BY <2>4 DEF RowsAreFinite, KeysOfRows, HasKey
  <1>4. QED
    BY <1>2, <1>3, TableChanges DEF Inserts, Records, Save, Mark, At, Stages

----------------------------------------------------------------------------
(* The totals, with any number of relays *)

\* The monitor of a process that subscribes now.
LEMMA NewMonitorType ==
    ASSUME RowsAreFinite
    PROVE  NewMonitor \in Monitors
  BY RowsAreCounted DEF NewMonitor, Monitors

LEMMA SubscribedType ==
    ASSUME HealthInv, NEW r \in Relays
    PROVE  /\ Subscribed(r) \in Monitors
           /\ ~Watching(r) => Subscribed(r) = NewMonitor
           /\ Watching(r) => Subscribed(r) = monitor[r]
  BY NewMonitorType DEF HealthInv, HealthTypeOK, Subscribed, Watching

\* A report that is written has the types of its fields.
LEMMA ReportType ==
    ASSUME RowsAreFinite, NEW m \in Monitors, NEW rep \in ReportsOf(m)
    PROVE  /\ rep \in HealthReports
           /\ rep.published = m.published
           /\ rep.status # "error" => rep.dbPublished = CountRows("published")
  <1>1. CountRows("published") \in Nat /\ CountRows("pending") \in Nat
    BY RowsAreCounted
  <1>2. PICK read \in 0 .. 3, fetcher \in {"available", "unavailable"},
             publisher \in {"connected", "degraded", "error"} :
             rep = [status |-> OverallStatus(IF read = 3 THEN "connected" ELSE "error",
                                             fetcher, publisher, m),
                    fetched |-> m.fetched, published |-> m.published, failed |-> m.failed,
                    dbPublished |-> IF read > 0 THEN CountRows("published") ELSE 0,
                    dbPending |-> IF read > 1 THEN CountRows("pending") ELSE 0]
    BY DEF ReportsOf
  <1>3. \A d : OverallStatus(d, fetcher, publisher, m) \in {"active", "degraded", "error"}
    BY DEF OverallStatus
  <1>4. rep.status # "error" => read = 3
    BY <1>2 DEF OverallStatus
  <1>5. QED
    BY <1>1, <1>2, <1>3, <1>4, MonitorFields DEF HealthReports

\* What a step does to the monitor of its relay: it fetches a page, it counts the
\* event of a stage, it leaves the monitor alone, it subscribes or it crashes.
LEMMA MonitorStep ==
    ASSUME HealthInv, NEW r \in Relays, HealthStep(r)
    PROVE  /\ \A q \in Relays \ {r} : monitor'[q] = monitor[q] /\ enabled'[q] = enabled[q]
           /\ enabled'[r] = enabled[r] \/ monitor'[r] = NoMonitor
           /\ \/ /\ FetchPage(r)
                 /\ monitor'[r] = IF Hears(r)
                                  THEN [monitor[r] EXCEPT !.fetched = @ + Len(batch'[r])]
                                  ELSE monitor[r]
              \/ /\ StageStep(r)
                 /\ monitor'[r] = IF Hears(r) THEN Counted(monitor[r], r) ELSE monitor[r]
              \/ /\ StartRun(r) \/ FetchFails(r) \/ StartItem(r) \/ EndChannel(r) \/ EndRun(r)
                 /\ monitor'[r] = monitor[r]
              \/ EndRun(r) /\ monitor'[r] = Subscribed(r)
              \/ Crash(r) /\ monitor'[r] = NoMonitor
           /\ \/ health' \in {health, NoHealth}
              \/ health' \in ReportsOf(Subscribed(r))
  <1>1. monitor \in [Relays -> Monitors \cup {NoMonitor}] /\ enabled \in [Relays -> BOOLEAN]
    BY DEF HealthInv, HealthTypeOK
  <1>2. CASE FetchPage(r) /\ ObserveFetch(r)
    BY <1>1, <1>2 DEF ObserveFetch
  <1>3. CASE StageStep(r) /\ Observe(r)
    BY <1>1, <1>3 DEF Observe
  <1>4. CASE (StartRun(r) \/ FetchFails(r) \/ StartItem(r) \/ EndChannel(r))
             /\ UNCHANGED <<enabled, monitor, health>>
    BY <1>4
  <1>5. CASE EndRunAndReport(r)
    <2>1. CASE UNCHANGED monitor /\ health' \in {health, NoHealth}
      BY <1>5, <2>1 DEF EndRunAndReport
    <2>2. CASE /\ monitor' = [monitor EXCEPT ![r] = Subscribed(r)]
               /\ \/ health' \in ReportsOf(Subscribed(r)) \cup {NoHealth}
                  \/ hub' = hub /\ UNCHANGED health
      <3>1. monitor'[r] = Subscribed(r) /\ \A q \in Relays \ {r} : monitor'[q] = monitor[q]
        BY <1>1, <2>2
      <3>2. EndRun(r) /\ enabled' = enabled
        BY <1>5 DEF EndRunAndReport
      <3>3. QED
        BY <2>2, <3>1, <3>2
    <2>3. QED
      BY <1>5, <2>1, <2>2 DEF EndRunAndReport
  <1>6. CASE CrashAndForget(r)
    <2>1. PICK on \in BOOLEAN : enabled' = [enabled EXCEPT ![r] = on]
      BY <1>6 DEF CrashAndForget
    <2>2. QED
      BY <1>1, <1>6, <2>1 DEF CrashAndForget
  <1>7. QED
    BY <1>2, <1>3, <1>4, <1>5, <1>6 DEF HealthStep

\* What a monitor hears after a step: it heard before, or it has just subscribed.
LEMMA HearsStep ==
    ASSUME HealthInv, NEW r \in Relays, HealthStep(r)
    PROVE  /\ \A q \in Relays \ {r} : Hears(q)' <=> Hears(q)
           /\ Hears(r)' => Hears(r) \/ ~Watching(r)
  BY MonitorStep DEF Hears, Watching

\* The types of monitor and report.
LEMMA HealthTypeStep ==
    ASSUME TypeOK, TypeOK', HealthInv, RowsAreFinite', NEW r \in Relays, HealthStep(r)
    PROVE  HealthTypeOK'
  <1>1. /\ monitor \in [Relays -> Monitors \cup {NoMonitor}]
        /\ enabled \in [Relays -> BOOLEAN]
        /\ health \in HealthReports \cup {NoHealth}
        /\ RowsAreFinite
    BY DEF HealthInv, HealthTypeOK
  <1>2. Subscribed(r) \in Monitors
    BY SubscribedType
  <1>3. health' \in HealthReports \cup {NoHealth}
    BY <1>1, <1>2, MonitorStep, ReportType
  <1>4. monitor'[r] \in Monitors \cup {NoMonitor}
    <2>1. CASE FetchPage(r) /\ Hears(r)
               /\ monitor'[r] = [monitor[r] EXCEPT !.fetched = @ + Len(batch'[r])]
      <3>1. Len(batch'[r]) \in Nat
        BY DEF TypeOK
      <3>2. monitor[r] \in Monitors
        BY <1>1, <2>1 DEF Hears, Watching
      <3>3. monitor[r].fetched + Len(batch'[r]) \in Nat
        BY <3>1, <3>2, MonitorFields
      <3>4. QED
        BY <2>1, <3>2, <3>3 DEF Monitors
    <2>2. CASE Hears(r) /\ monitor'[r] = Counted(monitor[r], r)
      BY <1>1, <2>2, CountedFields DEF Hears, Watching
    <2>3. QED
      BY <1>1, <1>2, <2>1, <2>2, MonitorStep
  <1>5. monitor' \in [Relays -> Monitors \cup {NoMonitor}]
    <2>1. \E m : monitor' = [monitor EXCEPT ![r] = m]
      <3>1. CASE monitor' = monitor
        BY <1>1, <3>1
      <3>2. CASE monitor' # monitor
        BY <3>2 DEF HealthStep, ObserveFetch, Observe, EndRunAndReport, CrashAndForget
      <3>3. QED
        BY <3>1, <3>2
    <2>2. QED
      BY <1>1, <1>4, <2>1
  <1>6. enabled' \in [Relays -> BOOLEAN]
    <2>1. \E on \in BOOLEAN : enabled' = enabled \/ enabled' = [enabled EXCEPT ![r] = on]
      BY DEF HealthStep, ObserveFetch, Observe, EndRunAndReport, CrashAndForget
    <2>2. QED
      BY <1>1, <2>1
  <1>7. QED
    BY <1>3, <1>5, <1>6 DEF HealthTypeOK

\* What a stage publishes when it ends an item, or counts it: the steps that
\* open or close the gap between the totals and the batch.
LEMMA StageCounts ==
    ASSUME ReportInv, NEW r \in Relays, StageStep(r), IsCounted(r)'
    PROVE  Added(r, "PublishingCompleted") + Added(r, "DuplicateDetected") = 1
  <1>1. TypeOK /\ ctx \in [Relays -> Contexts] /\ ctx[r] \in Contexts
    BY DEF ReportInv, TypeOK
  <1>2. pc'[r] = "finish" /\ ctx'[r].valid /\ ~ctx'[r].errors
    BY DEF IsCounted, Failed, At
  <1>3. ~NoteError(r) /\ ~Invalidate(r)
    BY <1>1, <1>2, Noted
  <1>4. \/ Lookup(r) /\ Emit(r, "DuplicateDetected")
        \/ Mark(r) /\ Emit(r, "PublishingCompleted")
    BY <1>1, <1>2, <1>3 DEF StageStep, Normalize, Validate, Lookup, Save, FilterAge, RunAI, RunMedia,
       Publish, Mark, Finish, StageRaises, Goto, TypeOK
  <1>5. QED
    BY <1>1, <1>4, EmitIsSeen DEF EventNames, Added

\* An amount that is a natural number.
LEMMA AddedType ==
    ASSUME NEW r, NEW name
    PROVE  Added(r, name) \in {0, 1}
  BY DEF Added

\* The end of execute counts the failure of an item that is not counted yet.
LEMMA FinishCounts ==
    ASSUME TypeOK, NEW r \in Relays, Finish(r)
    PROVE  /\ Added(r, "ProcessingFailed") = IF IsCounted(r) THEN 0 ELSE 1
           /\ ~IsCounted(r)'
           /\ Len(batch'[r]) = Len(batch[r]) - 1
  <1>1. pc[r] = "finish" /\ pc'[r] = "item"
    BY DEF Finish, At, Goto, TypeOK
  <1>2. batch[r] # <<>> /\ batch[r] \in Seq(Posts) /\ batch'[r] = Tail(batch[r])
    BY <1>1 DEF Finish, TypeOK, Stages
  <1>3. CASE Failed(ctx[r])
    <2>1. Emit(r, "ProcessingFailed")
      BY <1>3 DEF Finish
    <2>2. QED
      BY <1>1, <1>2, <1>3, <2>1, EmitIsSeen DEF Added, IsCounted, At, EventNames
  <1>4. CASE ~Failed(ctx[r])
    <2>1. UNCHANGED events
      BY <1>4 DEF Finish
    <2>2. QED
      BY <1>1, <1>2, <1>4, <2>1, EmitIsSeen DEF Added, IsCounted, At
  <1>5. QED
    BY <1>3, <1>4

\* A relay's account after each of the five things a step does to its monitor.
LEMMA AccountedStep ==
    ASSUME ReportInv, TypeOK', HealthInv, HealthTypeOK', NEW r \in Relays, HealthStep(r),
           Hears(r)'
    PROVE  monitor'[r].fetched + (IF IsCounted(r)' THEN 1 ELSE 0)
               <= monitor'[r].published + monitor'[r].failed + monitor'[r].duplicates
                    + Len(batch'[r])
  <1> DEFINE m == monitor[r]
             n == monitor'[r]
             ahead == IF IsCounted(r) THEN 1 ELSE 0
             aheadNow == IF IsCounted(r)' THEN 1 ELSE 0
             left == Len(batch[r])
             leftNow == Len(batch'[r])
             completed == Added(r, "PublishingCompleted")
             failed == Added(r, "ProcessingFailed")
             duplicate == Added(r, "DuplicateDetected")
  <1> SUFFICES n.fetched + aheadNow <= n.published + n.failed + n.duplicates + leftNow
    OBVIOUS
  <1>1. TypeOK /\ Balance(r) /\ left \in Nat /\ leftNow \in Nat
    <2>1. TypeOK /\ Balance(r)
      BY DEF ReportInv
    <2>2. batch[r] \in Seq(Posts) /\ batch'[r] \in Seq(Posts)
      BY <2>1 DEF TypeOK
    <2>3. QED
      BY <2>1, <2>2
  <1>2. n \in Monitors /\ n # NoMonitor
    BY DEF HealthTypeOK, Hears, Watching
  <1>3. /\ n.fetched \in Nat /\ n.published \in Nat /\ n.failed \in Nat /\ n.duplicates \in Nat
        /\ ahead \in {0, 1} /\ aheadNow \in {0, 1}
        /\ completed \in {0, 1} /\ failed \in {0, 1} /\ duplicate \in {0, 1}
    BY <1>2, MonitorFields, AddedType
  <1>4. ASSUME Hears(r)
        PROVE  /\ m \in Monitors
               /\ m.fetched \in Nat /\ m.published \in Nat /\ m.failed \in Nat
               /\ m.duplicates \in Nat
               /\ m.fetched + ahead <= m.published + m.failed + m.duplicates + left
    <2>1. m \in Monitors
      BY <1>4 DEF HealthInv, HealthTypeOK, Hears, Watching
    <2>2. QED
      BY <1>4, <2>1, MonitorFields DEF HealthInv, Accounted
  <1>5. CASE FetchPage(r) /\ n = [m EXCEPT !.fetched = @ + Len(batch'[r])] /\ Hears(r)
    <2>1. batch[r] = <<>> /\ ~IsCounted(r)'
      BY <1>1, <1>5 DEF FetchPage, Balance, At, Goto, TypeOK, IsCounted
    <2>2. /\ n.fetched = m.fetched + leftNow
          /\ n.published = m.published /\ n.failed = m.failed /\ n.duplicates = m.duplicates
      BY <1>4, <1>5 DEF Monitors
    <2>3. left = 0 /\ aheadNow = 0
      BY <2>1
    <2>4. m.fetched + ahead <= m.published + m.failed + m.duplicates + left
      BY <1>4, <1>5
    <2>5. /\ m.fetched \in Nat /\ m.published \in Nat /\ m.failed \in Nat
          /\ m.duplicates \in Nat
      BY <1>4, <1>5
    <2> HIDE DEF m, n, ahead, aheadNow, left, leftNow
    <2>6. QED
      BY <1>1, <1>3, <2>2, <2>3, <2>4, <2>5
  <1>6. CASE StageStep(r) /\ n = Counted(m, r) /\ Hears(r)
    <2>1. /\ n.fetched = m.fetched
          /\ n.published = m.published + completed
          /\ n.failed = m.failed + failed
          /\ n.duplicates = m.duplicates + duplicate
      BY <1>4, <1>6, CountedFields
    <2>2. CASE Finish(r)
      <3>1. failed = 1 - ahead /\ aheadNow = 0 /\ leftNow = left - 1
        BY <1>1, <2>2, FinishCounts
      <3> HIDE DEF m, n, ahead, aheadNow, left, leftNow, completed, failed, duplicate
      <3>2. QED
        BY <1>1, <1>3, <1>4, <1>6, <2>1, <3>1
    <2>3. CASE ~Finish(r)
      <3>1. batch' = batch
        BY <1>6, <2>3 DEF StageStep, Normalize, Validate, Lookup, Save, FilterAge, RunAI, RunMedia,
           Publish, Mark, runVars
      <3>2. aheadNow <= completed + duplicate
        BY <1>3, <1>6, StageCounts
      <3>3. leftNow = left
        BY <3>1
      <3> HIDE DEF m, n, ahead, aheadNow, left, leftNow, completed, failed, duplicate
      <3>4. QED
        BY <1>1, <1>3, <1>4, <1>6, <2>1, <3>2, <3>3
    <2>4. QED
      BY <2>2, <2>3
  <1>7. CASE /\ StartRun(r) \/ FetchFails(r) \/ StartItem(r) \/ EndChannel(r) \/ EndRun(r)
             /\ n = m
    <2>1. leftNow = left
      BY <1>7 DEF StartRun, FetchFails, StartItem, EndChannel, EndRun, runVars
    <2>2. aheadNow = 0
      BY <1>1, <1>7 DEF StartRun, FetchFails, StartItem, EndChannel, EndRun, IsCounted, At, Goto,
         TypeOK
    <2>3. Hears(r)
      BY <1>2, <1>7, HearsStep DEF Watching
    <2> HIDE DEF m, n, ahead, aheadNow, left, leftNow
    <2>4. QED
      BY <1>1, <1>3, <1>4, <1>7, <2>1, <2>2, <2>3
  <1>8. CASE EndRun(r) /\ n = NewMonitor
    <2>1. n.fetched = 0
      BY <1>8 DEF NewMonitor
    <2>2. aheadNow = 0
      BY <1>1, <1>8 DEF EndRun, IsCounted, At, Goto, TypeOK
    <2> HIDE DEF n, aheadNow, leftNow
    <2>3. QED
      BY <1>1, <1>3, <2>1, <2>2
  <1>9. QED
    BY <1>2, <1>5, <1>6, <1>7, <1>8, MonitorStep, HearsStep, SubscribedType DEF Watching

\* A monitor that hears nothing stays empty.
LEMMA DeafStep ==
    ASSUME HealthInv, NEW r \in Relays, HealthStep(r), Watching(r)', ~enabled'[r]
    PROVE  monitor'[r].fetched = 0 /\ monitor'[r].published = 0
  <1>1. monitor'[r] # NoMonitor /\ ~Hears(r)
    BY MonitorStep DEF Watching, Hears
  <1>2. monitor'[r] = monitor[r] \/ monitor'[r] = Subscribed(r)
    BY <1>1, MonitorStep
  <1>3. CASE Watching(r)
    <2>1. monitor'[r] = monitor[r] /\ ~enabled[r]
      BY <1>1, <1>2, <1>3, SubscribedType DEF Hears
    <2>2. QED
      BY <1>3, <2>1 DEF HealthInv, DeafIsEmpty
  <1>4. CASE ~Watching(r)
    <2>1. monitor'[r] = NewMonitor
      BY <1>1, <1>2, <1>4, SubscribedType DEF Watching
    <2>2. QED
      BY <2>1 DEF NewMonitor
  <1>5. QED
    BY <1>3, <1>4

\* No process has a monitor and no report is written at first.
LEMMA InitHealthInv == HealthInit => HealthInv
  <1> SUFFICES ASSUME HealthInit PROVE HealthInv
    OBVIOUS
  <1>1. KeysOfRows(posts) = {}
    BY DEF HealthInit, Init, EmptyTable, KeysOfRows, HasKey
  <1>2. RowsAreFinite
    BY <1>1, FS_EmptySet DEF RowsAreFinite, KeysOfRows
  <1>3. QED
    BY <1>2 DEF HealthInit, HealthInv, HealthTypeOK, Accounted, DeafIsEmpty, Hears, Watching

\* The step of one relay leaves the account of the others alone.
LEMMA HealthInvStep ==
    ASSUME ReportInv, ReportInv', HealthInv, NEW r \in Relays, HealthStep(r)
    PROVE  HealthInv'
  <1>1. TypeOK /\ TypeOK' /\ RelayStep(r)
    BY HealthStepIsRelayStep DEF ReportInv
  <1>2. RowsAreFinite'
    BY <1>1, RowsStayFinite DEF HealthInv
  <1>3. HealthTypeOK'
    BY <1>1, <1>2, HealthTypeStep
  <1>4. ASSUME NEW q \in Relays, Hears(q)'
        PROVE  monitor'[q].fetched + (IF IsCounted(q)' THEN 1 ELSE 0)
                   <= monitor'[q].published + monitor'[q].failed + monitor'[q].duplicates
                        + Len(batch'[q])
    <2>1. CASE q = r
      BY <1>1, <1>3, <1>4, <2>1, AccountedStep
    <2>2. CASE q # r
      <3>1. pc'[q] = pc[q] /\ ctx'[q] = ctx[q] /\ batch'[q] = batch[q]
        BY <1>1, <2>2, OthersStay
      <3>2. monitor'[q] = monitor[q]
        BY <2>2, MonitorStep
      <3>3. Hears(q) /\ (IsCounted(q)' <=> IsCounted(q))
        BY <1>4, <2>2, <3>1, HearsStep DEF IsCounted, At
      <3>4. monitor[q].fetched + (IF IsCounted(q) THEN 1 ELSE 0)
                <= monitor[q].published + monitor[q].failed + monitor[q].duplicates
                     + Len(batch[q])
        BY <3>3 DEF HealthInv, Accounted
      <3>5. QED
        BY <3>1, <3>2, <3>3, <3>4
    <2>3. QED
      BY <2>1, <2>2
  <1>5. Accounted'
    BY <1>4 DEF Accounted
  <1>6. DeafIsEmpty'
    <2>1. ASSUME NEW q \in Relays \ {r}, Watching(q)', ~enabled'[q]
          PROVE  monitor'[q].fetched = 0 /\ monitor'[q].published = 0
      BY <2>1, MonitorStep DEF HealthInv, DeafIsEmpty, Watching
    <2>2. QED
      BY <2>1, DeafStep DEF DeafIsEmpty
  <1>7. QED
    BY <1>2, <1>3, <1>5, <1>6 DEF HealthInv

LEMMA NextHealthInv ==
    ASSUME ReportInv, HealthInv, [HealthNext]_healthVars
    PROVE  ReportInv' /\ HealthInv'
  <1>1. ReportInv'
    BY HealthNextIsNext, NextReportInv
  <1>2. CASE HealthNext
    BY <1>1, <1>2, HealthInvStep DEF HealthNext
  <1>3. CASE UNCHANGED healthVars
    <2>1. UNCHANGED <<posts, pc, ctx, batch, enabled, monitor, health>>
      BY <1>3 DEF healthVars, vars
    <2>2. \A q \in Relays : /\ IsCounted(q)' <=> IsCounted(q)
                            /\ Watching(q)' <=> Watching(q)
                            /\ Hears(q)' <=> Hears(q)
      BY <2>1 DEF IsCounted, At, Watching, Hears
    <2>3. QED
      BY <1>1, <2>1, <2>2
      DEF HealthInv, HealthTypeOK, RowsAreFinite, HasKey, Accounted, DeafIsEmpty
  <1>4. QED
    BY <1>1, <1>2, <1>3

\* The books of any number of relays balance, and the totals of every monitor account
\* for what it was told of, item by item.
THEOREM HealthInvariant == HealthSpec => [](ReportInv /\ HealthInv)
  <1>1. HealthInit => ReportInv /\ HealthInv
    BY InitReportInv, InitHealthInv DEF HealthInit
  <1>2. ReportInv /\ HealthInv /\ [HealthNext]_healthVars => (ReportInv /\ HealthInv)'
    BY NextHealthInv
  <1>3. QED
    BY <1>1, <1>2, PTL DEF HealthSpec

\* Between two posts the totals of a monitor account for everything its process
\* fetched since it subscribed, however many relays there are and however many
\* of their runs crash.
THEOREM FetchedIsCounted == HealthSpec => []FetchedIsAccountedFor
  <1>1. ReportInv /\ HealthInv => FetchedIsAccountedFor
    <2> SUFFICES ASSUME ReportInv, HealthInv, NEW r \in Relays, Watching(r),
                        pc[r] \in {"idle", "channel", "item"}
                 PROVE  monitor[r].fetched
                            <= monitor[r].published + monitor[r].failed
                                 + monitor[r].duplicates + Len(batch[r])
      BY DEF FetchedIsAccountedFor
    <2>1. ~IsCounted(r)
      BY DEF IsCounted, At
    <2>2. /\ monitor[r].fetched \in Nat /\ monitor[r].published \in Nat
          /\ monitor[r].failed \in Nat /\ monitor[r].duplicates \in Nat
      BY MonitorFields DEF HealthInv, HealthTypeOK, Watching
    <2>3. CASE enabled[r]
      <3>1. monitor[r].fetched + 0
                <= monitor[r].published + monitor[r].failed + monitor[r].duplicates
                     + Len(batch[r])
        BY <2>1, <2>3 DEF HealthInv, Accounted, Hears
      <3>2. QED
        BY <2>2, <3>1
    <2>4. CASE ~enabled[r]
      <3>1. monitor[r].fetched = 0
        BY <2>4 DEF HealthInv, DeafIsEmpty
      <3>2. Len(batch[r]) \in Nat
        BY DEF ReportInv, TypeOK
      <3>3. \A a, b, c, d \in Nat : 0 <= a + b + c + d
        OBVIOUS
      <3>4. QED
        BY <2>2, <3>1, <3>2, <3>3
    <2>5. QED
      BY <2>3, <2>4
  <1>2. QED
    BY <1>1, HealthInvariant, PTL

----------------------------------------------------------------------------
(* The rows of one relay *)

RowsOf(t, status) == {k \in Keys : HasKey(t, k) /\ t[k].status = status}

\* The insert adds a row that waits, and the rows that are published stay.
LEMMA InsertCounts ==
    ASSUME NEW t \in Tables, NEW k \in Keys, NEW c \in Contents, ~HasKey(t, k)
    PROVE  /\ RowsOf(SavePending(t, k, c), "pending") = RowsOf(t, "pending") \cup {k}
           /\ RowsOf(SavePending(t, k, c), "published") = RowsOf(t, "published")
           /\ k \notin RowsOf(t, "pending")
  <1>1. SavePending(t, k, c)[k] = [content |-> c, status |-> "pending"]
    BY DEF SavePending, Tables
  <1>2. \A j \in Keys \ {k} : SavePending(t, k, c)[j] = t[j]
    BY DEF SavePending, Tables
  <1>3. [content |-> c, status |-> "pending"] # NoRow
    BY NoRowAssumption DEF Rows
  <1>4. QED
    BY <1>1, <1>2, <1>3 DEF RowsOf, HasKey

\* The mark turns a row that waits into one that is published.
LEMMA MarkCounts ==
    ASSUME NEW t \in Tables, NEW k \in RowsOf(t, "pending")
    PROVE  /\ RowsOf(MarkPublished(t, k), "pending") = RowsOf(t, "pending") \ {k}
           /\ RowsOf(MarkPublished(t, k), "published") = RowsOf(t, "published") \cup {k}
           /\ k \notin RowsOf(t, "published")
  <1>1. t[k] \in Rows /\ k \in Keys /\ HasKey(t, k)
    BY DEF RowsOf, HasKey, Tables
  <1>2. MarkPublished(t, k)[k] = [content |-> t[k].content, status |-> "published"]
    BY <1>1 DEF MarkPublished, Tables
  <1>3. \A j \in Keys \ {k} : MarkPublished(t, k)[j] = t[j]
    BY DEF MarkPublished, Tables
  <1>4. [content |-> t[k].content, status |-> "published"] # NoRow
    BY <1>1, NoRowAssumption DEF Rows
  <1>5. QED
    BY <1>2, <1>3, <1>4 DEF RowsOf, HasKey

\* What a step of the only relay does to the numbers of rows.
LEMMA CountsStep ==
    ASSUME NEW r, Relays = {r}, OneRelayInv, RowsAreFinite, CurrentIsPending, RelayStep(r)
    PROVE  /\ CurrentIsPending'
           /\ CountRows("pending") \in Nat /\ CountRows("published") \in Nat
           /\ ~Inserts(r) /\ ~Records(r) =>
                 /\ CountRows("pending")' = CountRows("pending")
                 /\ CountRows("published")' = CountRows("published")
           /\ Inserts(r) =>
                 /\ CountRows("pending")' = CountRows("pending") + 1
                 /\ CountRows("published")' = CountRows("published")
           /\ Records(r) =>
                 /\ CountRows("pending")' = CountRows("pending") - 1
                 /\ CountRows("published")' = CountRows("published") + 1
  <1> DEFINE key == Post(r).key
  <1>1. TypeOK /\ PipelineInv /\ r \in Relays /\ posts \in Tables
    BY DEF OneRelayInv, PipelineInv, TypeOK
  <1>2. \A status : CountRows(status) = Cardinality(RowsOf(posts, status))
    BY DEF CountRows, RowsOf
  <1>3. \A status : CountRows(status)' = Cardinality(RowsOf(posts', status))
    BY DEF CountRows, RowsOf, HasKey
  <1>4. \A status : IsFiniteSet(RowsOf(posts, status)) /\ CountRows(status) \in Nat
    BY RowsAreCounted DEF RowsOf
  <1>5. ~(Inserts(r) /\ Records(r))
    BY DEF Inserts, Records, Save, Mark, At
  <1>6. CASE ~Inserts(r) /\ ~Records(r)
    <2>1. posts' = posts
      BY <1>1, <1>6, TableChanges
    <2>2. pc'[r] \in Claiming => pc[r] \in Claiming /\ batch' = batch
      <3>1. CASE StartRun(r) \/ RunStep(r) \/ Crash(r)
        BY <1>1, <3>1 DEF StartRun, RunStep, FetchPage, FetchFails, StartItem, EndChannel, EndRun,
           Crash, At, Goto, TypeOK, Claiming
      <3>2. CASE StageStep(r)
        BY <1>1, <1>6, <3>2 DEF StageStep, Normalize, Validate, Lookup, Save, FilterAge, RunAI,
           RunMedia, Publish, Mark, Finish, StageRaises, Inserts, At, Goto, TypeOK, Claiming, runVars
      <3>3. QED
        BY <3>1, <3>2 DEF RelayStep
    <2>3. CurrentIsPending'
      BY <2>1, <2>2 DEF CurrentIsPending, Claiming, Post
    <2>4. QED
      BY <1>2, <1>3, <1>4, <1>6, <2>1, <2>3
  <1>7. CASE Inserts(r)
    <2>1. pc[r] = "save" /\ pc'[r] = "age" /\ batch' = batch
      BY <1>1, <1>7 DEF Inserts, Save, At, Goto, TypeOK, runVars
    <2>2. key \in Keys /\ Content(r) \in Contents
      BY <1>1, <2>1, CurrentIsItem DEF Posts, Stages
    <2>3. ~HasKey(posts, key)
      BY <1>1, <2>1 DEF OneRelayInv, QueryStillHolds, Exists, At
    <2>4. posts' = SavePending(posts, key, Content(r))
      BY <1>7 DEF Inserts
    <2>5. /\ RowsOf(posts', "pending") = RowsOf(posts, "pending") \cup {key}
          /\ RowsOf(posts', "published") = RowsOf(posts, "published")
          /\ key \notin RowsOf(posts, "pending")
      BY <1>1, <2>2, <2>3, <2>4, InsertCounts
    <2>6. Cardinality(RowsOf(posts', "pending")) = Cardinality(RowsOf(posts, "pending")) + 1
      BY <1>4, <2>5, FS_AddElement
    <2>7. CurrentIsPending'
      <3>1. posts'[key].status = "pending"
        BY <2>2, <2>5 DEF RowsOf
      <3>2. QED
        BY <2>1, <3>1 DEF CurrentIsPending, Post
    <2>8. QED
      BY <1>2, <1>3, <1>4, <1>5, <1>7, <2>5, <2>6, <2>7
  <1>8. CASE Records(r)
    <2>1. pc[r] = "mark" /\ pc'[r] = "finish"
      BY <1>1, <1>8 DEF Records, Mark, At, Goto, TypeOK
    <2>2. key \in Keys /\ HasKey(posts, key)
      BY <1>1, <2>1, CurrentIsItem DEF Posts, Stages, PipelineInv, CurrentIsClaimed
    <2>3. key \in RowsOf(posts, "pending")
      BY <1>1, <2>1, <2>2 DEF CurrentIsPending, RowsOf
    <2>4. posts' = MarkPublished(posts, key)
      BY <1>8 DEF Records
    <2>5. /\ RowsOf(posts', "pending") = RowsOf(posts, "pending") \ {key}
          /\ RowsOf(posts', "published") = RowsOf(posts, "published") \cup {key}
          /\ key \notin RowsOf(posts, "published")
      BY <1>1, <2>3, <2>4, MarkCounts
    <2>6. /\ Cardinality(RowsOf(posts', "published")) = Cardinality(RowsOf(posts, "published")) + 1
          /\ Cardinality(RowsOf(posts', "pending")) = Cardinality(RowsOf(posts, "pending")) - 1
      <3>1. IsFiniteSet(RowsOf(posts, "published")) /\ IsFiniteSet(RowsOf(posts, "pending"))
        BY <1>4
      <3>2. Cardinality(RowsOf(posts, "published") \cup {key})
                = Cardinality(RowsOf(posts, "published")) + 1
        BY <2>5, <3>1, FS_AddElement
      <3>3. Cardinality(RowsOf(posts, "pending") \ {key})
                = Cardinality(RowsOf(posts, "pending")) - 1
        BY <2>3, <3>1, FS_RemoveElement
      <3>4. QED
        BY <2>5, <3>2, <3>3
    <2>7. CurrentIsPending'
      BY <2>1 DEF CurrentIsPending
    <2>8. QED
      BY <1>2, <1>3, <1>4, <1>5, <1>8, <2>6, <2>7
  <1>9. QED
    BY <1>6, <1>7, <1>8

\* Only the mark publishes PublishingCompleted.
LEMMA CompletedIsRecord ==
    ASSUME TypeOK, NEW r \in Relays, StageStep(r), StepEmits(r, "PublishingCompleted")
    PROVE  Records(r)
  <1>1. \A name \in EventNames \ {"PublishingCompleted"} : ~Emit(r, name)
    BY EmitIsSeen
  <1>2. ~UNCHANGED events
    BY EmitIsSeen
  <1>3. Mark(r)
    BY <1>1, <1>2 DEF StageStep, Normalize, Validate, Lookup, Save, FilterAge, RunAI, RunMedia,
       Publish, Finish, StageRaises, EventNames
  <1>4. QED
    BY <1>2, <1>3 DEF Mark, Records

\* An item with a pending row stays open until execute ends, but for the mark.
LEMMA OpenStays ==
    ASSUME TypeOK, NEW r \in Relays, StageStep(r), ~Finish(r), ~Records(r), IsOpen(r)
    PROVE  IsOpen(r)'
  <1>1. pc[r] \in Claiming
    BY DEF StageStep, Normalize, Validate, Lookup, Save, FilterAge, RunAI, RunMedia, Publish, Mark,
       IsOpen, At, Claiming
  <1>2. FilterAge(r) \/ RunAI(r) \/ RunMedia(r) \/ Publish(r) \/ Mark(r)
    BY <1>1 DEF StageStep, Normalize, Validate, Lookup, Save, At, Claiming
  <1>3. \/ pc'[r] \in Claiming
        \/ pc'[r] = "finish" /\ (NoteError(r) \/ Invalidate(r))
    BY <1>2 DEF FilterAge, RunAI, RunMedia, Publish, Mark, Records, Goto, TypeOK, Claiming
  <1>4. QED
    BY <1>3, Noted DEF IsOpen, At, Failed, Claiming

\* The stuck rows of the only relay after each thing a step does to its monitor.
LEMMA StuckStep ==
    ASSUME NEW r, Relays = {r}, ReportInv, OneRelayInv, OneRelayHealthInv, HealthTypeOK',
           HealthStep(r), Hears(r)'
    PROVE  CountRows("pending")'
               <= monitor'[r].oldPending + monitor'[r].failed + (IF IsOpen(r)' THEN 1 ELSE 0)
  <1> DEFINE m == monitor[r]
             n == monitor'[r]
             open == IF IsOpen(r) THEN 1 ELSE 0
             openNow == IF IsOpen(r)' THEN 1 ELSE 0
             rows == CountRows("pending")
             rowsNow == CountRows("pending")'
             failed == Added(r, "ProcessingFailed")
  <1> SUFFICES rowsNow <= n.oldPending + n.failed + openNow
    OBVIOUS
  <1>1. /\ r \in Relays /\ TypeOK /\ RelayStep(r)
        /\ HealthInv /\ HealthTypeOK /\ RowsAreFinite /\ CurrentIsPending
    BY HealthStepIsRelayStep DEF ReportInv, OneRelayHealthInv, HealthInv
  <1>2. n \in Monitors /\ n # NoMonitor
    BY <1>1 DEF HealthTypeOK, Hears, Watching
  <1>3. /\ n.oldPending \in Nat /\ n.failed \in Nat
        /\ open \in {0, 1} /\ openNow \in {0, 1} /\ failed \in {0, 1}
    BY <1>2, MonitorFields, AddedType
  <1>4. ASSUME Hears(r)
        PROVE  /\ m \in Monitors /\ m.oldPending \in Nat /\ m.failed \in Nat
               /\ rows <= m.oldPending + m.failed + open
    <2>1. m \in Monitors
      BY <1>1, <1>4 DEF HealthTypeOK, Hears, Watching
    <2>2. QED
      BY <1>1, <1>4, <2>1, MonitorFields DEF OneRelayHealthInv, StuckOrOpen
  <1>5. /\ rows \in Nat
        /\ ~Inserts(r) /\ ~Records(r) => rowsNow = rows
        /\ Inserts(r) => rowsNow = rows + 1
        /\ Records(r) => rowsNow = rows - 1
    BY <1>1, CountsStep
  <1>6. CASE FetchPage(r) /\ n = [m EXCEPT !.fetched = @ + Len(batch'[r])] /\ Hears(r)
    <2>1. n.oldPending = m.oldPending /\ n.failed = m.failed
      BY <1>4, <1>6 DEF Monitors
    <2>2. pc[r] = "channel"
      BY <1>6 DEF FetchPage, At
    <2>3. open = 0
      BY <2>2 DEF IsOpen, At
    <2>4. rowsNow = rows
      BY <1>5, <2>2 DEF Inserts, Records, Save, Mark, At
    <2> HIDE DEF m, n, open, openNow, rows, rowsNow
    <2>5. QED
      BY <1>3, <1>4, <1>5, <1>6, <2>1, <2>3, <2>4
  <1>7. CASE StageStep(r) /\ n = Counted(m, r) /\ Hears(r)
    <2>1. n.oldPending = m.oldPending /\ n.failed = m.failed + failed
      BY <1>4, <1>7, CountedFields
    <2>2. CASE Finish(r)
      <3>1. pc[r] = "finish"
        BY <2>2 DEF Finish, At
      <3>2. failed = open
        BY <1>1, <2>2, <3>1, FinishCounts DEF IsOpen, IsCounted, At
      <3>3. rowsNow = rows
        BY <1>5, <3>1 DEF Inserts, Records, Save, Mark, At
      <3> HIDE DEF m, n, open, openNow, rows, rowsNow, failed
      <3>4. QED
        BY <1>3, <1>4, <1>5, <1>7, <2>1, <3>2, <3>3
    <2>3. CASE Inserts(r)
      <3>1. open = 0 /\ openNow = 1
        BY <1>1, <2>3 DEF Inserts, Save, IsOpen, At, Goto, TypeOK
      <3>2. rowsNow = rows + 1
        BY <1>5, <2>3
      <3> HIDE DEF m, n, open, openNow, rows, rowsNow, failed
      <3>3. QED
        BY <1>3, <1>4, <1>5, <1>7, <2>1, <3>1, <3>2
    <2>4. CASE Records(r)
      <3>1. rowsNow = rows - 1
        BY <1>5, <2>4
      <3> HIDE DEF m, n, open, openNow, rows, rowsNow, failed
      <3>2. QED
        BY <1>3, <1>4, <1>5, <1>7, <2>1, <3>1
    <2>5. CASE ~Finish(r) /\ ~Inserts(r) /\ ~Records(r)
      <3>1. open <= openNow
        BY <1>1, <1>7, <2>5, OpenStays
      <3>2. rowsNow = rows
        BY <1>5, <2>5
      <3> HIDE DEF m, n, open, openNow, rows, rowsNow, failed
      <3>3. QED
        BY <1>3, <1>4, <1>5, <1>7, <2>1, <3>1, <3>2
    <2>6. QED
      BY <2>2, <2>3, <2>4, <2>5
  <1>8. CASE /\ StartRun(r) \/ FetchFails(r) \/ StartItem(r) \/ EndChannel(r) \/ EndRun(r)
             /\ n = m
    <2>1. pc[r] \in {"idle", "channel", "item"}
      BY <1>8 DEF StartRun, FetchFails, StartItem, EndChannel, EndRun, At
    <2>2. open = 0
      BY <2>1 DEF IsOpen, At
    <2>3. rowsNow = rows
      BY <1>5, <2>1 DEF Inserts, Records, Save, Mark, At
    <2>4. Hears(r)
      BY <1>1, <1>2, <1>8, HearsStep DEF Watching
    <2> HIDE DEF m, n, open, openNow, rows, rowsNow
    <2>5. QED
      BY <1>3, <1>4, <1>5, <1>8, <2>2, <2>3, <2>4
  <1>9. CASE EndRun(r) /\ n = NewMonitor
    <2>1. n.oldPending = rows
      BY <1>9 DEF NewMonitor
    <2>2. rowsNow = rows
      BY <1>5, <1>9 DEF EndRun, Inserts, Records, Save, Mark, At
    <2> HIDE DEF n, openNow, rows, rowsNow
    <2>3. QED
      BY <1>3, <1>5, <2>1, <2>2
  <1>10. QED
    BY <1>1, <1>2, <1>6, <1>7, <1>8, <1>9, MonitorStep, HearsStep, SubscribedType DEF Watching

\* Totals and reports stay behind the published rows: a publication is counted
\* in the step that marks its row, and a report reads the counts it is made of.
LEMMA CoveredStep ==
    ASSUME NEW r, Relays = {r}, ReportInv, OneRelayInv, OneRelayHealthInv, HealthTypeOK',
           HealthStep(r)
    PROVE  PublishedIsCovered'
  <1> DEFINE m == monitor[r]
             n == monitor'[r]
             rows == CountRows("published")
             rowsNow == CountRows("published")'
             completed == Added(r, "PublishingCompleted")
  <1>1. /\ r \in Relays /\ TypeOK /\ RelayStep(r)
        /\ HealthInv /\ HealthTypeOK /\ RowsAreFinite /\ CurrentIsPending
    BY HealthStepIsRelayStep DEF ReportInv, OneRelayHealthInv, HealthInv
  <1>2. /\ rows \in Nat /\ rowsNow \in Nat /\ rows <= rowsNow
        /\ Records(r) => rowsNow = rows + 1
    BY <1>1, CountsStep
  <1>3. Watching(r) => m \in Monitors /\ m.published \in Nat /\ m.published <= rows
    BY <1>1, MonitorFields DEF HealthTypeOK, Watching, OneRelayHealthInv, PublishedIsCovered
  <1>4. ASSUME Watching(r)' PROVE n.published <= rowsNow
    <2>1. n \in Monitors /\ n # NoMonitor
      BY <1>1, <1>4 DEF HealthTypeOK, Watching
    <2>2. CASE FetchPage(r) /\ n = [m EXCEPT !.fetched = @ + Len(batch'[r])] /\ Hears(r)
      <3>1. n.published = m.published
        BY <1>3, <2>2 DEF Monitors, Hears
      <3> HIDE DEF m, n, rows, rowsNow
      <3>2. QED
        BY <1>2, <1>3, <2>2, <3>1 DEF Hears
    <2>3. CASE StageStep(r) /\ n = Counted(m, r) /\ Hears(r)
      <3>1. n.published = m.published + completed
        BY <1>3, <2>3, CountedFields DEF Hears
      <3>2. completed = 0 \/ (completed = 1 /\ Records(r))
        BY <1>1, <2>3, CompletedIsRecord DEF Added
      <3> HIDE DEF m, n, rows, rowsNow, completed
      <3>3. QED
        BY <1>2, <1>3, <2>3, <3>1, <3>2 DEF Hears
    <2>4. CASE n = m
      <3>1. Watching(r)
        BY <2>1, <2>4 DEF Watching
      <3> HIDE DEF m, n, rows, rowsNow
      <3>2. QED
        BY <1>2, <1>3, <2>4, <3>1
    <2>5. CASE n = NewMonitor
      <3>1. n.published = 0
        BY <2>5 DEF NewMonitor
      <3> HIDE DEF n, rows, rowsNow
      <3>2. QED
        BY <1>2, <3>1
    <2>6. QED
      BY <1>1, <2>1, <2>2, <2>3, <2>4, <2>5, MonitorStep, SubscribedType DEF Watching
  <1>5. health' # NoHealth /\ health'.status # "error" => health'.published <= health'.dbPublished
    <2>1. CASE health' \in {health, NoHealth}
      BY <2>1 DEF OneRelayHealthInv, PublishedIsCovered
    <2>2. CASE health' \in ReportsOf(Subscribed(r))
      <3>1. Subscribed(r) \in Monitors /\ Subscribed(r).published <= rows
        <4>1. CASE Watching(r)
          BY <1>1, <1>3, <4>1, SubscribedType
        <4>2. CASE ~Watching(r)
          <5>1. Subscribed(r) \in Monitors /\ Subscribed(r).published = 0
            BY <1>1, <4>2, SubscribedType DEF NewMonitor
          <5>2. QED
            BY <1>2, <5>1
        <4>3. QED
          BY <4>1, <4>2
      <3>2. /\ health'.published = Subscribed(r).published
            /\ health'.status # "error" => health'.dbPublished = rows
        BY <1>1, <2>2, <3>1, ReportType
      <3>3. QED
        BY <3>1, <3>2
    <2>3. QED
      BY <1>1, <2>1, <2>2, MonitorStep
  <1>6. QED
    BY <1>4, <1>5 DEF PublishedIsCovered

\* The invariant of one relay and its monitor.
LEMMA InitOneRelayHealthInv ==
    ASSUME NEW r, Relays = {r}, HealthInit
    PROVE  OneRelayHealthInv
  BY InitHealthInv DEF HealthInit, Init, OneRelayHealthInv, CurrentIsPending, StuckOrOpen,
     PublishedIsCovered, Hears, Watching

LEMMA NextOneRelayHealthInv ==
    ASSUME NEW r, Relays = {r}, ReportInv, OneRelayInv, OneRelayHealthInv,
           [HealthNext]_healthVars
    PROVE  OneRelayHealthInv'
  <1>1. HealthInv' /\ HealthTypeOK'
    BY NextHealthInv DEF OneRelayHealthInv, HealthInv
  <1>2. CASE HealthStep(r)
    <2>1. CurrentIsPending'
      BY <1>2, CountsStep, HealthStepIsRelayStep DEF OneRelayHealthInv, HealthInv
    <2>2. StuckOrOpen'
      BY <1>1, <1>2, StuckStep DEF StuckOrOpen
    <2>3. PublishedIsCovered'
      BY <1>1, <1>2, CoveredStep
    <2>4. QED
      BY <1>1, <2>1, <2>2, <2>3 DEF OneRelayHealthInv
  <1>3. CASE UNCHANGED healthVars
    <2>1. UNCHANGED <<posts, pc, ctx, batch, enabled, monitor, health>>
      BY <1>3 DEF healthVars, vars
    <2>2. \A q \in Relays : /\ IsOpen(q)' <=> IsOpen(q)
                            /\ Watching(q)' <=> Watching(q)
                            /\ Hears(q)' <=> Hears(q)
                            /\ Post(q)' = Post(q)
      BY <2>1 DEF IsOpen, At, Watching, Hears, Post
    <2>3. \A status : CountRows(status)' = CountRows(status)
      BY <2>1 DEF CountRows, HasKey
    <2>4. QED
      BY <1>1, <2>1, <2>2, <2>3
      DEF OneRelayHealthInv, CurrentIsPending, StuckOrOpen, PublishedIsCovered
  <1>4. QED
    BY <1>2, <1>3 DEF HealthNext

\* One relay: an item that is under way has a row that is still pending, and every
\* other pending row is in the totals of a monitor that hears the events.
THEOREM OneRelayHealthInvariant ==
    ASSUME NEW r, Relays = {r}
    PROVE  HealthSpec => []OneRelayHealthInv
  <1> DEFINE Inv == ReportInv /\ OneRelayInv /\ OneRelayHealthInv
  <1>1. HealthInit => Inv
    BY InitReportInv, InitOneRelayHealthInv, OneRelayInductive DEF HealthInit
  <1>2. Inv /\ [HealthNext]_healthVars => Inv'
    BY HealthNextIsNext, NextReportInv, OneRelayInductive, NextOneRelayHealthInv
  <1>3. QED
    BY <1>1, <1>2, PTL DEF HealthSpec

\* One relay: neither its monitor's totals nor any report ever claim more
\* publications than the table has published rows.
THEOREM PublicationsAreCovered ==
    ASSUME NEW r, Relays = {r}
    PROVE  HealthSpec => []PublishedIsCovered
  <1>1. OneRelayHealthInv => PublishedIsCovered
    BY DEF OneRelayHealthInv
  <1>2. QED
    BY <1>1, OneRelayHealthInvariant, PTL

\* One relay whose event bus is enabled: between runs every row that is stuck in
\* `pending' was so when the monitor subscribed, or its failure is in the totals.
THEOREM StuckRowsAreCounted ==
    ASSUME NEW r, Relays = {r}
    PROVE  HealthSpec => []StuckIsCounted
  <1>1. OneRelayHealthInv => StuckIsCounted
    <2> SUFFICES ASSUME OneRelayHealthInv, NEW q \in Relays, Hears(q), At(q, "idle")
                 PROVE  CountRows("pending") <= monitor[q].oldPending + monitor[q].failed
      BY DEF StuckIsCounted
    <2>1. ~IsOpen(q)
      BY DEF IsOpen, At
    <2>2. CountRows("pending") <= monitor[q].oldPending + monitor[q].failed + 0
      BY <2>1 DEF OneRelayHealthInv, StuckOrOpen
    <2>3. monitor[q].oldPending \in Nat /\ monitor[q].failed \in Nat
      BY MonitorFields DEF OneRelayHealthInv, HealthInv, HealthTypeOK, Hears, Watching
    <2>4. QED
      BY <2>2, <2>3
  <1>2. QED
    BY <1>1, OneRelayHealthInvariant, PTL
=============================================================================
