--------------------------- MODULE MessageRouter ---------------------------
(***************************************************************************)
(* router.py: the MessageRouter with its rules, its transports, its        *)
(* dead-letter queue and, when it is given a Database, the rows it writes  *)
(* to the table it shares with the pipeline.                               *)
(*                                                                         *)
(* The router has no lock and is driven by one caller: route and           *)
(* retry_failed_messages are sequences of steps between which the table,   *)
(* the transport or the caller's patience can fail.  pc names the step:    *)
(*                                                                         *)
(*   "idle"                              no call is active                 *)
(*   "query", "insert", "send", "mark"   in route                          *)
(*   "retry"                             the loop of retry_failed_messages *)
(*   "requery", "reinsert", "resend", "remark"   for the head of the batch *)
(*                                                                         *)
(* An exception of the Database outside the try blocks leaves the call and *)
(* takes the call's locals with it.                                        *)
(***************************************************************************)
EXTENDS Naturals, Sequences, FiniteSets, RelayDatabase

CONSTANTS
    Messages,   \* the posts that may be routed
    Rules,      \* the RoutingRules that may be added
    Transports, \* names of transports
    MaxCalls    \* bound: calls of route and retry_failed_messages

ASSUME RouterAssumption ==
    /\ \A m \in Messages : m.key \in Keys /\ m.content \in Contents
    /\ \A r \in Rules : /\ r.priority \in Nat
                        /\ r.target \in Transports
                        /\ r.matches \subseteq Messages
    /\ Messages # {} /\ Rules # {}
    /\ MaxCalls \in Nat

VARIABLES
    hasDb,      \* whether the router was given a Database
    posts,      \* the table
    transports, \* registered transports
    rules,      \* _rules, sorted
    added,      \* the rules in the order of add_rule
    queue,      \* _failed_queue
    pc,         \* the next step of the active call
    message,    \* the message route works on (between calls, any)
    rule,       \* the rule route matched (between calls, any)
    batch,      \* items_to_retry that are not done yet
    still,      \* still_failed
    sent,       \* sent[m]: sends of m a transport executed
    failed,     \* messages a DeliveryFailed was published of
    unsure,     \* keys whose failure says nothing about their delivery
    dbRaised,   \* whether the Database raised in a retry
    calls       \* calls so far

routeVars == <<message, rule>>
retryVars == <<batch, still>>
setupVars == <<hasDb, transports, rules, added>>
vars == <<setupVars, posts, queue, pc, routeVars, retryVars, sent, failed, unsure,
          dbRaised, calls>>

\* The values of route's locals when no call is active.
AnyMessage == CHOOSE m \in Messages : TRUE
AnyRule == CHOOSE r \in Rules : TRUE

Letters == [message : Messages, rule : Rules]

TypeOK ==
    /\ hasDb \in BOOLEAN /\ dbRaised \in BOOLEAN
    /\ posts \in Tables
    /\ transports \subseteq Transports
    /\ rules \in Seq(Rules) /\ added \in Seq(Rules)
    /\ queue \in Seq(Letters)
    /\ pc \in {"idle", "query", "insert", "send", "mark",
               "retry", "requery", "reinsert", "resend", "remark"}
    /\ message \in Messages /\ rule \in Rules
    /\ batch \in Seq(Letters) /\ still \in Seq(Letters)
    /\ sent \in [Messages -> Nat]
    /\ failed \subseteq Messages
    /\ unsure \subseteq Keys
    /\ calls \in 0 .. MaxCalls
    /\ pc \in {"requery", "reinsert", "resend", "remark"} => batch # <<>>

Init ==
    /\ hasDb \in BOOLEAN
    /\ posts = EmptyTable
    /\ transports = {} /\ rules = <<>> /\ added = <<>> /\ queue = <<>>
    /\ pc = "idle"
    /\ message = AnyMessage /\ rule = AnyRule
    /\ batch = <<>> /\ still = <<>>
    /\ sent = [m \in Messages |-> 0]
    /\ failed = {} /\ unsure = {} /\ dbRaised = FALSE
    /\ calls = 0

----------------------------------------------------------------------------
(* Set-up *)

RegisterTransport(t) ==
    /\ pc = "idle"
    /\ transports' = transports \cup {t}
    /\ UNCHANGED <<hasDb, posts, rules, added, queue, pc, routeVars, retryVars, sent, failed,
                   unsure, dbRaised, calls>>

\* Mutant of Sorted: a rule goes before the rules of its own priority.
SortedBefore(s, new) ==
    LET n == Cardinality({i \in DOMAIN s : s[i].priority > new.priority})
    IN  SubSeq(s, 1, n) \o <<new>> \o SubSeq(s, n + 1, Len(s))

\* list.sort is stable: appended to a sorted list, the new rule goes behind the
\* rules of its own priority.
Sorted(s, new) ==
    LET n == Cardinality({i \in DOMAIN s : s[i].priority >= new.priority})
    IN  SubSeq(s, 1, n) \o <<new>> \o SubSeq(s, n + 1, Len(s))

\* A caller adds a rule once.
AddRule(new) ==
    /\ pc = "idle"
    /\ \A i \in DOMAIN added : added[i] # new
    /\ rules' = Sorted(rules, new)
    /\ added' = Append(added, new)
    /\ UNCHANGED <<hasDb, posts, transports, queue, pc, routeVars, retryVars, sent, failed,
                   unsure, dbRaised, calls>>

----------------------------------------------------------------------------
(* Building blocks *)

Matching(s, m) == {i \in DOMAIN s : m \in s[i].matches}

FirstMatch(s, m) ==
    s[CHOOSE i \in Matching(s, m) : \A j \in Matching(s, m) : i <= j]

Letter(m, r) == [message |-> m, rule |-> r]

\* Mutant of HandleFailure: the event is published, the message is not kept.
HandleFailureWithoutQueue(m, r) ==
    /\ failed' = failed \cup {m}
    /\ UNCHANGED queue

HandleFailure(m, r) ==
    /\ failed' = failed \cup {m}
    /\ queue' = Append(queue, Letter(m, r))

Execute(m) == sent' = [sent EXCEPT ![m] = @ + 1]

Doubt(k) == unsure' = unsure \cup {k}

Goto(step) == pc' = step /\ UNCHANGED routeVars

Return == pc' = "idle" /\ message' = AnyMessage /\ rule' = AnyRule

----------------------------------------------------------------------------
(* route *)

BeginRoute(m) ==
    /\ pc = "idle"
    /\ calls < MaxCalls
    /\ calls' = calls + 1
    /\ UNCHANGED <<setupVars, posts, retryVars, sent, dbRaised>>
    /\ \/ \* No rule matches: RouteSkipped.
          /\ Matching(rules, m) = {}
          /\ UNCHANGED <<queue, pc, routeVars, failed, unsure>>
       \/ \* The transport of the rule is not registered: a failure, before the table is asked.
          /\ Matching(rules, m) # {}
          /\ FirstMatch(rules, m).target \notin transports
          /\ HandleFailure(m, FirstMatch(rules, m))
          /\ Doubt(m.key)
          /\ UNCHANGED <<pc, routeVars>>
       \/ /\ Matching(rules, m) # {}
          /\ FirstMatch(rules, m).target \in transports
          /\ message' = m /\ rule' = FirstMatch(rules, m)
          /\ pc' = IF hasDb THEN "query" ELSE "send"
          /\ UNCHANGED <<queue, failed, unsure>>

\* A duplicate is skipped; an sqlite3.Error leaves route.
Query ==
    /\ pc = "query"
    /\ \/ Exists(posts, message.key, message.content) /\ Return
       \/ ~Exists(posts, message.key, message.content) /\ Goto("insert")
       \/ Return
    /\ UNCHANGED <<setupVars, posts, queue, retryVars, sent, failed, unsure,
                   dbRaised, calls>>

Insert ==
    /\ pc = "insert"
    /\ \/ posts' = SavePending(posts, message.key, message.content) /\ Goto("send")
       \/ UNCHANGED posts /\ Return
    /\ UNCHANGED <<setupVars, queue, retryVars, sent, failed, unsure, dbRaised, calls>>

\* Mutant of Send: the result of the transport is not looked at.
SendUnchecked ==
    /\ pc = "send"
    /\ UNCHANGED <<setupVars, posts, retryVars, dbRaised, calls>>
    /\ Execute(message) \/ UNCHANGED sent
    /\ IF hasDb THEN Goto("mark") ELSE Return
    /\ UNCHANGED <<queue, failed, unsure>>

\* The transport succeeds; or it raises, without or after an execution; or it
\* returns False, which route passes on without an event and without the queue.
Send ==
    /\ pc = "send"
    /\ UNCHANGED <<setupVars, posts, retryVars, dbRaised, calls>>
    /\ \/ /\ Execute(message)
          /\ IF hasDb THEN Goto("mark") ELSE Return
          /\ UNCHANGED <<queue, failed, unsure>>
       \/ /\ HandleFailure(message, rule)
          /\ Return
          /\ UNCHANGED <<sent, unsure>>
       \/ /\ Execute(message)
          /\ HandleFailure(message, rule)
          /\ Doubt(message.key)
          /\ Return
       \/ /\ Return
          /\ UNCHANGED <<queue, sent, failed, unsure>>

\* mark_published stands in the try block of the send: its failure is handled as
\* a failed delivery of a message that was delivered.
MarkRouted ==
    /\ pc = "mark"
    /\ \/ /\ posts' = MarkPublished(posts, message.key)
          /\ UNCHANGED <<queue, failed, unsure>>
       \/ /\ HandleFailure(message, rule)
          /\ Doubt(message.key)
          /\ UNCHANGED posts
    /\ Return
    /\ UNCHANGED <<setupVars, retryVars, sent, dbRaised, calls>>

----------------------------------------------------------------------------
(* retry_failed_messages *)

Current == Head(batch)

BeginRetry ==
    /\ pc = "idle"
    /\ calls < MaxCalls
    /\ queue # <<>>
    /\ batch' = queue
    /\ queue' = <<>>
    /\ still' = <<>>
    /\ calls' = calls + 1
    /\ pc' = "retry"
    /\ UNCHANGED <<setupVars, posts, routeVars, sent, failed, unsure, dbRaised>>

\* The item is done: the loop goes on with the next one.
Done ==
    /\ batch' = Tail(batch)
    /\ UNCHANGED still
    /\ pc' = "retry"

\* Mutant of KeepFailed: the item is tried again in the same call.
KeepTrying ==
    /\ batch' = Append(Tail(batch), Current)
    /\ UNCHANGED still
    /\ pc' = "retry"

KeepFailed ==
    /\ batch' = Tail(batch)
    /\ still' = Append(still, Current)
    /\ pc' = "retry"

RetryNext ==
    /\ pc = "retry"
    /\ batch # <<>>
    /\ \/ /\ Current.rule.target \notin transports
          /\ KeepFailed
       \/ /\ Current.rule.target \in transports
          /\ pc' = IF hasDb THEN "requery" ELSE "resend"
          /\ UNCHANGED retryVars
    /\ UNCHANGED <<setupVars, posts, queue, routeVars, sent, failed, unsure, dbRaised, calls>>

EndRetry ==
    /\ pc = "retry"
    /\ batch = <<>>
    /\ queue' = still
    /\ still' = <<>>
    /\ Return
    /\ UNCHANGED <<setupVars, posts, batch, sent, failed, unsure, dbRaised, calls>>

\* Mutant of LoseBatch: the error is swallowed and the loop body goes on.
LoseBatchAndGoOn ==
    /\ batch' = <<>> /\ still' = <<>>
    /\ dbRaised' = TRUE
    /\ pc' = "reinsert"

\* An sqlite3.Error leaves the call: what was taken from the queue is gone.
LoseBatch ==
    /\ batch' = <<>> /\ still' = <<>>
    /\ dbRaised' = TRUE
    /\ Return

\* Mutant of Requery: the row is saved again whatever the table has.
RequeryNothing ==
    /\ pc = "requery"
    /\ pc' = "reinsert"
    /\ UNCHANGED <<setupVars, posts, queue, routeVars, retryVars, sent, failed, unsure,
                   dbRaised, calls>>

\* Only the key is looked up, neither the content nor the status of the row.
Requery ==
    /\ pc = "requery"
    /\ \/ /\ pc' = IF HasKey(posts, Current.message.key) THEN "resend" ELSE "reinsert"
          /\ UNCHANGED <<retryVars, dbRaised>>
       \/ LoseBatch
    /\ UNCHANGED <<setupVars, posts, queue, routeVars, sent, failed, unsure, calls>>

Reinsert ==
    /\ pc = "reinsert"
    /\ \/ /\ posts' = SavePending(posts, Current.message.key, Current.message.content)
          /\ pc' = "resend"
          /\ UNCHANGED <<retryVars, dbRaised>>
       \/ LoseBatch /\ UNCHANGED posts
    /\ UNCHANGED <<setupVars, queue, routeVars, sent, failed, unsure, calls>>

Resend ==
    /\ pc = "resend"
    /\ \/ /\ Execute(Current.message)
          /\ UNCHANGED unsure
          /\ \/ hasDb /\ pc' = "remark" /\ UNCHANGED retryVars
             \/ ~hasDb /\ Done
       \/ /\ UNCHANGED <<sent, unsure>>
          /\ KeepFailed
       \/ /\ Execute(Current.message)
          /\ Doubt(Current.message.key)
          /\ KeepFailed
    /\ UNCHANGED <<setupVars, posts, queue, routeVars, failed, dbRaised, calls>>

Remark ==
    /\ pc = "remark"
    /\ \/ /\ posts' = MarkPublished(posts, Current.message.key)
          /\ Done
          /\ UNCHANGED unsure
       \/ /\ KeepFailed
          /\ Doubt(Current.message.key)
          /\ UNCHANGED posts
    /\ UNCHANGED <<setupVars, queue, routeVars, sent, failed, dbRaised, calls>>

----------------------------------------------------------------------------

CallStep ==
    \/ Query \/ Insert \/ Send \/ MarkRouted
    \/ RetryNext \/ EndRetry \/ Requery \/ Reinsert \/ Resend \/ Remark

Next ==
    \/ \E t \in Transports : RegisterTransport(t)
    \/ \E new \in Rules : AddRule(new)
    \/ \E m \in Messages : BeginRoute(m)
    \/ BeginRetry
    \/ CallStep

Spec == Init /\ [][Next]_vars

\* A call that is active goes on; nobody has to call.
FairSpec == Spec /\ WF_vars(CallStep)

----------------------------------------------------------------------------
(* Properties *)

Added(r) == CHOOSE i \in DOMAIN added : added[i] = r

\* route takes a rule of the highest priority that matches and, of those, the
\* one that was added first (the stable descending sort of add_rule).
RuleByPriority ==
    \A m \in Messages : Matching(rules, m) # {} =>
        LET best == FirstMatch(rules, m) IN
        \A r \in Rules : (\E i \in DOMAIN added : added[i] = r) /\ m \in r.matches =>
            \/ r.priority < best.priority
            \/ r.priority = best.priority /\ Added(best) <= Added(r)

Kin(m) == {n \in Messages : n.key = m.key \/ n.content = m.content}

\* With a Database, route sends no message of whose key an earlier call - a route
\* or a retry - had a version executed; nor one whose content was executed under
\* another key, unless that was a retry under the row of another version (a retry
\* looks up the key alone), which takes a failure in doubt.
RouteSendsNew ==
    [][pc = "send" /\ hasDb /\ sent' # sent =>
          \A n \in Kin(message) : n.key = message.key \/ n.key \notin unsure => sent[n] = 0]_vars

\* A retry of a message that was routed again in between does not take its row
\* from `published' back to `pending'.
RowStaysPublished ==
    [][\A k \in Keys : IsPublished(posts, k) => IsPublished(posts', k)]_vars

\* A row says `published' only when a transport executed a send of its key.
PublishedWasSent ==
    \A k \in Keys : IsPublished(posts, k) =>
        \E m \in Messages : m.key = k /\ sent[m] > 0

\* With a Database, a message goes out twice, or with another of its key or its
\* content, only if a failure was recorded that says nothing about a delivery:
\* a transport was missing (the table is not asked), the transport raised after
\* the send, or the mark failed.
TwiceOnlyIfUnsure ==
    hasDb => \A m \in Messages : \A n \in Kin(m) :
        m.key \notin unsure /\ n.key \notin unsure =>
            sent[m] <= 1 /\ (sent[m] > 0 /\ sent[n] > 0 => m = n)

Waiting(m) ==
    \/ \E i \in DOMAIN queue : queue[i].message = m
    \/ \E i \in DOMAIN batch : batch[i].message = m
    \/ \E i \in DOMAIN still : still[i].message = m

\* As long as the Database raises in no retry, a message whose delivery failed
\* waits in the queue, or in the retry that took it, until it is delivered.
DeadLettersKept == ~dbRaised => \A m \in failed : Waiting(m) \/ sent[m] > 0

\* RELEASE_NOTES.md calls the dead-letter queue reliable ("failed message
\* tracking and fallback/retry systems"): a message whose delivery failed waits
\* until it is delivered, whatever fails in a retry.
DeadLetterQueueIsReliable == \A m \in failed : Waiting(m) \/ sent[m] > 0

\* Every call returns: a retry tries each message of the queue once.
CallsReturn == pc # "idle" ~> pc = "idle"
=============================================================================
