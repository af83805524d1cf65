-------------------------- MODULE TelemirrorClient --------------------------
(***************************************************************************)
(* The Go client of fetcher/telemirror/client.go, shared by the requests   *)
(* of the HTTP server (one goroutine each) or used by a single request of  *)
(* the fetch command.  A request walks the transport attempts, the one     *)
(* that worked last first; an HTML request paces itself with waitForRate   *)
(* and goes on to the next proxy host after a 404.                         *)
(*                                                                         *)
(*   "new"     before the call                                             *)
(*   "walk"    about to call orderedAttempts                               *)
(*   "backoff" in the select before an attempt that is not the first       *)
(*   "lock"    waits for rateMu                                            *)
(*   "nap"     in the select of waitForRate, rateMu held                   *)
(*   "send"    in do or fetchOnce                                          *)
(*   "ok", "failed", "cancelled"  returned                                 *)
(*                                                                         *)
(* Time is counted down and not up, so that it needs no bound: `age' is    *)
(* the time since lastRequest, up to MinInterval, and `timer' what is left *)
(* of a time.After.                                                        *)
(***************************************************************************)
EXTENDS Naturals

CONSTANTS
    Requests,     \* calls of FetchHTML and FetchURLLimit
    Media,        \* those that are FetchURLLimit
    Deadlined,    \* those with a context that can end (main.go; not the server)
    Nobody,       \* holder of a free mutex
    NAttempts,    \* len(proxyAttempts)
    NHosts,       \* len(proxyHosts)
    MinInterval,  \* minRequestInterval
    Backoff,      \* pause between attempts of an HTML request
    MediaBackoff  \* and of a media request

ASSUME TelemirrorAssumption ==
    /\ Nobody \notin Requests
    /\ Media \subseteq Requests /\ Deadlined \subseteq Requests
    /\ NAttempts \in Nat \ {0} /\ NHosts \in Nat \ {0}
    /\ MinInterval \in Nat /\ Backoff \in Nat /\ MediaBackoff \in Nat

Attempts == 1 .. NAttempts

VARIABLES
    sticky,   \* stickyAttempt; 0 is the code's -1
    rateMu,   \* holder of rateMu
    age,      \* time since lastRequest, MinInterval at most
    pc,       \* program point of a request
    host,     \* index into proxyHosts
    order,    \* what orderedAttempts returned to a request
    idx,      \* position in it
    timer,    \* rest of the pause a request is in
    expired,  \* whether its context has ended
    tried,    \* history: how often an attempt was made at the current host
    late      \* history: slots of the pace granted after the context's end

vars == <<sticky, rateMu, age, pc, host, order, idx, timer, expired, tried, late>>
walkVars == <<host, order, idx, tried>>

Returned == {"ok", "failed", "cancelled"}
Points == {"new", "walk", "backoff", "lock", "nap", "send"} \cup Returned

TypeOK ==
    /\ sticky \in 0 .. NAttempts
    /\ rateMu \in Requests \cup {Nobody}
    /\ age \in 0 .. MinInterval
    /\ pc \in [Requests -> Points]
    /\ host \in [Requests -> 1 .. NHosts]
    /\ order \in [Requests -> [Attempts -> Attempts]]
    /\ idx \in [Requests -> Attempts]
    /\ timer \in [Requests -> Nat]
    /\ expired \in [Requests -> BOOLEAN]
    /\ tried \in [Requests -> [Attempts -> Nat]]
    /\ late \in [Requests -> Nat]

----------------------------------------------------------------------------

\* orderedAttempts: attempt s first, the others in their order.
Ordered(s) == [k \in Attempts |-> IF s = 0 \/ k > s THEN k
                                  ELSE IF k = 1 THEN s ELSE k - 1]

Untried == [a \in Attempts |-> 0]

Init ==
    /\ sticky = 0
    /\ rateMu = Nobody
    /\ age = MinInterval
    /\ pc = [r \in Requests |-> "new"]
    /\ host = [r \in Requests |-> 1]
    /\ order = [r \in Requests |-> Ordered(0)]
    /\ idx = [r \in Requests |-> 1]
    /\ timer = [r \in Requests |-> 0]
    /\ expired = [r \in Requests |-> FALSE]
    /\ tried = [r \in Requests |-> Untried]
    /\ late = [r \in Requests |-> 0]

Goto(r, point) == pc' = [pc EXCEPT ![r] = point]

\* Mutant of Attempt: the order is read anew for every attempt.
AttemptNow(r) == Ordered(sticky)[idx[r]]
Attempt(r) == order[r][idx[r]]

\* An empty user name or an unsafe URL is refused before anything is sent.
Begin(r) ==
    /\ pc[r] = "new"
    /\ Goto(r, "walk") \/ Goto(r, "failed")
    /\ UNCHANGED <<sticky, rateMu, age, walkVars, timer, expired, late>>

\* The start of fetchHTMLFromHost's or FetchURLLimit's loop.
Walk(r) ==
    /\ pc[r] = "walk"
    /\ order' = [order EXCEPT ![r] = Ordered(sticky)]
    /\ idx' = [idx EXCEPT ![r] = 1]
    /\ tried' = [tried EXCEPT ![r] = Untried]
    /\ Goto(r, IF r \in Media THEN "send" ELSE "lock")
    /\ UNCHANGED <<sticky, rateMu, age, host, timer, expired, late>>

\* The pause before the next attempt is over.
WakeUp(r) ==
    /\ pc[r] = "backoff"
    /\ timer[r] = 0
    /\ Goto(r, IF r \in Media THEN "send" ELSE "lock")
    /\ UNCHANGED <<sticky, rateMu, age, walkVars, timer, expired, late>>

\* lastRequest = time.Now().
Granted(r) ==
    /\ age' = 0
    /\ late' = [late EXCEPT ![r] = IF expired[r] THEN @ + 1 ELSE @]
    /\ Goto(r, "send")

\* Mutant of Acquire: the mutex is given back for the time of the nap.
AcquireAndRelease(r) ==
    /\ pc[r] = "lock"
    /\ rateMu = Nobody
    /\ \/ age >= MinInterval /\ Granted(r) /\ UNCHANGED timer
       \/ /\ age < MinInterval
          /\ timer' = [timer EXCEPT ![r] = MinInterval - age]
          /\ Goto(r, "nap")
          /\ UNCHANGED <<age, late>>
    /\ UNCHANGED <<rateMu, sticky, walkVars, expired>>

\* waitForRate: with the mutex, go on at once or nap for what is missing.  A
\* call that need not nap does not look at its context.
Acquire(r) ==
    /\ pc[r] = "lock"
    /\ rateMu = Nobody
    /\ \/ age >= MinInterval /\ Granted(r) /\ UNCHANGED <<timer, rateMu>>
       \/ /\ age < MinInterval
          /\ timer' = [timer EXCEPT ![r] = MinInterval - age]
          /\ rateMu' = r
          /\ Goto(r, "nap")
          /\ UNCHANGED <<age, late>>
    /\ UNCHANGED <<sticky, walkVars, expired>>

NapEnds(r) ==
    /\ pc[r] = "nap"
    /\ timer[r] = 0
    /\ Granted(r)
    /\ rateMu' = Nobody
    /\ UNCHANGED <<sticky, walkVars, timer, expired>>

\* Mutant of Cancel: the early return of waitForRate keeps the mutex.
CancelKeepingLock(r) ==
    /\ pc[r] \in {"backoff", "nap"}
    /\ expired[r]
    /\ Goto(r, "cancelled")
    /\ UNCHANGED <<sticky, rateMu, age, walkVars, timer, expired, late>>

\* ctx.Done in one of the two selects; the deferred Unlock runs on the way out.
Cancel(r) ==
    /\ pc[r] \in {"backoff", "nap"}
    /\ expired[r]
    /\ Goto(r, "cancelled")
    /\ rateMu' = IF pc[r] = "nap" THEN Nobody ELSE rateMu
    /\ UNCHANGED <<sticky, age, walkVars, timer, expired, late>>

NoteTry(r) == tried' = [tried EXCEPT ![r][Attempt(r)] = @ + 1]

\* Status 200 (for HTML with a body): markSuccess, and the request returns.
Succeeds(r) ==
    /\ sticky' = Attempt(r)
    /\ Goto(r, "ok")
    /\ UNCHANGED <<host, idx, timer>>

\* Status 404 of an HTML request: the rest of the walk is skipped and the next
\* proxy host, if there is one, gets a walk of its own.
NotServed(r) ==
    /\ r \notin Media
    /\ \/ /\ host[r] < NHosts
          /\ host' = [host EXCEPT ![r] = @ + 1]
          /\ Goto(r, "walk")
       \/ host[r] = NHosts /\ UNCHANGED host /\ Goto(r, "failed")
    /\ UNCHANGED <<sticky, idx, timer>>

\* Mutant of Fails: the pause before the next attempt ignores the context.
FailsAndRetries(r) ==
    /\ \/ /\ idx[r] < NAttempts
          /\ idx' = [idx EXCEPT ![r] = @ + 1]
          /\ Goto(r, IF r \in Media THEN "send" ELSE "lock")
       \/ idx[r] = NAttempts /\ UNCHANGED idx /\ Goto(r, "failed")
    /\ UNCHANGED <<sticky, host, timer>>

\* An error or any other status: the next attempt after a pause; behind the
\* last one the request fails, without a look at the other hosts.
Fails(r) ==
    /\ \/ /\ idx[r] < NAttempts
          /\ idx' = [idx EXCEPT ![r] = @ + 1]
          /\ timer' = [timer EXCEPT ![r] = IF r \in Media THEN MediaBackoff ELSE Backoff]
          /\ Goto(r, "backoff")
       \/ idx[r] = NAttempts /\ UNCHANGED <<idx, timer>> /\ Goto(r, "failed")
    /\ UNCHANGED <<sticky, host>>

\* Nothing is sent or received any more for a context that has ended.
Send(r) ==
    /\ pc[r] = "send"
    /\ \/ ~expired[r] /\ (Succeeds(r) \/ NotServed(r))
       \/ Fails(r)
    /\ NoteTry(r)
    /\ UNCHANGED <<rateMu, age, order, expired, late>>

Step(r) == Begin(r) \/ Walk(r) \/ WakeUp(r) \/ NapEnds(r) \/ Cancel(r) \/ Send(r)

----------------------------------------------------------------------------
(* The environment *)

Expire(r) ==
    /\ r \in Deadlined
    /\ ~expired[r]
    /\ pc[r] \notin Returned
    /\ expired' = [expired EXCEPT ![r] = TRUE]
    /\ UNCHANGED <<sticky, rateMu, age, pc, walkVars, timer, late>>

Pausing == {r \in Requests : pc[r] \in {"backoff", "nap"}}

\* Time goes on.  A select that sees its context end takes that branch unless
\* its timer fires in the same moment.
Tick ==
    /\ age < MinInterval \/ \E r \in Pausing : timer[r] > 0
    /\ \A r \in Pausing : ~expired[r]
    /\ age' = IF age < MinInterval THEN age + 1 ELSE age
    /\ timer' = [r \in Requests |->
           IF r \in Pausing /\ timer[r] > 0 THEN timer[r] - 1 ELSE timer[r]]
    /\ UNCHANGED <<sticky, rateMu, pc, walkVars, expired, late>>

Next == Tick \/ \E r \in Requests : Step(r) \/ Acquire(r) \/ Expire(r)

Spec == Init /\ [][Next]_vars

\* Goroutines run and time passes; an HTTP exchange ends because do and fetchOnce
\* set a timeout; and no goroutine starves at a sync.Mutex (it hands itself to the
\* first in its queue after a millisecond), which is strong fairness of Acquire.
FairSpec ==
    /\ Spec
    /\ WF_vars(Tick)
    /\ \A r \in Requests : WF_vars(Step(r)) /\ SF_vars(Acquire(r))

----------------------------------------------------------------------------
(* Properties *)

\* The mutex is held by exactly the request that naps, and the nap it has left
\* covers what is missing of the interval.
PacingInv ==
    /\ TypeOK
    /\ \A r \in Requests : pc[r] = "nap" => rateMu = r
    /\ rateMu # Nobody => pc[rateMu] = "nap"
    /\ \A r \in Requests : pc[r] = "nap" => timer[r] + age >= MinInterval

IsGrant == \E r \in Requests : pc[r] \in {"lock", "nap"} /\ pc'[r] = "send"

\* waitForRate: whatever the number of concurrent requests and cancelled naps,
\* two HTML requests are let through at least minRequestInterval apart.
Paced == [][IsGrant => age >= MinInterval]_vars

\* A request tries an attempt at most once for a host, and one that fails has
\* either seen a 404 from every host or tried every attempt, although other
\* requests move the sticky attempt while it walks.
EachAttemptOnce ==
    \A r \in Requests :
        /\ \A a \in Attempts : tried[r][a] <= 1
        /\ pc[r] = "failed" /\ (r \in Media \/ host[r] < NHosts) =>
              \/ \A a \in Attempts : tried[r][a] = 1
              \/ tried[r] = Untried

\* A request whose deadline has passed takes at most one slot of the pace from
\* the others before it notices.
OneLateSlot == \A r \in Requests : late[r] <= 1

\* Every request that has begun returns, with or without a deadline.
RequestsEnd == \A r \in Requests : pc[r] # "new" ~> pc[r] \in Returned
=============================================================================
