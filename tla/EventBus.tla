------------------------------ MODULE EventBus ------------------------------
(***************************************************************************)
(* event_bus.py: handlers by event name and wildcard handlers, and         *)
(* publish, which calls a copy of both lists in its caller's thread.       *)
(*                                                                         *)
(* A handler is code of the user.  While it runs it may subscribe,         *)
(* unsubscribe, clear the bus and publish, and so may the program while no *)
(* publish goes on; the publishes under way form a stack.                  *)
(***************************************************************************)
EXTENDS Naturals, Sequences, FiniteSets

CONSTANTS
    Handlers,
    Events,     \* event names
    Wildcard,   \* the name "*"
    MaxDepth    \* bound: publishes inside one another

ASSUME EventBusAssumption == Wildcard \notin Events /\ MaxDepth \in Nat

Names == Events \cup {Wildcard}

VARIABLES
    enabled,    \* EventBus.enabled, from the configuration
    lists,      \* _handlers and, under Wildcard, _wildcard_handlers
    stack       \* the publishes under way, the innermost last

vars == <<enabled, lists, stack>>

\* A publish: its event, handlers_to_call, how many were called, and whether
\* the last of them is still running.
Frames == [event : Events, copy : Seq(Handlers), called : Nat, running : BOOLEAN]

TypeOK ==
    /\ enabled \in BOOLEAN
    /\ lists \in [Names -> Seq(Handlers)]
    /\ stack \in Seq(Frames)
    /\ \A d \in DOMAIN stack : stack[d].called <= Len(stack[d].copy)

----------------------------------------------------------------------------

Init ==
    /\ enabled \in BOOLEAN
    /\ lists = [n \in Names |-> <<>>]
    /\ stack = <<>>

Contains(list, h) == \E k \in DOMAIN list : list[k] = h

Top == stack[Len(stack)]

\* The program's own code has control: outside a publish or in a handler.
InUserCode == stack # <<>> => Top.running

Subscribe(n, h) ==
    /\ InUserCode
    /\ ~Contains(lists[n], h)
    /\ lists' = [lists EXCEPT ![n] = Append(@, h)]
    /\ UNCHANGED <<enabled, stack>>

\* list.remove, which takes out one element.
Unsubscribe(n, h) ==
    /\ InUserCode
    /\ \E k \in DOMAIN lists[n] :
           /\ lists[n][k] = h
           /\ lists' = [lists EXCEPT
                  ![n] = SubSeq(@, 1, k - 1) \o SubSeq(@, k + 1, Len(@))]
    /\ UNCHANGED <<enabled, stack>>

Clear ==
    /\ InUserCode
    /\ lists' = [n \in Names |-> <<>>]
    /\ UNCHANGED <<enabled, stack>>

\* A bus that is not enabled returns at once.
Publish(e) ==
    /\ InUserCode
    /\ enabled
    /\ Len(stack) < MaxDepth
    /\ stack' = Append(stack, [event |-> e, copy |-> lists[e] \o lists[Wildcard],
                               called |-> 0, running |-> FALSE])
    /\ UNCHANGED <<enabled, lists>>

\* What the loop of a publish goes over; the mutant loops over the live lists.
LiveHandlers(f) == lists[f.event] \o lists[Wildcard]
HandlersToCall(f) == f.copy

CallNext ==
    /\ stack # <<>> /\ ~Top.running
    /\ Top.called < Len(HandlersToCall(Top))
    /\ stack' = [stack EXCEPT ![Len(stack)].called = @ + 1, ![Len(stack)].running = TRUE]
    /\ UNCHANGED <<enabled, lists>>

Pop == stack' = SubSeq(stack, 1, Len(stack) - 1)

\* Mutant of HandlerEnds: an exception of a handler leaves publish.
HandlerEndsOrEscapes ==
    /\ stack # <<>> /\ Top.running
    /\ stack' = [stack EXCEPT ![Len(stack)].running = FALSE] \/ Pop
    /\ UNCHANGED <<enabled, lists>>

\* Mutant of HandlerEnds: a handler that raises is called again.
HandlerEndsOrRetries ==
    /\ stack # <<>> /\ Top.running
    /\ \E again \in {0, 1} :
           stack' = [stack EXCEPT ![Len(stack)].running = FALSE,
                                  ![Len(stack)].called = @ - again]
    /\ UNCHANGED <<enabled, lists>>

\* The handler returns, or it raises and publish logs the exception.
HandlerEnds ==
    /\ stack # <<>> /\ Top.running
    /\ stack' = [stack EXCEPT ![Len(stack)].running = FALSE]
    /\ UNCHANGED <<enabled, lists>>

PublishReturns ==
    /\ stack # <<>> /\ ~Top.running
    /\ Top.called >= Len(HandlersToCall(Top))
    /\ Pop
    /\ UNCHANGED <<enabled, lists>>

Next ==
    \/ \E n \in Names, h \in Handlers : Subscribe(n, h) \/ Unsubscribe(n, h)
    \/ Clear
    \/ \E e \in Events : Publish(e)
    \/ CallNext \/ HandlerEnds \/ PublishReturns

Spec == Init /\ [][Next]_vars

AtDepth(d) == Len(stack) = d

\* publish goes on, and a handler ends sooner or later, also one that publishes
\* again and again: strong fairness, as it cannot end while its publish goes on.
FairSpec ==
    /\ Spec
    /\ WF_vars(CallNext) /\ WF_vars(PublishReturns)
    /\ \A d \in 1 .. MaxDepth : /\ WF_vars(AtDepth(d) /\ (CallNext \/ PublishReturns))
                                /\ SF_vars(AtDepth(d) /\ HandlerEnds)

----------------------------------------------------------------------------
(* Properties *)

\* Calls a publish still has to make to a handler.
StillOwed(f) ==
    [h \in Handlers |-> Cardinality({k \in f.called + 1 .. Len(f.copy) : f.copy[k] = h})]

Subscriptions == {s \in Names \X Handlers : Contains(lists[s[1]], s[2])}

Owed == [d \in DOMAIN stack |-> StillOwed(stack[d])]

Delivery == INSTANCE EventDelivery WITH subscriptions <- Subscriptions, owed <- Owed

\* publish calls every subscription that was there when it began exactly once,
\* and no other, even if handlers raise, publish or change the subscriptions.
ImplementsDelivery == Delivery!DeliverySpec

\* Every publish returns when its handlers do, although they may publish, and
\* subscribe themselves, while they are called.
PublishesReturn == \A d \in 1 .. MaxDepth : Len(stack) >= d ~> Len(stack) < d

----------------------------------------------------------------------------
(* The invariant the proofs go by *)

NoneTwice(list) == \A i, j \in DOMAIN list : list[i] = list[j] => i = j

\* A list has no handler twice, so that a subscription is worth one call.
BusInv == TypeOK /\ \A n \in Names : NoneTwice(lists[n])
=============================================================================
