--------------------------- MODULE EventDelivery ---------------------------
(***************************************************************************)
(* What an event bus promises: a publish owes one call to every            *)
(* subscription there is when it begins, owes nothing to any other, and    *)
(* returns when it owes nothing more.  Subscriptions may change meanwhile, *)
(* and a publish may begin while another one goes on; the later one        *)
(* returns first.                                                          *)
(***************************************************************************)
EXTENDS Naturals, Sequences

CONSTANTS Handlers, Events, Wildcard

VARIABLES
    subscriptions,  \* pairs of an event name, or Wildcard, and a handler
    owed            \* for every publish that goes on: calls owed to a handler

deliveryVars == <<subscriptions, owed>>

\* A handler that is subscribed both to the event and to all is owed two calls.
Worth(name, h) == IF <<name, h>> \in subscriptions THEN 1 ELSE 0

OwedTo(h, e) == Worth(e, h) + Worth(Wildcard, h)

BeginPublish(e) ==
    /\ owed' = Append(owed, [h \in Handlers |-> OwedTo(h, e)])
    /\ UNCHANGED subscriptions

Deliver(h) ==
    /\ owed # <<>>
    /\ owed[Len(owed)][h] > 0
    /\ owed' = [owed EXCEPT ![Len(owed)][h] = @ - 1]
    /\ UNCHANGED subscriptions

ReturnPublish ==
    /\ owed # <<>>
    /\ \A h \in Handlers : owed[Len(owed)][h] = 0
    /\ owed' = SubSeq(owed, 1, Len(owed) - 1)
    /\ UNCHANGED subscriptions

ChangeSubscriptions ==
    /\ subscriptions' \in SUBSET ((Events \cup {Wildcard}) \X Handlers)
    /\ UNCHANGED owed

DeliveryNext ==
    \/ \E e \in Events : BeginPublish(e)
    \/ \E h \in Handlers : Deliver(h)
    \/ ReturnPublish
    \/ ChangeSubscriptions

DeliverySpec ==
    subscriptions = {} /\ owed = <<>> /\ [][DeliveryNext]_deliveryVars
=============================================================================
