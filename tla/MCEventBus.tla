----------------------------- MODULE MCEventBus -----------------------------
(***************************************************************************)
(* Two handlers, one event name and the wildcard, one publish inside       *)
(* another.                                                                *)
(***************************************************************************)
EXTENDS EventBus

CONSTANTS monitor, counter, received, all

MCHandlers == {monitor, counter}
MCEvents == {received}
=============================================================================
