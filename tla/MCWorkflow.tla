----------------------------- MODULE MCWorkflow -----------------------------
(***************************************************************************)
(* A workflow of four steps: a sequential one, one with three parallel     *)
(* steps, one that executes a workflow with a parallel step of its own,    *)
(* and a sequential one.  Two threads.                                     *)
(***************************************************************************)
EXTENDS Workflow, TLC

CONSTANTS main, inner, none,
    first, fan, left, middle, right, nested, pair, one, other, after, last

MCSteps == {first, fan, left, middle, right, nested, pair, one, other, after, last}
MCFlows == {main, inner}

MCStepsOf ==
    (main :> <<first, fan, nested, last>>) @@ (inner :> <<pair, after>>)

MCParallelOf ==
    (fan :> <<left, middle, right>>) @@ (pair :> <<one, other>>)
    @@ [s \in MCSteps |-> <<>>]

MCSubOf == (nested :> inner) @@ [s \in MCSteps |-> none]

ASSUME NamedOnce == EachStepOnce
=============================================================================
