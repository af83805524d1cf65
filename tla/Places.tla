------------------------------- MODULE Places -------------------------------
(***************************************************************************)
(* What a loop that keeps some of the elements of a list goes by: their    *)
(* places, in their order.  SelectSeq of the standard modules is recursive *)
(* and cannot be reasoned about; a sequence that grows can.                *)
(***************************************************************************)
EXTENDS Naturals, FiniteSets

\* The elements of a finite set of numbers, in their order.
InOrder(places) ==
    CHOOSE s \in [1 .. Cardinality(places) -> places] :
        \A i, j \in DOMAIN s : i < j => s[i] < s[j]
=============================================================================
