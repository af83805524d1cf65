--------------------------- MODULE PostLifecycle ---------------------------
(***************************************************************************)
(* What the relay promises about one destination channel, without stages,  *)
(* runs, failures or a table: an item is claimed, then executed by Eitaa,  *)
(* then recorded as published, each at most once; and once an item is      *)
(* claimed, no other version of its message and no other message with its  *)
(* content can be.  An item may stay at any point for ever: the relay      *)
(* promises delivery at most once, never at least once.                    *)
(***************************************************************************)
CONSTANT Items      \* records with a key and a content

VARIABLES
    claimed,        \* items registered in the table
    executed,       \* items Eitaa has executed a POST of
    recorded        \* items the table calls published

lifecycleVars == <<claimed, executed, recorded>>

LifecycleInit == claimed = {} /\ executed = {} /\ recorded = {}

Claim(i) ==
    /\ \A j \in claimed : j.key # i.key /\ j.content # i.content
    /\ claimed' = claimed \cup {i}
    /\ UNCHANGED <<executed, recorded>>

Execute(i) ==
    /\ i \in claimed \ executed
    /\ executed' = executed \cup {i}
    /\ UNCHANGED <<claimed, recorded>>

Record(i) ==
    /\ i \in executed \ recorded
    /\ recorded' = recorded \cup {i}
    /\ UNCHANGED <<claimed, executed>>

LifecycleNext == \E i \in Items : Claim(i) \/ Execute(i) \/ Record(i)

LifecycleSpec == LifecycleInit /\ [][LifecycleNext]_lifecycleVars
=============================================================================
