------------------------------ MODULE TableLife ------------------------------
(***************************************************************************)
(* What a caller may think of key-value tables: each is a thing of its     *)
(* own, comes into being empty, and is gone when it is destroyed or its    *)
(* process ends.  A creation that fails is not seen at all.                *)
(***************************************************************************)

CONSTANT Tables

VARIABLE store  \* store[t]: "absent", "fresh" (no entry yet) or "used"

Create(t)  == store[t] = "absent" /\ store' = [store EXCEPT ![t] = "fresh"]

Use(t)     == store[t] # "absent" /\ store' = [store EXCEPT ![t] = "used"]

Lose(t)    == store[t] # "absent" /\ store' = [store EXCEPT ![t] = "absent"]

Init == store = [t \in Tables |-> "absent"]

Next == \E t \in Tables : Create(t) \/ Use(t) \/ Lose(t)

Spec == Init /\ [][Next]_store
==============================================================================
