------------------------------ MODULE Allocator ------------------------------
(***************************************************************************)
(* What a partition's allocator promises to the thread that owns it: every *)
(* extent it grants lies in the partition, is as long as was asked for and *)
(* overlaps no other extent that has not been given back.                  *)
(***************************************************************************)
EXTENDS Integers

CONSTANTS
  PartWords,  \* words of the partition
  Requests    \* the lengths asked for, in words

VARIABLES
  extents,  \* [at, len] of every extent in use
  want      \* the length asked for, NONE outside a request

allocVars == <<extents, want>>

NONE == -1

WordsOf(e) == e.at .. (e.at + e.len - 1)

Ask ==
  /\ want = NONE
  /\ want' \in Requests
  /\ UNCHANGED extents

Grant ==
  /\ want # NONE
  /\ \E at, len \in 0..PartWords :
       LET e == [at |-> at, len |-> len] IN
       /\ len >= want /\ at + len <= PartWords
       /\ \A f \in extents : WordsOf(e) \cap WordsOf(f) = {}
       /\ extents' = extents \cup {e}
  /\ want' = NONE

Refuse ==
  /\ want # NONE
  /\ want' = NONE
  /\ UNCHANGED extents

GiveBack ==
  /\ want = NONE
  /\ \E e \in extents : extents' = extents \ {e}
  /\ UNCHANGED want

Init == extents = {} /\ want = NONE

Next == Ask \/ Grant \/ Refuse \/ GiveBack

Spec == Init /\ [][Next]_allocVars
==============================================================================
