------------------------------ MODULE IndexSpec ------------------------------
(***************************************************************************)
(* What the bucket pool promises to callers that keep off each other's     *)
(* main buckets: every main bucket holds a bag of (tag, offset) pairs; a   *)
(* call that succeeds takes effect at one instant between its start and    *)
(* its return, a call that fails changes nothing.                          *)
(***************************************************************************)
EXTENDS Integers

CONSTANTS Threads, Homes, Mains, Tags, Offsets

VARIABLES
  index,  \* index[b][<<tag, off>>]: how many entries of main b hold the pair
  req     \* the operation each thread is in and, once there is one, its reply

indexVars == <<index, req>>

Idle == [op |-> "none", main |-> -1, tag |-> 0, off |-> 0, reply |-> "none"]

Holds(b, tag, off) == index[b][<<tag, off>>] > 0

Pending(t, op) == req[t].op = op /\ req[t].reply = "none"

Reply(t, done) == req' = [req EXCEPT ![t].reply = IF done THEN "true" ELSE "false"]

Invoke(t) ==
  /\ req[t] = Idle
  /\ \E op \in {"search", "insert", "delete"}, b \in Homes[t], tag \in Tags,
        off \in Offsets \cup {0} :
       req' = [req EXCEPT ![t] = [op |-> op, main |-> b, tag |-> tag, off |-> off,
                                  reply |-> "none"]]
  /\ UNCHANGED index

(* A search answers TRUE iff some entry of the bucket has the tag.         *)
Search(t) ==
  /\ Pending(t, "search")
  /\ Reply(t, \E off \in Offsets : Holds(req[t].main, req[t].tag, off))
  /\ UNCHANGED index

Insert(t) ==
  /\ Pending(t, "insert")
  /\ index' = [index EXCEPT ![req[t].main][<<req[t].tag, req[t].off>>] = @ + 1]
  /\ Reply(t, TRUE)

Refuse(t) ==
  /\ Pending(t, "insert")
  /\ Reply(t, FALSE)
  /\ UNCHANGED index

(* A delete removes one occurrence of its pair, and reports failure only   *)
(* when there is none.                                                     *)
Delete(t) ==
  /\ Pending(t, "delete")
  /\ Holds(req[t].main, req[t].tag, req[t].off)
  /\ index' = [index EXCEPT ![req[t].main][<<req[t].tag, req[t].off>>] = @ - 1]
  /\ Reply(t, TRUE)

DeleteNothing(t) ==
  /\ Pending(t, "delete")
  /\ ~Holds(req[t].main, req[t].tag, req[t].off)
  /\ Reply(t, FALSE)
  /\ UNCHANGED index

Return(t) ==
  /\ req[t].reply \in {"true", "false"}
  /\ req' = [req EXCEPT ![t] = Idle]
  /\ UNCHANGED index

Init ==
  /\ index = [b \in Mains |-> [pair \in Tags \X Offsets |-> 0]]
  /\ req = [t \in Threads |-> Idle]

Next ==
  \E t \in Threads :
    \/ Invoke(t) \/ Search(t) \/ Insert(t) \/ Refuse(t)
    \/ Delete(t) \/ DeleteNothing(t) \/ Return(t)

Spec == Init /\ [][Next]_indexVars
==============================================================================
