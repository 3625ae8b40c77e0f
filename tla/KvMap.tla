-------------------------------- MODULE KvMap --------------------------------
(***************************************************************************)
(* What the log promises to callers that keep off each other's keys: a map *)
(* from keys to values.  A get and a remove take effect at one instant.  A *)
(* put takes effect at two: it drops the old value of the key, then        *)
(* publishes the new one, and when no block can be had it ends after the   *)
(* first.                                                                  *)
(***************************************************************************)

CONSTANTS
  Threads, Keys, Vals,
  NoKey,        \* of a thread that is in no operation
  NoVal,        \* the value of a key that is not in the map
  OwnKeys       \* [Threads -> SUBSET Keys]: the keys a thread may operate on

VARIABLES
  map,   \* map[k]: the value of a key
  req    \* the operation each thread is in and, once there is one, its reply

mapVars == <<map, req>>

Idle == [op |-> "none", key |-> NoKey, val |-> NoVal, reply |-> "none"]

Pending(t, op) == req[t].op = op /\ req[t].reply = "none"

Has(k) == map[k] # NoVal

Reply(t, done, val) ==
  req' = [req EXCEPT ![t] =
            [req[t] EXCEPT !.reply = IF done THEN "true" ELSE "false", !.val = val]]

Invoke(t) ==
  /\ req[t] = Idle
  /\ \E k \in OwnKeys[t] :
       \/ \E op \in {"get", "remove"} :
            req' = [req EXCEPT ![t] = [Idle EXCEPT !.op = op, !.key = k]]
       \/ \E v \in Vals :
            req' = [req EXCEPT ![t] = [Idle EXCEPT !.op = "put", !.key = k, !.val = v]]
  /\ UNCHANGED map

Get(t) ==
  /\ Pending(t, "get")
  /\ Reply(t, Has(req[t].key), map[req[t].key])
  /\ UNCHANGED map

Remove(t) ==
  /\ Pending(t, "remove")
  /\ Reply(t, Has(req[t].key), NoVal)
  /\ map' = [map EXCEPT ![req[t].key] = NoVal]

Drop(t) ==
  /\ Pending(t, "put") /\ Has(req[t].key)
  /\ UNCHANGED req
  /\ map' = [map EXCEPT ![req[t].key] = NoVal]

(* A put publishes its value only under a key that has none.               *)
Publish(t) ==
  /\ Pending(t, "put") /\ ~Has(req[t].key)
  /\ Reply(t, TRUE, req[t].val)
  /\ map' = [map EXCEPT ![req[t].key] = req[t].val]

Refuse(t) ==
  /\ Pending(t, "put") /\ ~Has(req[t].key)
  /\ Reply(t, FALSE, req[t].val)
  /\ UNCHANGED map

Return(t) ==
  /\ req[t].reply # "none"
  /\ req' = [req EXCEPT ![t] = Idle]
  /\ UNCHANGED map

Init ==
  /\ map = [k \in Keys |-> NoVal]
  /\ req = [t \in Threads |-> Idle]

Next ==
  \E t \in Threads :
    \/ Invoke(t) \/ Get(t) \/ Remove(t) \/ Drop(t)
    \/ Publish(t) \/ Refuse(t) \/ Return(t)

Spec == Init /\ [][Next]_mapVars
==============================================================================
