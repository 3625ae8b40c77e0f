------------------------------ MODULE MCBucket -------------------------------
(* Instances of Bucket for TLC: who calls on which main bucket.            *)
EXTENDS Bucket, TLC

CONSTANTS t1, t2

OwnHomes    == t1 :> {0} @@ t2 :> {1}
SharedHomes == t1 :> {0} @@ t2 :> {0}
==============================================================================
