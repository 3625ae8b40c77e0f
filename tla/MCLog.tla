-------------------------------- MODULE MCLog --------------------------------
(* Instances of CircularLog for TLC: which keys share a bucket or a tag,   *)
(* and which threads write and read them.  With TagSpan = 4, BucketSpan =  *)
(* 2 and RssSpan = 2, hash 8 * q + 4 * b + tag lies in partition q and,    *)
(* with MainSize = 2, in main bucket b.                                    *)
EXTENDS CircularLog, TLC

CONSTANTS t1, t2, ka, kb, kc, kd, v, w

(* A thread writes the keys of its partition: t1 of 0, t2 of 1.            *)
Queue == t1 :> 0 @@ t2 :> 1

QueueWrites ==
  [t \in Threads |-> {k \in Keys : rss_queue_hash_portion(HashOf[k]) = Queue[t]}]

(* Two writers on buckets of their own, each with two keys in its bucket:  *)
(* the second key of each takes a spare.                                   *)
OwnHash   == ka :> 1 @@ kb :> 2 @@ kc :> 13 @@ kd :> 14
OwnReads  == t1 :> {ka} @@ t2 :> {}
OwnHeap   == t1 :> {1, 2} @@ t2 :> {3, 4}

(* A writer and a reader of two keys with different tags in one bucket.    *)
PairHash  == ka :> 1 @@ kb :> 2
PairReads == t1 :> {} @@ t2 :> {ka}
PairHeap  == t1 :> {1, 2} @@ t2 :> {}

(* One thread and two keys of different tags in one bucket.                *)
SoloHash  == ka :> 1 @@ kb :> 2
SoloOps   == t1 :> {ka, kb}
SoloHeap  == t1 :> {1, 2}

(* One thread and two keys of one tag in one bucket.                       *)
TwinHash  == ka :> 1 @@ kb :> 1
TwinOps   == t1 :> {ka, kb}
TwinHeap  == t1 :> {1, 2}

(* Two writers, each with a key of its own in the one bucket.              *)
MeetHash == ka :> 1 @@ kb :> 10
MeetHeap == t1 :> {1} @@ t2 :> {2}

(* The two values are interchangeable.                                     *)
Values == Permutations({v, w})

NoHomes == [t \in Threads |-> {}]
==============================================================================
