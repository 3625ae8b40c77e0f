------------------------------- MODULE Bucket --------------------------------
(***************************************************************************)
(* The bucket pool of bucket.c: main buckets, spare buckets claimed by     *)
(* compare-and-swap and chained behind a bucket that is full, and the      *)
(* three operations on index entries.  A call is run one shared-memory     *)
(* access at a time, so calls of different threads interleave as they do   *)
(* on the shared pool.  Nothing here takes a lock: that is CircularLog.    *)
(*                                                                         *)
(* A bucket is named by its address in units of sizeof(bucket): mains      *)
(* first, spares behind them, as create_bucket_pool lays them out.         *)
(***************************************************************************)
EXTENDS KeyHash, FiniteSets

CONSTANTS
  Threads,            \* the threads that call the operations
  Homes,              \* [Threads -> SUBSET Mains]: the buckets a thread calls on
  SpareSize,          \* bucket_pool.spare_size
  BUCKET_ENTRY_SIZE,  \* entries of a bucket (15 in the code)
  Hashes,             \* the key hashes in use
  Offsets,            \* the partition offsets in use
  LinkSpan            \* 2^25: the distances, in buckets, a 32-bit offset can hold

Mains   == 0..(MainSize - 1)
Buckets == 0..(MainSize + SpareSize - 1)
Spares  == MainSize..(MainSize + SpareSize - 1)
Slots   == 0..(BUCKET_ENTRY_SIZE - 1)
Tags    == 1..(TagSpan - 1)
NULL    == -1

ASSUME BucketAssumption ==
  /\ SpareSize \in Nat
  /\ BUCKET_ENTRY_SIZE \in Nat \ {0}
  /\ Hashes \subseteq Nat
  /\ Offsets \subseteq Nat \ {0}
  /\ Homes \in [Threads -> SUBSET Mains]

(* "32bit = 4GB offset enough, maybe": it is, for a pool of fewer than     *)
(* 2^25 buckets; BUCKET_MEM_SIZE overflows for any larger one.             *)
ASSUME PoolFits == LinkSpan \in Nat \ {0} /\ MainSize + SpareSize < LinkSpan

VARIABLES
  entries,  \* bucket.entries: [tag, offset] of every slot of every bucket
  link,     \* bucket.offset: distance to the next bucket of the chain, 0 if none
  version,  \* bucket.version: of a main bucket its lock, of a spare 0 iff unclaimed
  call      \* the index call each thread is in

bucketVars == <<entries, link, version, call>>

EmptyEntry == [tag |-> 0, offset |-> 0]

(* A thread's frame: the arguments, the cursor of the loop and, while it   *)
(* looks for a spare bucket, the spare it is at.                           *)
NoCall == [at |-> "idle", main |-> NULL, hash |-> 0, off |-> 0,
           bkt |-> NULL, index |-> 0, spare |-> MainSize]

ResultLabels == {"found", "missing", "inserted", "full", "deleted", "absent"}
RunningLabels ==
  {"probe", "scan", "store", "publish", "claim", "link", "match", "clear"}

is_empty_entry(entry) == entry.tag = 0

match_index_entry_tag(tag, h) == tag = lookup_key_tag_hash_portion(h)

match_index_entry(entry, h, off) ==
  match_index_entry_tag(entry.tag, h) /\ entry.offset = off

(* Fault: a chain without a link is taken to go on.                         *)
next_spare_bucket_unchecked(b) == b + link[b]

next_spare_bucket(b) == IF link[b] = 0 THEN NULL ELSE b + link[b]

Frame(label, b, h, off) ==
  [at |-> label, main |-> b, hash |-> h, off |-> off, bkt |-> b, index |-> 0,
   spare |-> MainSize]

Entry(t) == entries[call[t].bkt][call[t].index]

AtSlot(t, label) == call[t].at = label /\ call[t].index \in Slots

------------------------------------------------------------------------------
(* The walk that search_index_entry ("probe"), insert_index_entry ("scan") *)
(* and delete_index_entry ("match") share: along the slots of a bucket to  *)
(* the first one that qualifies, over its link to the next bucket, to the  *)
(* end of the chain.  bkt and index are search_index_entry's out-          *)
(* parameters and stay in the frame.                                       *)

OnHit == [probe |-> "found", scan |-> "store", match |-> "clear"]
OnEnd == [probe |-> "missing", scan |-> "claim", match |-> "absent"]

Walking(t) == call[t].at \in DOMAIN OnHit

AtBucketEnd(t) == Walking(t) /\ call[t].index = BUCKET_ENTRY_SIZE

Qualifies(t) ==
  CASE call[t].at = "probe" -> match_index_entry_tag(Entry(t).tag, call[t].hash)
    [] call[t].at = "scan"  -> is_empty_entry(Entry(t))
    [] call[t].at = "match" -> match_index_entry(Entry(t), call[t].hash, call[t].off)

SlotHit(t) ==
  /\ Walking(t) /\ call[t].index \in Slots
  /\ Qualifies(t)
  /\ call' = [call EXCEPT ![t].at = OnHit[@]]
  /\ UNCHANGED <<entries, link, version>>

SlotMiss(t) ==
  /\ Walking(t) /\ call[t].index \in Slots
  /\ ~Qualifies(t)
  /\ call' = [call EXCEPT ![t].index = @ + 1]
  /\ UNCHANGED <<entries, link, version>>

FollowLink(t) ==
  /\ AtBucketEnd(t)
  /\ next_spare_bucket(call[t].bkt) # NULL
  /\ call' = [call EXCEPT ![t] = [call[t] EXCEPT !.bkt = next_spare_bucket(@), !.index = 0]]
  /\ UNCHANGED <<entries, link, version>>

(* A search and a delete end with the chain.  An insert stays at its last  *)
(* bucket and looks for a spare one.                                       *)
ChainEnd(t) ==
  /\ AtBucketEnd(t)
  /\ next_spare_bucket(call[t].bkt) = NULL
  /\ call' = [call EXCEPT ![t] =
                [call[t] EXCEPT !.at = OnEnd[@], !.index = 0, !.spare = MainSize,
                                !.bkt = IF OnEnd[call[t].at] = "claim" THEN @ ELSE NULL]]
  /\ UNCHANGED <<entries, link, version>>

------------------------------------------------------------------------------
(* insert_index_entry: the offset and the tag are two bitfields of one     *)
(* 64-bit word.  The build stores the whole word, the tag as it was        *)
(* loaded, and then the tag, so the entry is published by the second       *)
(* store.  The loaded tag is the 0 just seen, or a newer one a racing      *)
(* thread stored since.                                                    *)

InsertStore(t) ==
  /\ AtSlot(t, "store")
  /\ \E loaded \in {0, Entry(t).tag} :
       entries' = [entries EXCEPT ![call[t].bkt][call[t].index] =
                     [tag |-> loaded, offset |-> call[t].off]]
  /\ call' = [call EXCEPT ![t].at = "publish"]
  /\ UNCHANGED <<link, version>>

InsertPublish(t) ==
  /\ AtSlot(t, "publish")
  /\ entries' = [entries EXCEPT ![call[t].bkt][call[t].index].tag =
                   lookup_key_tag_hash_portion(call[t].hash)]
  /\ call' = [call EXCEPT ![t].at = "inserted"]
  /\ UNCHANGED <<link, version>>

(* next_empty_spare_bucket: a version, once nonzero, stays nonzero, so the *)
(* test of the version and the compare-and-swap behind it are one step.    *)

ClaimSkip(t) ==
  /\ call[t].at = "claim" /\ call[t].spare \in Spares
  /\ version[call[t].spare] # 0
  /\ call' = [call EXCEPT ![t].spare = @ + 1]
  /\ UNCHANGED <<entries, link, version>>

(* Fault: the version is stored, not compared and swapped.                 *)
ClaimTakeUnswapped(t) ==
  /\ call[t].at = "claim" /\ call[t].spare \in Spares
  /\ version' = [version EXCEPT ![call[t].spare] = 2]
  /\ call' = [call EXCEPT ![t].at = "link"]
  /\ UNCHANGED <<entries, link>>

ClaimTake(t) ==
  /\ call[t].at = "claim" /\ call[t].spare \in Spares
  /\ version[call[t].spare] = 0
  /\ version' = [version EXCEPT ![call[t].spare] = 2]
  /\ call' = [call EXCEPT ![t].at = "link"]
  /\ UNCHANGED <<entries, link>>

(* Fault: the scan stops one spare early.                                  *)
InsertFullEarly(t) ==
  /\ call[t].at = "claim" /\ call[t].spare >= MainSize + SpareSize - 1
  /\ call' = [call EXCEPT ![t] = [call[t] EXCEPT !.at = "full", !.bkt = NULL]]
  /\ UNCHANGED <<entries, link, version>>

(* Fault: the result of next_empty_spare_bucket is linked unchecked.       *)
InsertFullUnchecked(t) ==
  /\ call[t].at = "claim" /\ call[t].spare \notin Spares
  /\ call' = [call EXCEPT ![t] = [call[t] EXCEPT !.at = "scan", !.bkt = call[t].spare]]
  /\ UNCHANGED <<entries, link, version>>

InsertFull(t) ==
  /\ call[t].at = "claim" /\ call[t].spare \notin Spares
  /\ call' = [call EXCEPT ![t] = [call[t] EXCEPT !.at = "full", !.bkt = NULL]]
  /\ UNCHANGED <<entries, link, version>>

(* Fault: the spare is linked to the main bucket, not to the last one.     *)
InsertLinkToMain(t) ==
  /\ call[t].at = "link"
  /\ link' = [link EXCEPT ![call[t].main] = (call[t].spare - call[t].main) % LinkSpan]
  /\ call' = [call EXCEPT ![t] = [call[t] EXCEPT !.at = "scan", !.bkt = call[t].spare,
                                                  !.index = 0]]
  /\ UNCHANGED <<entries, version>>

(* The distance is cut to the 32 bits of bucket.offset.                    *)
InsertLink(t) ==
  /\ call[t].at = "link"
  /\ link' = [link EXCEPT ![call[t].bkt] =
                (call[t].spare - call[t].bkt) % LinkSpan]
  /\ call' = [call EXCEPT ![t] = [call[t] EXCEPT !.at = "scan", !.bkt = call[t].spare,
                                                  !.index = 0]]
  /\ UNCHANGED <<entries, version>>

------------------------------------------------------------------------------
(* delete_index_entry: clears the first entry with this tag and offset.    *)

(* Fault: only the offset is cleared.                                      *)
DeleteClearOffset(t) ==
  /\ AtSlot(t, "clear")
  /\ entries' = [entries EXCEPT ![call[t].bkt][call[t].index].offset = 0]
  /\ call' = [call EXCEPT ![t].at = "deleted"]
  /\ UNCHANGED <<link, version>>

DeleteClear(t) ==
  /\ AtSlot(t, "clear")
  /\ entries' = [entries EXCEPT ![call[t].bkt][call[t].index] = EmptyEntry]
  /\ call' = [call EXCEPT ![t].at = "deleted"]
  /\ UNCHANGED <<link, version>>

------------------------------------------------------------------------------
IndexStep(t) ==
  \/ SlotHit(t) \/ SlotMiss(t) \/ FollowLink(t) \/ ChainEnd(t)
  \/ InsertStore(t) \/ InsertPublish(t) \/ InsertFull(t) \/ InsertLink(t)
  \/ ClaimSkip(t) \/ ClaimTake(t) \/ DeleteClear(t)

(* The callers: a thread without a call starts one on a bucket of its own, *)
(* and takes the result of a call that has ended.                          *)
Start(t) ==
  /\ call[t].at = "idle"
  /\ \E b \in Homes[t], h \in Hashes :
       \/ call' = [call EXCEPT ![t] = Frame("probe", b, h, 0)]
       \/ \E off \in Offsets, label \in {"scan", "match"} :
            call' = [call EXCEPT ![t] = Frame(label, b, h, off)]
  /\ UNCHANGED <<entries, link, version>>

Finish(t) ==
  /\ call[t].at \in ResultLabels
  /\ call' = [call EXCEPT ![t] = NoCall]
  /\ UNCHANGED <<entries, link, version>>

(* create_bucket_pool: the mapping is zeroed.                              *)
PoolInit ==
  /\ entries = [b \in Buckets |-> [i \in Slots |-> EmptyEntry]]
  /\ link = [b \in Buckets |-> 0]
  /\ version = [b \in Buckets |-> 0]

Init == PoolInit /\ call = [t \in Threads |-> NoCall]

Next == \E t \in Threads : Start(t) \/ Finish(t) \/ IndexStep(t)

(* A thread inside a call is scheduled again; nobody is forced to call.    *)
Spec == Init /\ [][Next]_bucketVars

FairSpec == Spec /\ \A t \in Threads : WF_bucketVars(IndexStep(t))

------------------------------------------------------------------------------
Frames ==
  [at : {"idle"} \cup RunningLabels \cup ResultLabels,
   main : Mains \cup {NULL}, hash : Hashes \cup {0}, off : Offsets \cup {0},
   bkt : Buckets \cup {NULL}, index : 0..BUCKET_ENTRY_SIZE,
   spare : MainSize..(MainSize + SpareSize)]

(* Every variable has its type, and a call inside a bucket has one.        *)
TypeOK ==
  /\ entries \in
       [Buckets -> [Slots -> [tag : Tags \cup {0}, offset : Offsets \cup {0}]]]
  /\ link \in [Buckets -> 0..(LinkSpan - 1)]
  /\ version \in [Buckets -> Nat]
  /\ call \in [Threads -> Frames]
  /\ \A t \in Threads :
       call[t].at \in (RunningLabels \cup {"found"}) => call[t].bkt \in Buckets

(* No two buckets are chained to the same spare, and a link leads to a     *)
(* claimed spare: two threads that run out of room at the same time never  *)
(* share a spare bucket (next_empty_spare_bucket's compare-and-swap).      *)
ChainsDisjoint ==
  \A b \in Buckets :
    link[b] # 0 =>
      /\ b + link[b] \in Spares
      /\ version[b + link[b]] # 0
      /\ \A c \in Buckets \ {b} : link[c] # 0 => c + link[c] # b + link[b]

(* insert_index_entry gives up only when the pool has no spare left.       *)
FullMeansExhausted ==
  (\E t \in Threads : call[t].at = "full") => \A s \in Spares : version[s] # 0

(* A claimed spare is in a chain, or in the hand of the thread about to    *)
(* chain it: claims that run side by side leak no spare.                   *)
NoSpareLost ==
  \A s \in Spares :
    version[s] # 0 =>
      \/ \E b \in Buckets : link[b] # 0 /\ b + link[b] = s
      \/ \E t \in Threads : call[t].at = "link" /\ call[t].spare = s

(* Every index call returns, whatever the other threads do to the chain it *)
(* walks.                                                                  *)
CallReturns ==
  \A t \in Threads : (call[t].at \in RunningLabels) ~> (call[t].at \in ResultLabels)

------------------------------------------------------------------------------
(* The buckets of a chain from bucket b on.                                *)
ChainFrom[b \in Buckets] ==
  {b} \cup (IF next_spare_bucket(b) = NULL THEN {} ELSE ChainFrom[next_spare_bucket(b)])

(* The bag a main bucket's chain stands for: its published entries.        *)
AbsIndex ==
  [b \in Mains |-> [pair \in Tags \X Offsets |->
     Cardinality({place \in ChainFrom[b] \X Slots :
       entries[place[1]][place[2]] = [tag |-> pair[1], offset |-> pair[2]]})]]

AbsReq ==
  [t \in Threads |->
    LET at == call[t].at IN
    [op    |-> IF at = "idle" THEN "none"
               ELSE IF at \in {"probe", "found", "missing"} THEN "search"
               ELSE IF at \in {"match", "clear", "deleted", "absent"} THEN "delete"
               ELSE "insert",
     main  |-> call[t].main,
     tag   |-> IF at = "idle" THEN 0 ELSE lookup_key_tag_hash_portion(call[t].hash),
     off   |-> call[t].off,
     reply |-> IF at \in {"found", "inserted", "deleted"} THEN "true"
               ELSE IF at \in ResultLabels THEN "false" ELSE "none"]]

Abstract == INSTANCE IndexSpec WITH index <- AbsIndex, req <- AbsReq

(* Calls on main buckets of their own behave as atomic operations on bags  *)
(* of entries, while the threads compete for the spare buckets.            *)
IndexImplemented == Abstract!Spec
==============================================================================
