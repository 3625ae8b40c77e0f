------------------------------- MODULE KeyHash -------------------------------
(***************************************************************************)
(* The portions of a 64-bit key hash.  One CityHash64 value selects the    *)
(* partition (top 16 bits), the main bucket (middle 32 bits) and the tag   *)
(* that filters index entries (low 16 bits).  The widths are parameters:   *)
(* TagSpan, BucketSpan and RssSpan are 2^16, 2^32 and 2^16 in the code.    *)
(***************************************************************************)
EXTENDS Bits

CONSTANTS
  TagSpan,     \* number of values of the tag portion
  BucketSpan,  \* number of values of the bucket portion
  RssSpan,     \* number of values of the queue-selection portion
  MainSize     \* bucket_pool.main_size: how many main buckets the pool has

ASSUME HashAssumption ==
  /\ TagSpan \in Nat /\ TagSpan > 1
  /\ BucketSpan \in Nat \ {0} /\ RssSpan \in Nat \ {0}
  /\ MainSize \in Nat \ {0}

(* Tag 0 marks an empty index entry, so a hash whose low bits are 0 takes  *)
(* the tag of the hash whose low bits are all 1.                           *)
lookup_key_tag_hash_portion(h) ==
  LET tag == h % TagSpan IN IF tag = 0 THEN TagSpan - 1 ELSE tag

bucket_hash_portion(h) == (h \div TagSpan) % BucketSpan

rss_queue_hash_portion(h) == (h \div (TagSpan * BucketSpan)) % RssSpan

(* The index of the main bucket of a hash: masked, not reduced modulo      *)
(* main_size, so a size that is not a power of two leaves buckets unused.  *)
get_entry_bucket(h) == BitAnd(bucket_hash_portion(h), MainSize - 1)
==============================================================================
