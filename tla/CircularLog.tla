----------------------------- MODULE CircularLog -----------------------------
(***************************************************************************)
(* put, get and remove of circular_log.c over the bucket pool.  Every      *)
(* partition's log is used by one writing thread; the bucket pool is       *)
(* shared, so keys of different partitions meet in one main bucket; any    *)
(* thread may get any key.  A main bucket's version is its optimistic      *)
(* lock.  Steps are single accesses to shared memory, as in Bucket.        *)
(*                                                                         *)
(* The allocator is abstracted to a set of free blocks per partition, of   *)
(* one size, that a get from it may fail to find: SegFits has the detail.  *)
(***************************************************************************)
EXTENDS Bucket

CONSTANTS
  Keys, Vals,
  NoKey, NoVal,  \* of a block never written, of a get that found nothing
  Junk,          \* a value overwritten by the allocator's tags
  HashOf,        \* [Keys -> Hashes]: the caller sets keyhash to CityHash64(key)
  WriteKeys,     \* [Threads -> SUBSET Keys]: the keys a thread puts and removes
  ReadKeys,      \* [Threads -> SUBSET Keys]: the keys a thread gets
  Heap,          \* [Threads -> SUBSET Offsets]: the blocks of a thread's partition
  Scars,         \* bound: what a run lets a free do to the entry: Remains
  VersionSpan,   \* 2^32 in the code
  VersionCap     \* bound: writers start only while the version is below it

ASSUME LogAssumption ==
  /\ HashOf \in [Keys -> Hashes] /\ NoKey \notin Keys
  /\ WriteKeys \in [Threads -> SUBSET Keys] /\ ReadKeys \in [Threads -> SUBSET Keys]
  /\ Heap \in [Threads -> SUBSET Offsets]
  /\ \A t, u \in Threads :
       t # u => Heap[t] \cap Heap[u] = {} /\ WriteKeys[t] \cap WriteKeys[u] = {}
  /\ Scars \subseteq {"none", "size", "val"}
  /\ VersionSpan \in Nat \ {0} /\ VersionSpan % 2 = 0 /\ VersionCap \in Nat

VARIABLES
  log,    \* log[off]: the circular_log_entry in the block at an offset
  free,   \* the offsets of the blocks that sfits holds
  th      \* the operation each thread is in

logVars == <<entries, link, version, call, log, free, th>>
index == <<entries, link, version, call>>

(* A thread's frame.  key and val are the caller's entry, which a get      *)
(* overwrites; asked is the key it was called with.                        *)
NoOp == [pc |-> "idle", op |-> "none", key |-> NoKey, val |-> NoVal, asked |-> NoKey,
         main |-> NULL, ver |-> 0, off |-> 0, ok |-> FALSE]

(* The main bucket of a key.                                               *)
MainOf == [k \in Keys |-> get_entry_bucket(HashOf[k])]

Main(k) == MainOf[k]

Op(pc, op, k, val) ==
  [NoOp EXCEPT !.pc = pc, !.op = op, !.key = k, !.asked = k, !.val = val, !.main = Main(k)]

At(t, pc) == th[t].pc = pc

Goto(t, pc) == th' = [th EXCEPT ![t].pc = pc]

(* A search from the slot the last one stopped at, with the hash that the  *)
(* caller's entry has now.                                                 *)
SearchAgain(t) == call' = [call EXCEPT ![t].at = "probe"]

SearchFirst(t) ==
  call' = [call EXCEPT ![t] = Frame("probe", th[t].main, HashOf[th[t].key], 0)]

Invoke(t) ==
  /\ At(t, "idle")
  /\ \/ \E k \in WriteKeys[t] :
          /\ version[Main(k)] < VersionCap
          /\ \E op \in {"put", "remove"}, v \in Vals :
               th' = [th EXCEPT ![t] = Op("lock", op, k, IF op = "put" THEN v ELSE NoVal)]
     \/ \E k \in ReadKeys[t] :
          th' = [th EXCEPT ![t] = Op("begin", "get", k, NoVal)]
  /\ UNCHANGED <<index, log, free>>

Return(t) ==
  /\ At(t, "done")
  /\ th' = [th EXCEPT ![t] = NoOp]
  /\ UNCHANGED <<index, log, free>>

------------------------------------------------------------------------------
(* OPTIMISTIC_LOCK: read the version without its low bit and compare-and-  *)
(* swap it to odd.  The loop repeats while the swap succeeds.              *)

(* Fault: the low bit is not masked.                                       *)
LockReadUnmasked(t) ==
  /\ At(t, "lock")
  /\ th' = [th EXCEPT ![t] = [th[t] EXCEPT !.pc = "cas", !.ver = version[th[t].main]]]
  /\ UNCHANGED <<index, log, free>>

LockRead(t) ==
  /\ At(t, "lock")
  /\ th' = [th EXCEPT ![t] =
              [th[t] EXCEPT !.pc = "cas", !.ver = 2 * (version[th[t].main] \div 2)]]
  /\ UNCHANGED <<index, log, free>>

LockRepeat(t) ==
  /\ At(t, "cas") /\ version[th[t].main] = th[t].ver
  /\ version' = [version EXCEPT ![th[t].main] = 2 * (th[t].ver \div 2) + 1]
  /\ Goto(t, "lock")
  /\ UNCHANGED <<entries, link, call, log, free>>

(* Fault: the loop is left whether or not the version was swapped.         *)
LockEnterUnswapped(t) ==
  /\ At(t, "cas")
  /\ Goto(t, "search") /\ SearchFirst(t)
  /\ UNCHANGED <<entries, link, version, log, free>>

LockEnter(t) ==
  /\ At(t, "cas") /\ version[th[t].main] # th[t].ver
  /\ Goto(t, "search") /\ SearchFirst(t)
  /\ UNCHANGED <<entries, link, version, log, free>>

(* OPTIMISTIC_UNLOCK *)
Unlock(t) ==
  /\ At(t, "unlock")
  /\ version' = [version EXCEPT ![th[t].main] = (@ + 1) % VersionSpan]
  /\ Goto(t, "done")
  /\ UNCHANGED <<entries, link, call, log, free>>

------------------------------------------------------------------------------
(* The loop that __remove_circular_log_entry and __get_circular_log_entry  *)
(* share: search the index, check the tag again, load the offset, compare  *)
(* the key in the log.                                                     *)

RunIndexCall(t) ==
  /\ th[t].pc \in {"search", "insert"}
  /\ IndexStep(t)
  /\ UNCHANGED <<log, free, th>>

Found(t) ==
  /\ At(t, "search") /\ call[t].at = "found"
  /\ IF match_index_entry_tag(Entry(t).tag, HashOf[th[t].key])
     THEN Goto(t, "offset") /\ UNCHANGED call
     ELSE SearchAgain(t) /\ UNCHANGED th
  /\ UNCHANGED <<entries, link, version, log, free>>

LoadOffset(t) ==
  /\ At(t, "offset")
  /\ th' = [th EXCEPT ![t] = [th[t] EXCEPT !.pc = "compare", !.off = Entry(t).offset]]
  /\ UNCHANGED <<index, log, free>>

KeyDiffers(t) ==
  /\ At(t, "compare") /\ log[th[t].off].key # th[t].key
  /\ Goto(t, "search") /\ SearchAgain(t)
  /\ UNCHANGED <<entries, link, version, log, free>>

KeyEqual(t) ==
  /\ At(t, "compare") /\ log[th[t].off].key = th[t].key
  /\ Goto(t, IF th[t].op = "get" THEN "load_key" ELSE "unindex")
  /\ UNCHANGED <<index, log, free>>

OnMissing == [get |-> "end", remove |-> "unlock", put |-> "alloc"]

(* Fault: a get that finds nothing reports success.                        *)
MissingIsHit(t) ==
  /\ At(t, "search") /\ call[t].at = "missing"
  /\ th' = [th EXCEPT ![t] =
              [th[t] EXCEPT !.pc = OnMissing[th[t].op], !.ok = th[t].op = "get"]]
  /\ call' = [call EXCEPT ![t] = NoCall]
  /\ UNCHANGED <<entries, link, version, log, free>>

Missing(t) ==
  /\ At(t, "search") /\ call[t].at = "missing"
  /\ th' = [th EXCEPT ![t] = [th[t] EXCEPT !.pc = OnMissing[th[t].op], !.ok = FALSE]]
  /\ call' = [call EXCEPT ![t] = NoCall]
  /\ UNCHANGED <<entries, link, version, log, free>>

------------------------------------------------------------------------------
(* Fault: the slot is cleared in the bucket the search began in.           *)
UnindexInMain(t) ==
  /\ At(t, "unindex")
  /\ entries' = [entries EXCEPT ![th[t].main][call[t].index] = EmptyEntry]
  /\ call' = [call EXCEPT ![t] = NoCall]
  /\ Goto(t, "free")
  /\ UNCHANGED <<link, version, log, free>>

(* delete_index_entry_with_index, one store of a 64-bit word.              *)
Unindex(t) ==
  /\ At(t, "unindex")
  /\ entries' = [entries EXCEPT ![call[t].bkt][call[t].index] = EmptyEntry]
  /\ call' = [call EXCEPT ![t] = NoCall]
  /\ Goto(t, "free")
  /\ UNCHANGED <<link, version, log, free>>

(* What free_segregated_fits_block may leave of an entry: all of it, a     *)
(* list pointer where its size was, a boundary tag inside its value.       *)
Remains(entry) ==
  LET left == [none |-> entry, size |-> [entry EXCEPT !.size = "next"],
               val |-> [entry EXCEPT !.val = Junk]]
  IN  {left[scar] : scar \in Scars}

(* Fault: a put that replaces a value does not free the old block.         *)
FreeBlockOfRemove(t) ==
  /\ At(t, "free")
  /\ free' = IF th[t].op = "put" THEN free ELSE free \cup {th[t].off}
  /\ \E entry \in Remains(log[th[t].off]) : log' = [log EXCEPT ![th[t].off] = entry]
  /\ th' = [th EXCEPT ![t] =
              [th[t] EXCEPT !.pc = IF th[t].op = "put" THEN "alloc" ELSE "unlock",
                            !.off = 0, !.ok = TRUE]]
  /\ UNCHANGED index

FreeBlock(t) ==
  /\ At(t, "free")
  /\ free' = free \cup {th[t].off}
  /\ \E entry \in Remains(log[th[t].off]) : log' = [log EXCEPT ![th[t].off] = entry]
  /\ th' = [th EXCEPT ![t] =
              [th[t] EXCEPT !.pc = IF th[t].op = "put" THEN "alloc" ELSE "unlock",
                            !.off = 0, !.ok = TRUE]]
  /\ UNCHANGED index

Allocate(t) ==
  /\ At(t, "alloc")
  /\ \E off \in free \cap Heap[t] :
       /\ free' = free \ {off}
       /\ th' = [th EXCEPT ![t] = [th[t] EXCEPT !.pc = "copy_key", !.off = off]]
  /\ UNCHANGED <<index, log>>

(* Fault: a put without a block reports success.                           *)
AllocateFailsSilently(t) ==
  /\ At(t, "alloc")
  /\ th' = [th EXCEPT ![t] = [th[t] EXCEPT !.pc = "done", !.ok = TRUE]]
  /\ UNCHANGED <<index, log, free>>

(* Fault: the address is not compared with NULL.                           *)
AllocateFailsUnchecked(t) ==
  /\ At(t, "alloc")
  /\ th' = [th EXCEPT ![t] = [th[t] EXCEPT !.pc = "copy_key", !.off = NULL]]
  /\ UNCHANGED <<index, log, free>>

(* put returns here with the old entry gone and the version as it is.      *)
AllocateFails(t) ==
  /\ At(t, "alloc")
  /\ th' = [th EXCEPT ![t] = [th[t] EXCEPT !.pc = "done", !.ok = FALSE]]
  /\ UNCHANGED <<index, log, free>>

CopyKey(t) ==
  /\ At(t, "copy_key")
  /\ log' = [log EXCEPT ![th[t].off] = [@ EXCEPT !.size = "size", !.key = th[t].key]]
  /\ Goto(t, "copy_val")
  /\ UNCHANGED <<index, free>>

CopyVal(t) ==
  /\ At(t, "copy_val")
  /\ log' = [log EXCEPT ![th[t].off].val = th[t].val]
  /\ Goto(t, "insert")
  /\ call' = [call EXCEPT ![t] =
                Frame("scan", th[t].main, HashOf[th[t].key], th[t].off)]
  /\ UNCHANGED <<entries, link, version, free>>

(* The result of insert_index_entry is not looked at.                      *)
Inserted(t) ==
  /\ At(t, "insert") /\ call[t].at \in {"inserted", "full"}
  /\ th' = [th EXCEPT ![t] = [th[t] EXCEPT !.pc = "unlock", !.ok = TRUE]]
  /\ call' = [call EXCEPT ![t] = NoCall]
  /\ UNCHANGED <<entries, link, version, log, free>>

------------------------------------------------------------------------------
(* get_circular_log_entry: read the version, run the loop above, copy the  *)
(* entry over the caller's, and do it again if the version has changed.    *)

GetBegin(t) ==
  /\ At(t, "begin")
  /\ th' = [th EXCEPT ![t] = [th[t] EXCEPT !.pc = "search", !.ver = version[th[t].main]]]
  /\ SearchFirst(t)
  /\ UNCHANGED <<entries, link, version, log, free>>

(* memcpy's length is the entry's first word: an address, once the block   *)
(* is on a free list.                                                      *)
GetKey(t) ==
  /\ At(t, "load_key") /\ log[th[t].off].size = "size"
  /\ th' = [th EXCEPT ![t] = [th[t] EXCEPT !.pc = "load_val", !.key = log[th[t].off].key]]
  /\ UNCHANGED <<index, log, free>>

GetFault(t) ==
  /\ At(t, "load_key") /\ log[th[t].off].size = "next"
  /\ Goto(t, "fault")
  /\ UNCHANGED <<index, log, free>>

GetVal(t) ==
  /\ At(t, "load_val")
  /\ th' = [th EXCEPT ![t] =
              [th[t] EXCEPT !.pc = "end", !.val = log[th[t].off].val, !.ok = TRUE]]
  /\ call' = [call EXCEPT ![t] = NoCall]
  /\ UNCHANGED <<entries, link, version, log, free>>

GetEnd(t) ==
  /\ At(t, "end")
  /\ Goto(t, IF version[th[t].main] = th[t].ver THEN "done" ELSE "begin")
  /\ UNCHANGED <<index, log, free>>

------------------------------------------------------------------------------
WriterStep(t) ==
  \/ LockRead(t) \/ LockRepeat(t) \/ LockEnter(t) \/ Unindex(t) \/ FreeBlock(t)
  \/ Allocate(t) \/ AllocateFails(t) \/ CopyKey(t) \/ CopyVal(t) \/ Inserted(t)
  \/ Unlock(t)

LoopStep(t) ==
  \/ RunIndexCall(t) \/ Found(t) \/ LoadOffset(t) \/ KeyDiffers(t) \/ KeyEqual(t)
  \/ Missing(t)

GetStep(t) ==
  GetBegin(t) \/ GetKey(t) \/ GetFault(t) \/ GetVal(t) \/ GetEnd(t)

(* A fault ends the process, every thread of it.                           *)
Running == \A t \in Threads : ~At(t, "fault")

OpStep(t) == Running /\ (WriterStep(t) \/ LoopStep(t) \/ GetStep(t))

LogInit ==
  /\ Init
  /\ log = [off \in Offsets \cup {0} |-> [size |-> "size", key |-> NoKey, val |-> Junk]]
  /\ free = Offsets
  /\ th = [t \in Threads |-> NoOp]

LogNext ==
  \E t \in Threads : OpStep(t) \/ (Running /\ (Invoke(t) \/ Return(t)))

LogSpec == LogInit /\ [][LogNext]_logVars

(* A thread inside an operation is scheduled again.                        *)
FairLogSpec == LogSpec /\ \A t \in Threads : WF_logVars(OpStep(t))

------------------------------------------------------------------------------
Updating ==
  {"search", "offset", "compare", "unindex", "free", "alloc", "copy_key", "copy_val",
   "insert", "unlock"}

Complete(off) ==
  log[off].size = "size" /\ log[off].key \in Keys /\ log[off].val \in Vals

(* The published entries of a main bucket's chain.                         *)
Published(b) == {p \in ChainFrom[b] \X Slots : entries[p[1]][p[2]].tag # 0}

OffsetAt(p) == entries[p[1]][p[2]].offset

TagAt(p) == entries[p[1]][p[2]].tag

(* The value that a search for a key by tag and key finds.                 *)
Lookup(k) ==
  LET hits == {p \in Published(Main(k)) :
                 match_index_entry_tag(TagAt(p), HashOf[k]) /\ log[OffsetAt(p)].key = k}
  IN  IF hits = {} THEN NoVal ELSE log[OffsetAt(CHOOSE p \in hits : TRUE)].val

LogEntries == [size : {"size", "next"}, key : Keys \cup {NoKey}, val : Vals \cup {Junk}]

Operations ==
  [pc : Updating \cup {"idle", "lock", "cas", "begin", "load_key", "load_val", "end",
                       "fault", "done"},
   op : {"none", "put", "get", "remove"}, key : Keys \cup {NoKey},
   val : Vals \cup {NoVal, Junk}, asked : Keys \cup {NoKey}, main : Mains \cup {NULL},
   ver : 0..(VersionSpan - 1), off : Offsets \cup {0}, ok : BOOLEAN]

(* Every variable has its type.                                            *)
LogTypeOK ==
  /\ TypeOK
  /\ \A b \in Mains : version[b] < VersionSpan
  /\ log \in [Offsets \cup {0} -> LogEntries]
  /\ free \subseteq Offsets
  /\ th \in [Threads -> Operations]

(* "during updating a bucket entry, keep version odd" (bucket.h): a thread *)
(* between OPTIMISTIC_LOCK and OPTIMISTIC_UNLOCK keeps it so.              *)
OddWhileUpdating ==
  \A t \in Threads :
    th[t].op \in {"put", "remove"} /\ th[t].pc \in Updating
      => version[th[t].main] % 2 = 1

(* An index entry leads to a used block that holds a whole entry of its    *)
(* bucket and tag, and no key has two: put frees the block only after it   *)
(* has unindexed it and indexes the new one only after it has filled it.   *)
EntriesSound ==
  \A b \in Mains : \A p \in Published(b) :
    /\ OffsetAt(p) \notin free /\ Complete(OffsetAt(p))
    /\ LET k == log[OffsetAt(p)].key
       IN  Main(k) = b /\ match_index_entry_tag(TagAt(p), HashOf[k])
    /\ \A q \in Published(b) \ {p} : log[OffsetAt(q)].key # log[OffsetAt(p)].key

(* A block is in use just as long as it is indexed or in the hand of the   *)
(* thread that frees or fills it: a failed put leaks none, and the thread  *)
(* gives the allocator only what it has from it (Allocator's GiveBack).    *)
BlocksAccounted ==
  \A t \in Threads : \A off \in Heap[t] :
    off \notin free <=>
      \/ \E b \in Mains : \E p \in Published(b) : OffsetAt(p) = off
      \/ th[t].off = off /\ th[t].pc \in {"free", "copy_key", "copy_val", "insert"}

(* A get whose last pass began on an even version that is the version      *)
(* still, and whose entry has the key it was called with, returns what the *)
(* log holds at that instant, and such a pass never copies a freed entry.  *)
EvenWindow(t) == th[t].ver % 2 = 0 /\ version[th[t].main] = th[t].ver

EvenWindowGets ==
  [][\A t \in Threads :
       /\ GetFault(t) => ~EvenWindow(t)
       /\ GetEnd(t) /\ EvenWindow(t) /\ th[t].key = th[t].asked =>
            Lookup(th[t].asked) = IF th[t].ok THEN th[t].val ELSE NoVal]_logVars

(* A get that returns true after a last pass on an even version has filled *)
(* in an entry of the key it was called with ("@entry:ouput matched log    *)
(* entry").  A pass on an odd version is GetWhole's matter.                *)
GetMatches ==
  \A t \in Threads :
    At(t, "done") /\ th[t].op = "get" /\ th[t].ok /\ th[t].ver % 2 = 0
      => th[t].key = th[t].asked

(* A get that returns true has a value some put stored, not the remains of *)
(* a freed block ("callee must check the version consistency of bucket").  *)
GetWhole ==
  \A t \in Threads :
    At(t, "done") /\ th[t].op = "get" /\ th[t].ok => th[t].val \in Vals

(* After a put that returned true a get would find its value, as the test  *)
(* program asserts of every key it has put.                                *)
PutIsIndexed ==
  \A t \in Threads :
    At(t, "done") /\ th[t].op = "put" /\ th[t].ok => Lookup(th[t].asked) = th[t].val

(* Every operation returns: no thread stays inside one for ever.           *)
OpsReturn == \A t \in Threads : []<>(th[t].pc \in {"idle", "done"})

------------------------------------------------------------------------------
(* The map the log stands for, and how far each operation has come in it.  *)
AbsMap == [k \in Keys |-> Lookup(k)]

AbsReply(t) ==
  LET o == th[t] IN
  CASE o.op = "put" ->
         IF At(t, "done") /\ ~o.ok THEN "false"
         ELSE IF o.pc \in {"unlock", "done"} \/ call[t].at = "inserted" THEN "true"
         ELSE "none"
    [] o.op = "remove" ->
         IF o.pc \in {"unlock", "done"} /\ ~o.ok THEN "false"
         ELSE IF o.pc \in {"free", "unlock", "done"} THEN "true" ELSE "none"
    [] o.op = "get" ->
         IF o.pc \notin {"end", "done"} THEN "none" ELSE IF o.ok THEN "true" ELSE "false"
    [] OTHER -> "none"

AbsKvReq ==
  [t \in Threads |->
    [op |-> th[t].op, key |-> th[t].asked, reply |-> AbsReply(t),
     val |-> IF th[t].op = "get" /\ AbsReply(t) = "none" THEN NoVal ELSE th[t].val]]

Kv == INSTANCE KvMap WITH map <- AbsMap, req <- AbsKvReq, OwnKeys <- WriteKeys

(* Threads whose keys lie in main buckets of their own see the map KvMap   *)
(* promises, while they claim and link spare buckets side by side.         *)
KvImplemented == Kv!Spec
==============================================================================
