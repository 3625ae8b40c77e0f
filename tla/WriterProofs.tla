---------------------------- MODULE WriterProofs ------------------------------
(***************************************************************************)
(* Proofs about the writers of the log when the keys of two threads lie in *)
(* different main buckets, which is for the caller to see to (Log_meet):   *)
(* then a main bucket's version is a lock, and the index and the log       *)
(* agree.  Part one is the lock, part two the places of the index, part    *)
(* three the blocks and what a put has put.                                *)
(***************************************************************************)
EXTENDS LogProofs

Writes(o) == o.op \in {"put", "remove"}

BucketsApart ==
  \A t, u \in Threads : t # u =>
    \A k \in WriteKeys[t], l \in WriteKeys[u] : Main(k) # Main(l)

(* What a writer knows of the version v of its main bucket.                *)
Holds(t, o, v) ==
  Writes(o) =>
    /\ o.asked \in WriteKeys[t]
    /\ o.pc = "cas" => o.ver = 2 * (v \div 2)
    /\ o.pc \in Updating => v % 2 = 1

LockInv == \A t \in Threads : Holds(t, th[t], version[th[t].main])

------------------------------------------------------------------------------
(* A step of a thread leaves the versions of the main buckets that it does *)
(* not write in, and the operations of the others.                         *)
Bounded(t) ==
  /\ \A u \in Threads \ {t} : th'[u] = th[u]
  /\ \A b \in Mains : ~(Writes(th[t]) /\ b = th[t].main) => version'[b] = version[b]

(* A step inside an operation that leaves every main bucket's version.     *)
Inside(t) ==
  /\ \A b \in Mains : version'[b] = version[b]
  /\ \A u \in Threads \ {t} : th'[u] = th[u]
  /\ th'[t].op = th[t].op /\ th'[t].asked = th[t].asked /\ th'[t].main = th[t].main
  /\ th'[t].pc # "cas"
  /\ Writes(th[t]) => th[t].pc \in Updating

LEMMA WriterAt ==
  ASSUME LogInv, NEW t \in Threads, th[t].pc # "idle"
  PROVE  /\ th[t].pc \in {"lock", "cas", "unlock"} => Writes(th[t])
         /\ Writes(th[t]) => th[t].pc \in WriterPcs
<1>1. th[t] \in Operations /\ OpControl(th[t])
  BY ThreadFacts
<1>2. th[t].op \in {"none", "put", "get", "remove"}
  BY <1>1, OperationFields
<1>3. "lock" \notin GetPcs /\ "cas" \notin GetPcs /\ "unlock" \notin GetPcs
  BY DEF GetPcs
<1>4. QED
  BY <1>1, <1>2, <1>3 DEF OpControl, Writes

LEMMA WriterInside ==
  ASSUME LogInv, NEW t \in Threads,
         \/ Unindex(t) \/ FreeBlock(t) \/ Allocate(t) \/ AllocateFails(t)
         \/ CopyKey(t) \/ CopyVal(t) \/ Inserted(t)
  PROVE  Inside(t)
<1>1. th \in [Threads -> Operations] /\ th[t] \in Operations
  BY ThreadFacts
<1>2. /\ version' = version
      /\ th[t].pc \in Updating
  BY DEF Unindex, FreeBlock, Allocate, AllocateFails, CopyKey, CopyVal, Inserted, At,
         index, Updating
<1>3. CASE Unindex(t) \/ CopyKey(t) \/ CopyVal(t)
  <2>1. PICK pc \in {"free", "copy_val", "insert"} : th' = [th EXCEPT ![t].pc = pc]
    BY <1>3 DEF Unindex, CopyKey, CopyVal, Goto
  <2>2. QED
    BY <1>1, <1>2, <2>1, OperationFields DEF Inside
<1>4. CASE FreeBlock(t)
  BY <1>1, <1>2, <1>4, OperationFields DEF FreeBlock, Inside
<1>5. CASE Allocate(t)
  <2>1. PICK off : th' = [th EXCEPT ![t] = [th[t] EXCEPT !.pc = "copy_key", !.off = off]]
    BY <1>5 DEF Allocate
  <2>2. QED
    BY <1>1, <1>2, <2>1, OperationFields DEF Inside
<1>6. CASE AllocateFails(t)
  BY <1>1, <1>2, <1>6, OperationFields DEF AllocateFails, Inside
<1>7. CASE Inserted(t)
  BY <1>1, <1>2, <1>7, OperationFields DEF Inserted, Inside
<1>8. QED
  BY <1>3, <1>4, <1>5, <1>6, <1>7

LEMMA LoopInside ==
  ASSUME LogInv, NEW t \in Threads, LoopStep(t)
  PROVE  Inside(t)
<1>1. th \in [Threads -> Operations] /\ th[t] \in Operations /\ OpControl(th[t])
  BY ThreadFacts
<1>2. th[t].pc \in {"search", "insert", "offset", "compare"}
  BY DEF LoopStep, RunIndexCall, Found, LoadOffset, KeyDiffers, KeyEqual, Missing, At
<1>3. th[t].pc \in Updating
  BY <1>2 DEF Updating
<1>4. \A b \in Mains : version'[b] = version[b]
  <2>1. CASE RunIndexCall(t)
    BY <2>1, IndexStepFrame DEF RunIndexCall, LogInv, LogTypeOK
  <2>2. CASE ~RunIndexCall(t)
    BY <2>2 DEF LoopStep, Found, LoadOffset, KeyDiffers, KeyEqual, Missing, index
  <2>3. QED
    BY <2>1, <2>2
<1>5. CASE RunIndexCall(t)
  BY <1>2, <1>3, <1>4, <1>5 DEF RunIndexCall, Inside
<1>6. CASE Found(t)
  <2>1. th' = th \/ th' = [th EXCEPT ![t].pc = "offset"]
    BY <1>6 DEF Found, Goto
  <2>2. QED
    BY <1>1, <1>2, <1>3, <1>4, <2>1, OperationFields DEF Inside
<1>7. CASE LoadOffset(t)
  BY <1>1, <1>3, <1>4, <1>7, OperationFields DEF LoadOffset, Inside
<1>8. CASE KeyDiffers(t)
  BY <1>1, <1>3, <1>4, <1>8, OperationFields DEF KeyDiffers, Goto, Inside
<1>9. CASE KeyEqual(t)
  <2>1. th' = [th EXCEPT ![t].pc = "load_key"] \/ th' = [th EXCEPT ![t].pc = "unindex"]
    BY <1>9 DEF KeyEqual, Goto
  <2>2. QED
    BY <1>1, <1>3, <1>4, <2>1, OperationFields DEF Inside
<1>10. CASE Missing(t)
  <2>1. OnMissing[th[t].op] \in {"end", "unlock", "alloc"}
    BY <1>1, <1>2, OperationFields DEF OnMissing, OpControl
  <2> DEFINE pc == OnMissing[th[t].op]
  <2>2. th' = [th EXCEPT ![t] = [th[t] EXCEPT !.pc = pc, !.ok = FALSE]]
    BY <1>10 DEF Missing
  <2>3. pc # "cas"
    BY <2>1
  <2> HIDE DEF pc
  <2>4. QED
    BY <1>1, <1>3, <1>4, <2>2, <2>3, OperationFields DEF Inside
<1>11. QED
  BY <1>5, <1>6, <1>7, <1>8, <1>9, <1>10 DEF LoopStep

LEMMA GetInside ==
  ASSUME LogInv, NEW t \in Threads, GetStep(t)
  PROVE  Inside(t)
<1>1. th \in [Threads -> Operations] /\ th[t] \in Operations
  BY ThreadFacts
<1>2. th[t].pc \in {"begin", "load_key", "load_val", "end"} /\ version' = version
  BY DEF GetStep, GetBegin, GetKey, GetFault, GetVal, GetEnd, At, index
<1>3. ~Writes(th[t])
  BY <1>2, WriterAt DEF WriterPcs, Updating
<1>4. CASE GetBegin(t)
  BY <1>1, <1>2, <1>3, <1>4, OperationFields DEF GetBegin, Inside
<1>5. CASE GetKey(t)
  BY <1>1, <1>2, <1>3, <1>5, OperationFields DEF GetKey, Inside
<1>6. CASE GetFault(t)
  BY <1>1, <1>2, <1>3, <1>6, OperationFields DEF GetFault, Goto, Inside
<1>7. CASE GetVal(t)
  BY <1>1, <1>2, <1>3, <1>7, OperationFields DEF GetVal, Inside
<1>8. CASE GetEnd(t)
  <2>1. th' = [th EXCEPT ![t].pc = "done"] \/ th' = [th EXCEPT ![t].pc = "begin"]
    BY <1>8 DEF GetEnd, Goto
  <2>2. QED
    BY <1>1, <1>2, <1>3, <2>1, OperationFields DEF Inside
<1>9. QED
  BY <1>4, <1>5, <1>6, <1>7, <1>8 DEF GetStep

LEMMA InsideHolds ==
  ASSUME LogInv, LockInv, NEW t \in Threads, Inside(t)
  PROVE  Bounded(t) /\ Holds(t, th'[t], version'[th'[t].main])
<1>1. Bounded(t)
  BY DEF Inside, Bounded
<1>2. ASSUME Writes(th[t])
      PROVE  Holds(t, th'[t], version'[th'[t].main])
  <2>1. th[t].pc \in Updating /\ th[t].main \in Mains
    <3>1. th[t].pc \in Updating
      BY <1>2 DEF Inside
    <3>2. "idle" \notin Updating
      BY DEF Updating
    <3>3. QED
      BY <3>1, <3>2, MainFacts
  <2>2. Holds(t, th[t], version[th[t].main])
    BY DEF LockInv
  <2>3. version'[th'[t].main] = version[th[t].main]
    BY <2>1 DEF Inside
  <2>4. QED
    BY <1>2, <2>1, <2>2, <2>3 DEF Holds, Inside
<1>3. CASE ~Writes(th[t])
  <2>1. ~Writes(th'[t])
    BY <1>3 DEF Writes, Inside
  <2>2. QED
    BY <1>1, <2>1 DEF Holds
<1>4. QED
  BY <1>1, <1>2, <1>3

(* The buckets of two writers differ, so a step of one is nothing to the   *)
(* other.                                                                  *)
LEMMA OthersHold ==
  ASSUME LogInv, LockInv, BucketsApart, NEW t \in Threads, Bounded(t),
         NEW u \in Threads \ {t}
  PROVE  Holds(u, th'[u], version'[th'[u].main])
<1>1. th'[u] = th[u]
  BY DEF Bounded
<1>2. CASE ~Writes(th[u])
  BY <1>1, <1>2 DEF Holds
<1>3. CASE Writes(th[u])
  <2>1. Holds(u, th[u], version[th[u].main])
    BY DEF LockInv
  <2>2. /\ th[u].asked \in WriteKeys[u] /\ th[u].main = Main(th[u].asked)
        /\ th[u].main \in Mains
    <3>1. th[u].pc # "idle" /\ OpControl(th[u])
      BY <1>3, ThreadFacts DEF OpControl, Writes
    <3>2. QED
      BY <1>3, <2>1, <3>1, MainFacts DEF Holds, OpControl
  <2>3. Writes(th[t]) => th[u].main # th[t].main
    <3>1. SUFFICES ASSUME Writes(th[t])
                   PROVE  th[u].main # th[t].main
      OBVIOUS
    <3>2. Holds(t, th[t], version[th[t].main])
      BY DEF LockInv
    <3>3. th[t].asked \in WriteKeys[t] /\ th[t].main = Main(th[t].asked)
      BY <3>1, <3>2, ThreadFacts DEF Holds, OpControl, Writes
    <3>4. QED
      BY <2>2, <3>3 DEF BucketsApart
  <2>4. version'[th[u].main] = version[th[u].main]
    BY <2>2, <2>3 DEF Bounded
  <2>5. QED
    BY <1>1, <2>1, <2>4
<1>4. QED
  BY <1>2, <1>3

(* The steps that the lock is made of.                                     *)
LEMMA InvokeHolds ==
  ASSUME LogInv, LockInv, NEW t \in Threads, Invoke(t) \/ Return(t)
  PROVE  Bounded(t) /\ Holds(t, th'[t], version'[th'[t].main])
<1>1. th \in [Threads -> Operations] /\ version' = version
  BY ThreadFacts DEF Invoke, Return, index
<1>2. CASE Invoke(t)
  <2>1. PICK k \in WriteKeys[t] \cup ReadKeys[t], pc \in {"lock", "begin"},
             op \in {"put", "remove", "get"},
             val \in Vals \cup {NoVal} :
          /\ th' = [th EXCEPT ![t] = Op(pc, op, k, val)]
          /\ op \in {"put", "remove"} => k \in WriteKeys[t]
    BY <1>2 DEF Invoke
  <2>2. /\ Op(pc, op, k, val).op = op /\ Op(pc, op, k, val).asked = k
        /\ Op(pc, op, k, val).pc = pc
    BY DEF Op, NoOp
  <2>3. th'[t] = Op(pc, op, k, val) /\ Bounded(t)
    BY <1>1, <2>1 DEF Bounded
  <2>4. QED
    BY <2>1, <2>2, <2>3 DEF Holds, Writes, Updating
<1>3. CASE Return(t)
  <2>1. th'[t] = NoOp /\ Bounded(t)
    BY <1>1, <1>3 DEF Return, Bounded
  <2>2. QED
    BY <2>1 DEF Holds, Writes, NoOp
<1>4. QED
  BY <1>2, <1>3

LEMMA LockHolds ==
  ASSUME LogInv, LockInv, NEW t \in Threads,
         LockRead(t) \/ LockRepeat(t) \/ LockEnter(t) \/ Unlock(t)
  PROVE  Bounded(t) /\ Holds(t, th'[t], version'[th'[t].main])
<1>1. /\ th \in [Threads -> Operations] /\ th[t] \in Operations
      /\ version \in [Buckets -> Nat]
  BY ThreadFacts DEF LogInv, LogTypeOK, TypeOK
<1>2. th[t].pc \in {"lock", "cas", "unlock"}
  BY DEF LockRead, LockRepeat, LockEnter, Unlock, At
<1>3. Writes(th[t]) /\ Holds(t, th[t], version[th[t].main])
  BY <1>2, WriterAt DEF LockInv
<1>4. /\ th[t].main \in Mains /\ th[t].main \in Buckets
      /\ version[th[t].main] \in Nat
  BY <1>2, MainFacts
<1>5. CASE LockRead(t)
  <2>1. /\ th'[t].op = th[t].op /\ th'[t].asked = th[t].asked
        /\ th'[t].main = th[t].main /\ th'[t].pc = "cas"
        /\ th'[t].ver = 2 * (version[th[t].main] \div 2)
        /\ \A u \in Threads \ {t} : th'[u] = th[u]
    BY <1>1, <1>5, OperationFields DEF LockRead
  <2>2. version' = version
    BY <1>5 DEF LockRead, index
  <2>3. QED
    BY <1>3, <2>1, <2>2 DEF Holds, Bounded, Writes, Updating
<1>6. CASE LockRepeat(t)
  <2>1. /\ th'[t].op = th[t].op /\ th'[t].asked = th[t].asked
        /\ th'[t].main = th[t].main /\ th'[t].pc = "lock"
        /\ \A u \in Threads \ {t} : th'[u] = th[u]
    BY <1>1, <1>6, OperationFields DEF LockRepeat, Goto
  <2>2. \A b \in Mains : b # th[t].main => version'[b] = version[b]
    BY <1>1, <1>6, SpareInBuckets DEF LockRepeat
  <2>3. QED
    BY <1>3, <2>1, <2>2 DEF Holds, Bounded, Writes, Updating
<1>7. CASE LockEnter(t)
  <2>1. /\ th'[t].op = th[t].op /\ th'[t].asked = th[t].asked
        /\ th'[t].main = th[t].main /\ th'[t].pc = "search"
        /\ \A u \in Threads \ {t} : th'[u] = th[u]
    BY <1>1, <1>7, OperationFields DEF LockEnter, Goto
  <2>2. version' = version /\ version[th[t].main] % 2 = 1
    <3>1. version' = version /\ version[th[t].main] # th[t].ver /\ th[t].pc = "cas"
      BY <1>7 DEF LockEnter, At
    <3>2. th[t].ver = 2 * (version[th[t].main] \div 2)
      BY <1>3, <3>1 DEF Holds
    <3>3. \A n \in Nat : n # 2 * (n \div 2) => n % 2 = 1
      OBVIOUS
    <3>4. QED
      BY <1>4, <3>1, <3>2, <3>3
  <2>3. QED
    BY <1>3, <2>1, <2>2 DEF Holds, Bounded, Writes
<1>8. CASE Unlock(t)
  <2>1. /\ th'[t].op = th[t].op /\ th'[t].asked = th[t].asked
        /\ th'[t].main = th[t].main /\ th'[t].pc = "done"
        /\ \A u \in Threads \ {t} : th'[u] = th[u]
    BY <1>1, <1>8, OperationFields DEF Unlock, Goto
  <2>2. \A b \in Mains : b # th[t].main => version'[b] = version[b]
    BY <1>1, <1>8, SpareInBuckets DEF Unlock
  <2>3. QED
    BY <1>3, <2>1, <2>2 DEF Holds, Bounded, Writes, Updating
<1>9. QED
  BY <1>5, <1>6, <1>7, <1>8

LEMMA LockStep ==
  ASSUME BucketsApart
  PROVE  LogInv /\ LockInv /\ [LogNext]_logVars => LockInv'
<1> SUFFICES ASSUME LogInv, LockInv, [LogNext]_logVars
             PROVE  LockInv'
  OBVIOUS
<1>1. CASE UNCHANGED logVars
  BY <1>1 DEF LockInv, logVars
<1>2. CASE LogNext
  <2>1. PICK t \in Threads : OpStep(t) \/ Invoke(t) \/ Return(t)
    BY <1>2 DEF LogNext
  <2>2. Bounded(t) /\ Holds(t, th'[t], version'[th'[t].main])
    <3>1. CASE WriterStep(t)
      BY <3>1, LockHolds, WriterInside, InsideHolds DEF WriterStep
    <3>2. CASE LoopStep(t) \/ GetStep(t)
      BY <3>2, LoopInside, GetInside, InsideHolds
    <3>3. QED
      BY <2>1, <3>1, <3>2, InvokeHolds DEF OpStep
  <2>3. \A u \in Threads : Holds(u, th'[u], version'[th'[u].main])
    BY <2>2, OthersHold
  <2>4. QED
    BY <2>3 DEF LockInv
<1>3. QED
  BY <1>1, <1>2

------------------------------------------------------------------------------
(* Places: which entries the index has, and what each writer knows of them *)
(* at its stage.                                                           *)
Tagged(c, i) == entries[c][i].tag # 0
OffOf(c, i)  == entries[c][i].offset
KeyOf(c, i)  == log[OffOf(c, i)].key

(* own takes a bucket to the main bucket whose chain it is in.  A chain    *)
(* goes upwards and skips no bucket of its own; what is in none is empty.  *)
OwnedChains(own) ==
  /\ own \in [Buckets -> Mains \cup {NULL}]
  /\ \A m \in Mains : own[m] = m
  /\ \A b \in Buckets : link[b] # 0 => own[b] # NULL /\ own[b + link[b]] = own[b]
  /\ \A s \in Spares : own[s] # NULL => \E b \in Buckets : LinksTo(b, s)
  /\ \A b, c \in Buckets :
       own[b] # NULL /\ own[b] = own[c] /\ b < c => link[b] # 0 /\ b + link[b] <= c

SoundPlace(own, c, i) ==
  /\ own[c] # NULL
  /\ OffOf(c, i) \in Offsets \ free /\ Complete(OffOf(c, i))
  /\ Main(KeyOf(c, i)) = own[c]
  /\ match_index_entry_tag(entries[c][i].tag, HashOf[KeyOf(c, i)])
  /\ \E t \in Threads : KeyOf(c, i) \in WriteKeys[t] /\ OffOf(c, i) \in Heap[t]

SoundPlaces(own) ==
  \A c \in Buckets, i \in Slots : Tagged(c, i) => SoundPlace(own, c, i)

KeysOnce ==
  \A c, d \in Buckets, i, j \in Slots :
    Tagged(c, i) /\ Tagged(d, j) /\ KeyOf(c, i) = KeyOf(d, j) => c = d /\ i = j

NoPlaceOf(key) == \A d \in Buckets, j \in Slots : Tagged(d, j) => KeyOf(d, j) # key

NoPlaceFor(off) == \A d \in Buckets, j \in Slots : Tagged(d, j) => OffOf(d, j) # off

(* The cursor is in the chain of the writer's main bucket, and a spare is  *)
(* looked for at its end.                                                  *)
AtHome(o, c, own) ==
  /\ c.at \in Within => own[c.bkt] = o.main /\ c.hash = HashOf[o.key]
  /\ c.at \in {"claim", "link"} => link[c.bkt] = 0

(* A search has not passed the key.                                        *)
Before(d, j, c) == d < c.bkt \/ (d = c.bkt /\ j < c.index)

Searching(o, c, own) ==
  /\ c.at \in {"probe", "found"} =>
       \A d \in Buckets, j \in Slots :
         Tagged(d, j) /\ own[d] = o.main /\ Before(d, j, c) => KeyOf(d, j) # o.key
  /\ c.at = "found" => match_index_entry_tag(entries[c.bkt][c.index].tag, HashOf[o.key])
  /\ o.pc \in {"compare", "unindex"} => o.off = OffOf(c.bkt, c.index)
  /\ o.pc = "unindex" => log[o.off].key = o.key
  /\ o.pc = "search" /\ c.at = "missing" => NoPlaceOf(o.key)

(* The block in a writer's hand is its own, used, and in no entry yet.     *)
Placed(o, c) == o.pc = "insert" /\ c.at = "inserted"

InHands == {"free"} \cup FillPcs

Holding(t, o, c) ==
  /\ o.pc \in InHands => o.off \in Heap[t] \ free
  /\ o.pc \in InHands /\ ~Placed(o, c) => NoPlaceFor(o.off)
  /\ o.pc \in InHands \cup {"alloc"} /\ ~Placed(o, c) => NoPlaceOf(o.key)
  /\ o.pc \in {"copy_val", "insert"} => log[o.off].key = o.key /\ log[o.off].size = "size"

(* It is filled before it is indexed, in a slot that nobody else takes.    *)
Inserting(o, c) ==
  /\ o.pc = "insert" => log[o.off].val = o.val
  /\ o.pc = "insert" /\ c.at \in Within => c.off = o.off
  /\ c.at = "store" => ~Tagged(c.bkt, c.index)
  /\ c.at = "publish" => entries[c.bkt][c.index] = [tag |-> 0, offset |-> o.off]
  /\ Placed(o, c) => \E d \in Buckets, j \in Slots : Tagged(d, j) /\ OffOf(d, j) = o.off

Knows(t, o, c, own) ==
  Writes(o) =>
    /\ o.key \in WriteKeys[t]
    /\ AtHome(o, c, own) /\ Searching(o, c, own) /\ Holding(t, o, c) /\ Inserting(o, c)

PlaceInv(own) ==
  /\ OwnedChains(own) /\ SoundPlaces(own) /\ KeysOnce
  /\ \A t \in Threads : Knows(t, th[t], call[t], own)

------------------------------------------------------------------------------
LEMMA WithinFacts ==
  /\ "found" \in Within /\ "probe" \in Within /\ "scan" \in Within /\ "store" \in Within
  /\ "publish" \in Within /\ "claim" \in Within /\ "link" \in Within
  /\ "idle" \notin Within /\ "missing" \notin Within /\ "inserted" \notin Within
  /\ "full" \notin Within
BY DEF Within, RunningLabels

(* What the invariants say of a writer, its call and its cursor.           *)
LEMMA WriterFacts ==
  ASSUME LogInv, NEW own, PlaceInv(own), NEW t \in Threads, Writes(th[t])
  PROVE  /\ th[t].key \in WriteKeys[t] /\ th[t].key \in Keys
         /\ th[t].main = Main(th[t].key) /\ th[t].main \in Mains /\ th[t].main \in Buckets
         /\ own[th[t].main] = th[t].main /\ HashOf[th[t].key] \in Hashes
         /\ AtHome(th[t], call[t], own) /\ Searching(th[t], call[t], own)
         /\ Holding(t, th[t], call[t]) /\ Inserting(th[t], call[t])
         /\ call[t].at \in Within => call[t].bkt \in Buckets
         /\ call[t].at \in {"found", "store", "publish"} => call[t].index \in Slots
<1>1. th[t].pc # "idle" /\ OpControl(th[t]) /\ CallControl(th[t], call[t])
  BY ThreadFacts DEF OpControl, Writes
<1>2. Knows(t, th[t], call[t], own)
  BY DEF PlaceInv
<1>3. /\ th[t].key \in Keys /\ th[t].main \in Mains /\ th[t].main \in Buckets
      /\ HashOf[th[t].key] \in Hashes
  BY <1>1, MainFacts
<1>4. th[t].main = Main(th[t].key)
  BY <1>1 DEF OpControl, Writes
<1>5. own[th[t].main] = th[t].main
  BY <1>3 DEF PlaceInv, OwnedChains
<1>6. /\ call[t].at \in Within => call[t].bkt \in Buckets
      /\ call[t].at \in {"found", "store", "publish"} => call[t].index \in Slots
  BY <1>1 DEF LogInv, LogTypeOK, TypeOK, Within, CallControl
<1>7. QED
  BY <1>2, <1>3, <1>4, <1>5, <1>6 DEF Knows

LEMMA ApartFacts ==
  ASSUME LogInv, BucketsApart, NEW own, PlaceInv(own), NEW t \in Threads, Writes(th[t]),
         NEW u \in Threads \ {t}, Writes(th[u])
  PROVE  /\ th[u].main # th[t].main
         /\ th[u].key # th[t].key /\ Heap[u] \cap Heap[t] = {}
<1>1. /\ th[t].key \in WriteKeys[t] /\ th[t].main = Main(th[t].key)
      /\ th[u].key \in WriteKeys[u] /\ th[u].main = Main(th[u].key)
  BY WriterFacts
<1>2. th[u].main # th[t].main /\ Heap[u] \cap Heap[t] = {}
  BY <1>1, LogAssumption DEF BucketsApart
<1>3. QED
  BY <1>1, <1>2

(* A writer that only waits, or is done, knows its key.                    *)
LEMMA OutKnows ==
  ASSUME NEW own, NEW t \in Threads, NEW f, NEW c,
         f.pc \in {"lock", "cas", "unlock", "done"}, c.at = "idle",
         Writes(f) => f.key \in WriteKeys[t]
  PROVE  Knows(t, f, c, own)
<1>1. AtHome(f, c, own)
  BY WithinFacts DEF AtHome
<1>2. Searching(f, c, own)
  BY DEF Searching
<1>3. Holding(t, f, c)
  BY DEF Holding, InHands, FillPcs
<1>4. Inserting(f, c)
  BY DEF Inserting, Placed
<1>5. QED
  BY <1>1, <1>2, <1>3, <1>4 DEF Knows

LEMMA ReaderKnows ==
  ASSUME NEW own, NEW t \in Threads, NEW f, NEW c, ~Writes(f)
  PROVE  Knows(t, f, c, own)
BY DEF Knows

------------------------------------------------------------------------------
(* Steps that write neither index entries nor the log.                     *)
LEMMA FrameKnows ==
  ASSUME UNCHANGED <<entries, link, log, free>>,
         NEW own, NEW t, NEW o, NEW c, Knows(t, o, c, own)
  PROVE  Knows(t, o, c, own)'
<1>1. NoPlaceOf(o.key) => NoPlaceOf(o.key)'
  BY DEF NoPlaceOf, Tagged, KeyOf, OffOf
<1>2. NoPlaceFor(o.off) => NoPlaceFor(o.off)'
  BY DEF NoPlaceFor, Tagged, OffOf
<1>3. AtHome(o, c, own) => AtHome(o, c, own)'
  BY DEF AtHome
<1>4. Searching(o, c, own) => Searching(o, c, own)'
  BY <1>1 DEF Searching, Tagged, KeyOf, OffOf
<1>5. Holding(t, o, c) => Holding(t, o, c)'
  BY <1>1, <1>2 DEF Holding
<1>6. Inserting(o, c) => Inserting(o, c)'
  BY DEF Inserting, Tagged, OffOf
<1>7. QED
  BY <1>3, <1>4, <1>5, <1>6 DEF Knows

LEMMA PlacesStay ==
  ASSUME NEW own, PlaceInv(own), NEW t \in Threads,
         UNCHANGED <<entries, link, log, free>>,
         \A u \in Threads \ {t} : th'[u] = th[u] /\ call'[u] = call[u],
         Knows(t, th'[t], call'[t], own)
  PROVE  PlaceInv(own)'
<1>1. OwnedChains(own)'
  BY DEF PlaceInv, OwnedChains, LinksTo
<1>2. SoundPlaces(own)'
  BY DEF PlaceInv, SoundPlaces, SoundPlace, Tagged, OffOf, KeyOf, Complete
<1>3. KeysOnce'
  BY DEF PlaceInv, KeysOnce, Tagged, OffOf, KeyOf
<1>4. ASSUME NEW u \in Threads
      PROVE  Knows(u, th[u], call[u], own)'
  <2>1. Knows(u, th'[u], call'[u], own)
    BY DEF PlaceInv
  <2>2. QED
    BY <2>1, FrameKnows
<1>5. QED
  BY <1>1, <1>2, <1>3, <1>4 DEF PlaceInv

(* An operation that a step of its thread takes to another place.          *)
Goes(t, pc) ==
  /\ th'[t].pc = pc /\ th'[t].op = th[t].op /\ th'[t].key = th[t].key
  /\ th'[t].main = th[t].main /\ th'[t].val = th[t].val /\ th'[t].off = th[t].off
  /\ \A u \in Threads \ {t} : th'[u] = th[u]

LEMMA GoesFacts ==
  ASSUME LogInv, NEW t \in Threads, NEW pc,
         \/ th' = [th EXCEPT ![t].pc = pc]
         \/ \E ok : th' = [th EXCEPT ![t] = [th[t] EXCEPT !.pc = pc, !.ok = ok]]
         \/ \E ver : th' = [th EXCEPT ![t] = [th[t] EXCEPT !.pc = pc, !.ver = ver]]
  PROVE  Goes(t, pc) /\ (Writes(th'[t]) <=> Writes(th[t]))
<1>1. th \in [Threads -> Operations] /\ th[t] \in Operations
  BY ThreadFacts
<1>2. Goes(t, pc)
  BY <1>1, OperationFields DEF Goes
<1>3. QED
  BY <1>2 DEF Goes, Writes

(* A reader's steps write nothing.                                         *)
LEMMA ReaderPlaces ==
  ASSUME LogInv, NEW own, PlaceInv(own), NEW t \in Threads,
         UNCHANGED <<entries, link, log, free>>, Bounded(t), ~Writes(th'[t]),
         \A u \in Threads \ {t} : call'[u] = call[u]
  PROVE  PlaceInv(own)'
BY PlacesStay, ReaderKnows DEF Bounded

LEMMA InvokePlaces ==
  ASSUME LogInv, LockInv, NEW own, PlaceInv(own), NEW t \in Threads, Invoke(t) \/ Return(t)
  PROVE  PlaceInv(own)'
<1>1. /\ UNCHANGED <<entries, link, log, free>> /\ call' = call
      /\ Bounded(t) /\ Holds(t, th'[t], version'[th'[t].main])
  BY InvokeHolds DEF Invoke, Return, index
<1>2. CASE ~Writes(th'[t])
  BY <1>1, <1>2, ReaderPlaces
<1>3. CASE Writes(th'[t])
  <2>1. th'[t].pc = "lock" /\ th'[t].key = th'[t].asked
    <3>1. Invoke(t)
      BY <1>3, ThreadFacts DEF Return, Writes, NoOp
    <3>2. PICK k, pc, op, val :
            /\ th' = [th EXCEPT ![t] = Op(pc, op, k, val)]
            /\ op \in {"put", "remove"} => pc = "lock"
      BY <3>1 DEF Invoke
    <3>3. th'[t] = Op(pc, op, k, val)
      BY <3>2, ThreadFacts
    <3>4. /\ Op(pc, op, k, val).op = op /\ Op(pc, op, k, val).asked = k
          /\ Op(pc, op, k, val).pc = pc /\ Op(pc, op, k, val).key = k
      BY DEF Op, NoOp
    <3>5. QED
      BY <1>3, <3>2, <3>3, <3>4 DEF Writes
  <2>2. call'[t].at = "idle"
    <3>1. th[t].pc \in {"idle", "done"} /\ call'[t] = call[t]
      BY <1>1 DEF Invoke, Return, At
    <3>2. QED
      BY <3>1, ThreadFacts, NoCallFrame DEF CallControl, HitPcs
  <2>3. Knows(t, th'[t], call'[t], own)
    <3>1. th'[t].key \in WriteKeys[t]
      BY <1>1, <1>3, <2>1 DEF Holds
    <3>2. QED
      BY <2>1, <2>2, <3>1, OutKnows
  <2>4. QED
    BY <1>1, <2>3, PlacesStay DEF Bounded
<1>4. QED
  BY <1>2, <1>3

(* The steps after which a writer waits, or is done.                       *)
LEMMA OutPlaces ==
  ASSUME LogInv, NEW own, PlaceInv(own), NEW t \in Threads, Writes(th[t]),
         UNCHANGED <<entries, link, log, free>>,
         NEW pc \in {"lock", "cas", "unlock", "done"}, Goes(t, pc),
         \A u \in Threads \ {t} : call'[u] = call[u], call'[t].at = "idle"
  PROVE  PlaceInv(own)'
<1>1. th[t].key \in WriteKeys[t]
  BY WriterFacts
<1>2. Knows(t, th'[t], call'[t], own)
  BY <1>1, OutKnows DEF Goes
<1>3. QED
  BY <1>2, PlacesStay DEF Goes

LEMMA WaitPlaces ==
  ASSUME LogInv, NEW own, PlaceInv(own), NEW t \in Threads,
         \/ LockRead(t) \/ LockRepeat(t) \/ Unlock(t) \/ AllocateFails(t)
         \/ Inserted(t)
  PROVE  PlaceInv(own)'
<1>1. th[t].pc \in {"lock", "cas", "unlock", "alloc", "insert"} /\ Writes(th[t])
  <2>1. th[t].pc \in {"lock", "cas", "unlock", "alloc", "insert"}
    BY DEF LockRead, LockRepeat, Unlock, AllocateFails, Inserted, At
  <2>2. OpControl(th[t]) /\ th[t].op \in {"none", "put", "get", "remove"}
    BY ThreadFacts, OperationFields
  <2>3. QED
    BY <2>1, <2>2 DEF OpControl, GetPcs, Writes
<1>2. /\ UNCHANGED <<entries, link, log, free>>
      /\ \A u \in Threads \ {t} : call'[u] = call[u]
  BY ThreadFacts
     DEF LockRead, LockRepeat, Unlock, AllocateFails, Inserted, index
<1>3. call'[t].at = "idle"
  <2>1. CASE Inserted(t)
    BY <2>1, ThreadFacts, NoCallFrame DEF Inserted
  <2>2. CASE ~Inserted(t)
    <3>1. th[t].pc \in {"lock", "cas", "unlock", "alloc"} /\ call'[t] = call[t]
      BY <2>2 DEF LockRead, LockRepeat, Unlock, AllocateFails, At, index
    <3>2. QED
      BY <3>1, ThreadFacts, NoCallFrame DEF CallControl, HitPcs
  <2>3. QED
    BY <2>1, <2>2
<1>4. \E pc \in {"lock", "cas", "unlock", "done"} : Goes(t, pc)
  <2>1. CASE LockRead(t)
    <3>1. Goes(t, "cas")
      BY <2>1, GoesFacts DEF LockRead
    <3>2. QED
      BY <3>1
  <2>2. CASE LockRepeat(t)
    <3>1. Goes(t, "lock")
      BY <2>2, GoesFacts DEF LockRepeat, Goto
    <3>2. QED
      BY <3>1
  <2>3. CASE Unlock(t)
    <3>1. Goes(t, "done")
      BY <2>3, GoesFacts DEF Unlock, Goto
    <3>2. QED
      BY <3>1
  <2>4. CASE AllocateFails(t)
    <3>1. Goes(t, "done")
      BY <2>4, GoesFacts DEF AllocateFails
    <3>2. QED
      BY <3>1
  <2>5. CASE Inserted(t)
    <3>1. Goes(t, "unlock")
      BY <2>5, GoesFacts DEF Inserted
    <3>2. QED
      BY <3>1
  <2>6. QED
    BY <2>1, <2>2, <2>3, <2>4, <2>5
<1>5. QED
  BY <1>1, <1>2, <1>3, <1>4, OutPlaces

------------------------------------------------------------------------------
(* The search that a writer makes for its key.                             *)
LEMMA StartsAtHome ==
  ASSUME LogInv, NEW own, OwnedChains(own), NEW m \in Mains, NEW d \in Buckets, own[d] = m
  PROVE  ~(d < m)
<1>1. own[m] = m /\ m \in Buckets /\ m # NULL
  BY SpareInBuckets, HashAssumption, BucketAssumption DEF OwnedChains, Mains, NULL
<1>2. SUFFICES ASSUME d < m
               PROVE  FALSE
  OBVIOUS
<1>3. link[d] # 0 /\ d + link[d] <= m
  BY <1>1, <1>2 DEF OwnedChains
<1>4. d + link[d] \in Spares
  BY <1>3 DEF LogInv, ChainInv, ClaimInv, ChainsDisjoint
<1>5. QED
  BY <1>3, <1>4, HashAssumption, BucketAssumption DEF Mains, Spares

LEMMA LockEnterPlaces ==
  ASSUME LogInv, NEW own, PlaceInv(own), NEW t \in Threads, LockEnter(t)
  PROVE  PlaceInv(own)'
<1>1. th[t].pc = "cas" /\ UNCHANGED <<entries, link, log, free>>
  BY DEF LockEnter, At
<1>2. Writes(th[t])
  BY <1>1, WriterAt
<1>3. Goes(t, "search") /\ (Writes(th'[t]) <=> Writes(th[t]))
  BY GoesFacts DEF LockEnter, Goto
<1> DEFINE c == Frame("probe", th[t].main, HashOf[th[t].key], 0)
<1>4. /\ call'[t] = c /\ \A u \in Threads \ {t} : call'[u] = call[u]
  BY ThreadFacts DEF LockEnter, SearchFirst
<1>5. c.at = "probe" /\ c.bkt = th[t].main /\ c.hash = HashOf[th[t].key] /\ c.index = 0
  BY DEF Frame
<1> HIDE DEF c
<1>6. AtHome(th'[t], c, own)
  BY <1>2, <1>3, <1>5, WriterFacts DEF AtHome, Goes
<1>7. Searching(th'[t], c, own)
  <2>1. ASSUME NEW d \in Buckets, NEW j \in Slots, own[d] = th[t].main
        PROVE  ~Before(d, j, c)
    <3>1. ~(d < c.bkt) /\ ~(j < c.index)
      BY <1>2, <1>5, <2>1, WriterFacts, StartsAtHome, BucketAssumption DEF Slots, PlaceInv
    <3>2. QED
      BY <3>1 DEF Before
  <2>2. QED
    BY <1>3, <1>5, <2>1 DEF Searching, Goes
<1>8. Holding(t, th'[t], c) /\ Inserting(th'[t], c)
  BY <1>3, <1>5 DEF Holding, Inserting, Placed, InHands, FillPcs, Goes
<1>9. Knows(t, th'[t], call'[t], own)
  BY <1>2, <1>3, <1>4, <1>6, <1>7, <1>8, WriterFacts DEF Knows, Goes
<1>10. QED
  BY <1>1, <1>3, <1>4, <1>9, PlacesStay DEF Goes

LEMMA FoundPlaces ==
  ASSUME LogInv, NEW own, PlaceInv(own), NEW t \in Threads, Writes(th[t]), Found(t)
  PROVE  PlaceInv(own)'
<1>1. /\ th[t].pc = "search" /\ call[t].at = "found" /\ call[t] \in Frames
      /\ UNCHANGED <<entries, link, log, free>>
  BY ThreadFacts DEF Found, At
<1>2. match_index_entry_tag(Entry(t).tag, HashOf[th[t].key])
  BY <1>1, WriterFacts DEF Searching, Entry
<1>3. Goes(t, "offset") /\ call' = call /\ (Writes(th'[t]) <=> Writes(th[t]))
  BY <1>2, GoesFacts DEF Found, Goto
<1>4. AtHome(th'[t], call[t], own)
  BY <1>3, WriterFacts DEF AtHome, Goes
<1>5. Searching(th'[t], call[t], own)
  BY <1>1, <1>3, WriterFacts DEF Searching, Goes
<1>6. Holding(t, th'[t], call[t]) /\ Inserting(th'[t], call[t])
  BY <1>1, <1>3 DEF Holding, Inserting, Placed, InHands, FillPcs, Goes
<1>7. Knows(t, th'[t], call'[t], own)
  BY <1>3, <1>4, <1>5, <1>6, WriterFacts DEF Knows, Goes
<1>8. QED
  BY <1>1, <1>3, <1>7, PlacesStay DEF Goes

LEMMA LoadOffsetPlaces ==
  ASSUME LogInv, NEW own, PlaceInv(own), NEW t \in Threads, Writes(th[t]), LoadOffset(t)
  PROVE  PlaceInv(own)'
<1>1. th[t].pc = "offset" /\ UNCHANGED <<entries, link, log, free>> /\ call' = call
  BY DEF LoadOffset, At, index
<1>2. call[t].at = "found"
  BY <1>1, ThreadFacts DEF CallControl, HitPcs
<1>3. /\ th'[t].pc = "compare" /\ th'[t].off = OffOf(call[t].bkt, call[t].index)
      /\ th'[t].op = th[t].op /\ th'[t].key = th[t].key /\ th'[t].main = th[t].main
      /\ \A u \in Threads \ {t} : th'[u] = th[u]
  BY ThreadFacts, OperationFields DEF LoadOffset, OffOf, Entry
<1>4. AtHome(th'[t], call[t], own)
  BY <1>3, WriterFacts DEF AtHome
<1>5. Searching(th'[t], call[t], own)
  BY <1>2, <1>3, WriterFacts DEF Searching
<1>6. Holding(t, th'[t], call[t]) /\ Inserting(th'[t], call[t])
  BY <1>2, <1>3 DEF Holding, Inserting, Placed, InHands, FillPcs
<1>7. Knows(t, th'[t], call'[t], own)
  BY <1>1, <1>3, <1>4, <1>5, <1>6, WriterFacts DEF Knows
<1>8. QED
  BY <1>1, <1>3, <1>7, PlacesStay

LEMMA KeyDiffersPlaces ==
  ASSUME LogInv, NEW own, PlaceInv(own), NEW t \in Threads, Writes(th[t]), KeyDiffers(t)
  PROVE  PlaceInv(own)'
<1>1. th[t].pc = "compare" /\ UNCHANGED <<entries, link, log, free>>
  BY DEF KeyDiffers, At
<1>2. call[t].at = "found" /\ call[t] \in Frames
  BY <1>1, ThreadFacts DEF CallControl, HitPcs
<1>3. Goes(t, "search") /\ (Writes(th'[t]) <=> Writes(th[t]))
  BY GoesFacts DEF KeyDiffers, Goto
<1>4. /\ call'[t].at = "probe" /\ call'[t].bkt = call[t].bkt
      /\ call'[t].index = call[t].index /\ call'[t].hash = call[t].hash
      /\ \A u \in Threads \ {t} : call'[u] = call[u]
  BY <1>2, ThreadFacts DEF KeyDiffers, SearchAgain, Frames
<1>5. AtHome(th'[t], call'[t], own)
  BY <1>2, <1>3, <1>4, WriterFacts, WithinFacts DEF AtHome, Goes
<1>6. Searching(th'[t], call'[t], own)
  BY <1>2, <1>3, <1>4, WriterFacts DEF Searching, Before, Goes
<1>7. Holding(t, th'[t], call'[t]) /\ Inserting(th'[t], call'[t])
  BY <1>3, <1>4 DEF Holding, Inserting, Placed, InHands, FillPcs, Goes
<1>8. Knows(t, th'[t], call'[t], own)
  BY <1>3, <1>5, <1>6, <1>7, WriterFacts DEF Knows, Goes
<1>9. QED
  BY <1>1, <1>3, <1>4, <1>8, PlacesStay DEF Goes

LEMMA KeyEqualPlaces ==
  ASSUME LogInv, NEW own, PlaceInv(own), NEW t \in Threads, Writes(th[t]), KeyEqual(t)
  PROVE  PlaceInv(own)'
<1>1. /\ th[t].pc = "compare" /\ log[th[t].off].key = th[t].key
      /\ UNCHANGED <<entries, link, log, free>> /\ call' = call
  BY DEF KeyEqual, At, index
<1>2. call[t].at = "found"
  BY <1>1, ThreadFacts DEF CallControl, HitPcs
<1>3. Goes(t, "unindex") /\ (Writes(th'[t]) <=> Writes(th[t]))
  <2>1. th[t].op # "get"
    BY DEF Writes
  <2>2. QED
    BY <2>1, GoesFacts DEF KeyEqual, Goto
<1>4. AtHome(th'[t], call[t], own)
  BY <1>3, WriterFacts DEF AtHome, Goes
<1>5. Searching(th'[t], call[t], own)
  BY <1>1, <1>2, <1>3, WriterFacts DEF Searching, Goes
<1>6. Holding(t, th'[t], call[t]) /\ Inserting(th'[t], call[t])
  BY <1>2, <1>3 DEF Holding, Inserting, Placed, InHands, FillPcs, Goes
<1>7. Knows(t, th'[t], call'[t], own)
  BY <1>1, <1>3, <1>4, <1>5, <1>6, WriterFacts DEF Knows, Goes
<1>8. QED
  BY <1>1, <1>3, <1>7, PlacesStay DEF Goes

LEMMA MissingPlaces ==
  ASSUME LogInv, NEW own, PlaceInv(own), NEW t \in Threads, Writes(th[t]), Missing(t)
  PROVE  PlaceInv(own)'
<1>1. /\ th[t].pc = "search" /\ call[t].at = "missing"
      /\ UNCHANGED <<entries, link, log, free>>
  BY DEF Missing, At
<1>2. /\ call'[t] = NoCall /\ call'[t].at = "idle"
      /\ \A u \in Threads \ {t} : call'[u] = call[u]
  BY ThreadFacts, NoCallFrame DEF Missing
<1>3. CASE th[t].op = "remove"
  <2>1. Goes(t, "unlock")
    <3>1. OnMissing[th[t].op] = "unlock"
      BY <1>3 DEF OnMissing
    <3>2. th' = [th EXCEPT ![t] = [th[t] EXCEPT !.pc = "unlock", !.ok = FALSE]]
      BY <3>1 DEF Missing
    <3>3. QED
      BY <3>2, GoesFacts
  <2>2. QED
    BY <1>1, <1>2, <2>1, OutPlaces
<1>4. CASE th[t].op = "put"
  <2>1. Goes(t, "alloc") /\ (Writes(th'[t]) <=> Writes(th[t]))
    <3>1. OnMissing[th[t].op] = "alloc"
      BY <1>4 DEF OnMissing
    <3>2. th' = [th EXCEPT ![t] = [th[t] EXCEPT !.pc = "alloc", !.ok = FALSE]]
      BY <3>1 DEF Missing
    <3>3. QED
      BY <3>2, GoesFacts
  <2>2. NoPlaceOf(th[t].key)
    BY <1>1, WriterFacts DEF Searching
  <2>3. AtHome(th'[t], call'[t], own) /\ Searching(th'[t], call'[t], own)
    BY <1>2, <2>1, WithinFacts DEF AtHome, Searching, Goes
  <2>4. Holding(t, th'[t], call'[t]) /\ Inserting(th'[t], call'[t])
    BY <1>2, <2>1, <2>2 DEF Holding, Inserting, Placed, InHands, FillPcs, Goes
  <2>5. Knows(t, th'[t], call'[t], own)
    BY <2>1, <2>3, <2>4, WriterFacts DEF Knows, Goes
  <2>6. QED
    BY <1>1, <1>2, <2>1, <2>5, PlacesStay DEF Goes
<1>5. QED
  BY <1>3, <1>4 DEF Writes

------------------------------------------------------------------------------
(* The steps of a writer's index call.                                     *)
LEMMA CallAts ==
  ASSUME LogInv, NEW t \in Threads, RunIndexCall(t)
  PROVE  /\ \/ th[t].pc = "search" /\ call[t].at \in SearchAts
            \/ th[t].pc = "insert" /\ call[t].at \in InsertAts
         /\ th' = th /\ log' = log /\ free' = free /\ call[t] \in Frames
         /\ call \in [Threads -> Frames] /\ IndexStep(t)
         /\ \A u \in Threads \ {t} : call'[u] = call[u]
<1>1. TypeOK /\ IndexStep(t)
  BY DEF RunIndexCall, LogInv, LogTypeOK
<1>2. \A u \in Threads \ {t} : call'[u] = call[u]
  BY <1>1, IndexStepFrame
<1>3. QED
  BY <1>1, <1>2, ThreadFacts DEF RunIndexCall, CallControl, HitPcs

(* An entry of a key has its tag, so a slot with another tag is not its.   *)
LEMMA OtherTag ==
  ASSUME NEW own, PlaceInv(own), NEW d \in Buckets, NEW j \in Slots, Tagged(d, j), NEW k,
         ~match_index_entry_tag(entries[d][j].tag, HashOf[k])
  PROVE  KeyOf(d, j) # k
BY DEF PlaceInv, SoundPlaces, SoundPlace

(* In a chain there is nothing between a bucket and the next, and nothing  *)
(* behind the last.                                                        *)
LEMMA ChainBehind ==
  ASSUME NEW own, PlaceInv(own), NEW b \in Buckets, own[b] # NULL,
         NEW d \in Buckets, own[d] = own[b], b < d
  PROVE  link[b] # 0 /\ b + link[b] <= d
BY DEF PlaceInv, OwnedChains

(* What a step inside a search or an insert must keep.                     *)
LEMMA SearchKnows ==
  ASSUME LogInv, NEW own, PlaceInv(own), NEW t \in Threads, Writes(th[t]),
         th[t].pc = "search", NEW c, c.at \in SearchAts,
         AtHome(th[t], c, own), Searching(th[t], c, own)
  PROVE  Knows(t, th[t], c, own)
<1>1. Holding(t, th[t], c)
  BY DEF Holding, InHands, FillPcs
<1>2. Inserting(th[t], c)
  BY DEF Inserting, Placed, SearchAts
<1>3. QED
  BY <1>1, <1>2, WriterFacts DEF Knows

LEMMA InsertKnows ==
  ASSUME LogInv, NEW own, PlaceInv(own), NEW t \in Threads, Writes(th[t]),
         th[t].pc = "insert", call[t].at # "inserted",
         NEW c, c.at \in {"scan", "store", "claim", "link", "full"},
         AtHome(th[t], c, own), c.at \in Within => c.off = th[t].off,
         c.at = "store" => ~Tagged(c.bkt, c.index)
  PROVE  Knows(t, th[t], c, own)
<1>1. Searching(th[t], c, own)
  BY DEF Searching
<1>2. Holding(t, th[t], c)
  BY WriterFacts DEF Holding, InHands, FillPcs, Placed
<1>3. Inserting(th[t], c)
  BY WriterFacts DEF Inserting, Placed
<1>4. QED
  BY <1>1, <1>2, <1>3, WriterFacts DEF Knows

LEMMA SlotHitKnows ==
  ASSUME LogInv, NEW own, PlaceInv(own), NEW t \in Threads, Writes(th[t]),
         RunIndexCall(t), SlotHit(t)
  PROVE  Knows(t, th[t], call'[t], own)
<1>1. /\ call[t] \in Frames /\ call[t].index \in Slots
      /\ call'[t].at = OnHit[call[t].at] /\ call'[t].bkt = call[t].bkt
      /\ call'[t].index = call[t].index /\ call'[t].hash = call[t].hash
      /\ call'[t].off = call[t].off
  BY CallAts DEF SlotHit, Frames
<1>2. call[t].at \in {"probe", "scan", "match"} /\ Qualifies(t)
  BY DEF SlotHit, Walking, OnHit
<1>3. call[t].hash = HashOf[th[t].key] /\ own[call[t].bkt] = th[t].main
  <2>1. call[t].at \in Within
    BY <1>2, WithinFacts DEF Within, RunningLabels
  <2>2. QED
    BY <2>1, WriterFacts DEF AtHome
<1>4. AtHome(th[t], call'[t], own)
  <2>1. call'[t].at \notin {"claim", "link"}
    BY <1>1, <1>2 DEF OnHit
  <2>2. QED
    BY <1>1, <1>3, <2>1 DEF AtHome
<1>5. CASE th[t].pc = "search"
  <2>1. call[t].at = "probe" /\ call'[t].at = "found"
    BY <1>1, <1>2, <1>5, CallAts DEF SearchAts, OnHit
  <2>2. match_index_entry_tag(entries[call[t].bkt][call[t].index].tag, HashOf[th[t].key])
    BY <1>2, <1>3, <2>1 DEF Qualifies, Entry
  <2>3. Searching(th[t], call'[t], own)
    BY <1>1, <1>5, <2>1, <2>2, WriterFacts DEF Searching, Before
  <2>4. QED
    BY <1>4, <1>5, <2>1, <2>3, SearchKnows DEF SearchAts
<1>6. CASE th[t].pc = "insert"
  <2>1. call[t].at = "scan" /\ call'[t].at = "store"
    BY <1>1, <1>2, <1>6, CallAts DEF InsertAts, OnHit
  <2>2. ~Tagged(call'[t].bkt, call'[t].index)
    BY <1>1, <1>2, <2>1 DEF Qualifies, Entry, is_empty_entry, Tagged
  <2>3. call'[t].off = th[t].off
    BY <1>1, <1>6, <2>1, WriterFacts, WithinFacts DEF Inserting
  <2>4. QED
    BY <1>4, <1>6, <2>1, <2>2, <2>3, InsertKnows
<1>7. QED
  BY <1>5, <1>6, CallAts

LEMMA SlotMissKnows ==
  ASSUME LogInv, NEW own, PlaceInv(own), NEW t \in Threads, Writes(th[t]),
         RunIndexCall(t), SlotMiss(t)
  PROVE  Knows(t, th[t], call'[t], own)
<1>1. /\ call[t] \in Frames /\ call[t].index \in Slots
      /\ call'[t].at = call[t].at /\ call'[t].bkt = call[t].bkt
      /\ call'[t].index = call[t].index + 1 /\ call'[t].hash = call[t].hash
      /\ call'[t].off = call[t].off
  BY CallAts DEF SlotMiss, Frames
<1>2. call[t].at \in {"probe", "scan", "match"} /\ ~Qualifies(t)
  BY DEF SlotMiss, Walking, OnHit
<1>3. AtHome(th[t], call'[t], own)
  BY <1>1, WriterFacts DEF AtHome
<1>4. CASE th[t].pc = "search"
  <2>1. call[t].at = "probe" /\ call[t].at \in Within
    BY <1>2, <1>4, CallAts, WithinFacts DEF SearchAts
  <2>2. call[t].hash = HashOf[th[t].key] /\ call[t].bkt \in Buckets
    BY <2>1, WriterFacts DEF AtHome
  <2>3. ~match_index_entry_tag(entries[call[t].bkt][call[t].index].tag, HashOf[th[t].key])
    BY <1>2, <2>1, <2>2 DEF Qualifies, Entry
  <2>4. ASSUME NEW d \in Buckets, NEW j \in Slots, Tagged(d, j), own[d] = th[t].main,
               Before(d, j, call'[t])
        PROVE  KeyOf(d, j) # th[t].key
    <3>1. CASE d = call[t].bkt /\ j = call[t].index
      BY <2>3, <2>4, <3>1, OtherTag
    <3>2. CASE ~(d = call[t].bkt /\ j = call[t].index)
      <4>1. Before(d, j, call[t])
        BY <1>1, <2>4, <3>2, BucketAssumption DEF Before, Slots
      <4>2. QED
        BY <2>1, <2>4, <4>1, WriterFacts DEF Searching
    <3>3. QED
      BY <3>1, <3>2
  <2>5. Searching(th[t], call'[t], own)
    BY <1>1, <1>4, <2>1, <2>4 DEF Searching
  <2>6. QED
    BY <1>1, <1>3, <1>4, <2>1, <2>5, SearchKnows DEF SearchAts
<1>5. CASE th[t].pc = "insert"
  <2>1. call[t].at = "scan" /\ call'[t].at = "scan"
    BY <1>1, <1>2, <1>5, CallAts DEF InsertAts
  <2>2. call'[t].off = th[t].off
    BY <1>1, <1>5, <2>1, WriterFacts, WithinFacts DEF Inserting
  <2>3. QED
    BY <1>3, <1>5, <2>1, <2>2, InsertKnows
<1>6. QED
  BY <1>4, <1>5, CallAts

LEMMA FollowLinkKnows ==
  ASSUME LogInv, NEW own, PlaceInv(own), NEW t \in Threads, Writes(th[t]),
         RunIndexCall(t), FollowLink(t)
  PROVE  Knows(t, th[t], call'[t], own)
<1> DEFINE b == call[t].bkt
<1>1. /\ call[t] \in Frames /\ call[t].index = BUCKET_ENTRY_SIZE
      /\ call'[t].at = call[t].at /\ call'[t].bkt = b + link[b] /\ link[b] # 0
      /\ call'[t].index = 0 /\ call'[t].hash = call[t].hash /\ call'[t].off = call[t].off
  BY CallAts DEF FollowLink, AtBucketEnd, Frames, next_spare_bucket
<1>2. call[t].at \in {"probe", "scan", "match"}
  BY DEF FollowLink, AtBucketEnd, Walking, OnHit
<1>3. /\ call[t].hash = HashOf[th[t].key] /\ own[b] = th[t].main /\ b \in Buckets
      /\ own[b] # NULL
  <2>1. call[t].at \in Within
    BY <1>2, WithinFacts DEF Within, RunningLabels
  <2>2. th[t].main # NULL
    BY WriterFacts, HashAssumption, BucketAssumption DEF Mains, NULL
  <2>3. QED
    BY <2>1, <2>2, WriterFacts DEF AtHome
<1>4. own[b + link[b]] = own[b]
  BY <1>1, <1>3 DEF PlaceInv, OwnedChains
<1>5. AtHome(th[t], call'[t], own)
  BY <1>1, <1>2, <1>3, <1>4 DEF AtHome
<1>6. CASE th[t].pc = "search"
  <2>1. call[t].at = "probe"
    BY <1>2, <1>6, CallAts DEF SearchAts
  <2>2. ASSUME NEW d \in Buckets, NEW j \in Slots, Tagged(d, j), own[d] = th[t].main,
               Before(d, j, call'[t])
        PROVE  KeyOf(d, j) # th[t].key
    <3>1. b \in Int /\ d \in Int /\ link[b] \in Int /\ j \in 0..(BUCKET_ENTRY_SIZE - 1)
      BY <1>3, PoolFits DEF Buckets, Slots, LogInv, LogTypeOK, TypeOK
    <3>2. d < b + link[b]
      BY <1>1, <2>2, <3>1 DEF Before
    <3>3. ~(b < d)
      BY <1>3, <2>2, <3>1, <3>2, ChainBehind
    <3>4. Before(d, j, call[t])
      BY <1>1, <3>1, <3>3, BucketAssumption DEF Before
    <3>5. QED
      BY <2>1, <2>2, <3>4, WriterFacts DEF Searching
  <2>3. Searching(th[t], call'[t], own)
    BY <1>1, <1>6, <2>1, <2>2 DEF Searching
  <2>4. QED
    BY <1>1, <1>5, <1>6, <2>1, <2>3, SearchKnows DEF SearchAts
<1>7. CASE th[t].pc = "insert"
  <2>1. call[t].at = "scan" /\ call'[t].at = "scan"
    BY <1>1, <1>2, <1>7, CallAts DEF InsertAts
  <2>2. call'[t].off = th[t].off
    BY <1>1, <1>7, <2>1, WriterFacts, WithinFacts DEF Inserting
  <2>3. QED
    BY <1>5, <1>7, <2>1, <2>2, InsertKnows
<1>8. QED
  BY <1>6, <1>7, CallAts

LEMMA ChainEndKnows ==
  ASSUME LogInv, NEW own, PlaceInv(own), NEW t \in Threads, Writes(th[t]),
         RunIndexCall(t), ChainEnd(t)
  PROVE  Knows(t, th[t], call'[t], own)
<1> DEFINE b == call[t].bkt
<1>1. call[t].at \in {"probe", "scan", "match"} /\ call[t].index = BUCKET_ENTRY_SIZE
  BY DEF ChainEnd, AtBucketEnd, Walking, OnHit
<1>2. /\ call[t].hash = HashOf[th[t].key] /\ own[b] = th[t].main /\ b \in Buckets
      /\ own[b] # NULL
  <2>1. call[t].at \in Within
    BY <1>1, WithinFacts DEF Within, RunningLabels
  <2>2. th[t].main # NULL
    BY WriterFacts, HashAssumption, BucketAssumption DEF Mains, NULL
  <2>3. QED
    BY <2>1, <2>2, WriterFacts DEF AtHome
<1>3. link[b] = 0
  <2>1. b + link[b] # NULL
    <3>1. b \in 0..(MainSize + SpareSize - 1) /\ link[b] \in 0..(LinkSpan - 1)
      BY <1>2 DEF Buckets, LogInv, LogTypeOK, TypeOK
    <3>2. b + link[b] >= 0
      BY <3>1, PoolFits, HashAssumption, BucketAssumption
    <3>3. QED
      BY <3>2 DEF NULL
  <2>2. QED
    BY <2>1 DEF ChainEnd, next_spare_bucket
<1>4. CASE th[t].pc = "search"
  <2>1. call[t].at = "probe" /\ call'[t].at = "missing"
    BY <1>1, <1>4, CallAts DEF SearchAts, ChainEnd, OnEnd, Frames
  <2>2. ASSUME NEW d \in Buckets, NEW j \in Slots, Tagged(d, j), KeyOf(d, j) = th[t].key
        PROVE  FALSE
    <3>1. own[d] = th[t].main
      BY <2>2, WriterFacts DEF PlaceInv, SoundPlaces, SoundPlace
    <3>2. ~(b < d)
      BY <1>2, <1>3, <2>2, <3>1, ChainBehind
    <3>3. Before(d, j, call[t])
      <4>1. b \in Int /\ d \in Int /\ j \in 0..(BUCKET_ENTRY_SIZE - 1)
        BY <1>2 DEF Buckets, Slots
      <4>2. QED
        BY <1>1, <3>2, <4>1, BucketAssumption DEF Before
    <3>4. QED
      BY <2>1, <2>2, <3>1, <3>3, WriterFacts DEF Searching
  <2>3. NoPlaceOf(th[t].key)
    BY <2>2 DEF NoPlaceOf
  <2>4. Searching(th[t], call'[t], own) /\ AtHome(th[t], call'[t], own)
    BY <1>4, <2>1, <2>3, WithinFacts DEF Searching, AtHome
  <2>5. QED
    BY <1>4, <2>1, <2>4, SearchKnows DEF SearchAts
<1>5. CASE th[t].pc = "insert"
  <2>1. call[t].at = "scan"
    BY <1>1, <1>5, CallAts DEF InsertAts
  <2>2. /\ call'[t].at = "claim" /\ call'[t].bkt = b /\ call'[t].hash = call[t].hash
        /\ call'[t].off = call[t].off
    BY <2>1, CallAts DEF ChainEnd, OnEnd, Frames
  <2>3. AtHome(th[t], call'[t], own)
    BY <1>2, <1>3, <2>2 DEF AtHome
  <2>4. call'[t].off = th[t].off
    BY <1>5, <2>1, <2>2, WriterFacts, WithinFacts DEF Inserting
  <2>5. QED
    BY <1>5, <2>1, <2>2, <2>3, <2>4, InsertKnows
<1>6. QED
  BY <1>4, <1>5, CallAts

LEMMA ClaimKnows ==
  ASSUME LogInv, NEW own, PlaceInv(own), NEW t \in Threads, Writes(th[t]),
         RunIndexCall(t), ClaimSkip(t) \/ ClaimTake(t) \/ InsertFull(t)
  PROVE  Knows(t, th[t], call'[t], own)
<1>1. call[t].at = "claim" /\ th[t].pc = "insert"
  BY CallAts DEF ClaimSkip, ClaimTake, InsertFull, SearchAts
<1>2. CASE ClaimSkip(t) \/ ClaimTake(t)
  <2>1. /\ call'[t].at \in {"claim", "link"} /\ call'[t].bkt = call[t].bkt
        /\ call'[t].hash = call[t].hash /\ call'[t].off = call[t].off
    BY <1>1, <1>2, CallAts DEF ClaimSkip, ClaimTake, Frames
  <2>2. AtHome(th[t], call'[t], own)
    BY <1>1, <2>1, WriterFacts, WithinFacts DEF AtHome
  <2>3. call'[t].off = th[t].off
    BY <1>1, <2>1, WriterFacts, WithinFacts DEF Inserting
  <2>4. QED
    BY <1>1, <2>1, <2>2, <2>3, InsertKnows
<1>3. CASE InsertFull(t)
  <2>1. call'[t].at = "full"
    BY <1>3, CallAts DEF InsertFull, Frames
  <2>2. AtHome(th[t], call'[t], own)
    BY <2>1, WithinFacts DEF AtHome
  <2>3. QED
    BY <1>1, <2>1, <2>2, WithinFacts, InsertKnows
<1>4. QED
  BY <1>2, <1>3

------------------------------------------------------------------------------
(* Steps that write the block in a writer's hand, while no entry leads to  *)
(* it: what they are to the places, and to the others.                     *)
TheRest(t, own) ==
  /\ OwnedChains(own) /\ SoundPlaces(own) /\ KeysOnce
  /\ \A u \in Threads \ {t} : Knows(u, th[u], call[u], own)

LEMMA RestAndOwn ==
  ASSUME NEW own, NEW t \in Threads, TheRest(t, own)', Knows(t, th[t], call[t], own)'
  PROVE  PlaceInv(own)'
BY DEF TheRest, PlaceInv

LEMMA MatchTagged ==
  ASSUME LogInv, NEW t \in Threads, Writes(th[t]), NEW d, NEW j,
         match_index_entry_tag(entries[d][j].tag, HashOf[th[t].key])
  PROVE  Tagged(d, j)
<1>1. HashOf[th[t].key] \in Hashes
  <2>1. th[t].pc # "idle"
    BY ThreadFacts DEF OpControl, Writes
  <2>2. QED
    BY <2>1, MainFacts
<1>2. lookup_key_tag_hash_portion(HashOf[th[t].key]) \in Tags
  BY <1>1, BucketAssumption, TagRange
<1>3. 0 \notin Tags
  BY DEF Tags
<1>4. QED
  BY <1>2, <1>3 DEF match_index_entry_tag, Tagged

Writing(t, off) ==
  /\ off \in Heap[t] /\ NoPlaceFor(off) /\ UNCHANGED <<entries, link>>
  /\ \A l \in Offsets \ {off} : log'[l] = log[l] /\ (l \in free' <=> l \in free)
  /\ \A u \in Threads \ {t} : th'[u] = th[u] /\ call'[u] = call[u]

LEMMA KeysKept ==
  ASSUME NEW own, PlaceInv(own), NEW t \in Threads, NEW off, Writing(t, off),
         NEW d \in Buckets, NEW j \in Slots, Tagged(d, j)
  PROVE  /\ OffOf(d, j) \in Offsets \ {off} /\ OffOf(d, j)' = OffOf(d, j)
         /\ log'[OffOf(d, j)] = log[OffOf(d, j)] /\ KeyOf(d, j)' = KeyOf(d, j)
<1>1. OffOf(d, j) \in Offsets \ {off} /\ entries' = entries
  BY DEF PlaceInv, SoundPlaces, SoundPlace, Writing, NoPlaceFor
<1>2. log'[OffOf(d, j)] = log[OffOf(d, j)]
  BY <1>1 DEF Writing
<1>3. QED
  BY <1>1, <1>2 DEF OffOf, KeyOf

LEMMA NoPlaceKept ==
  ASSUME NEW own, PlaceInv(own), NEW t \in Threads, NEW off, Writing(t, off)
  PROVE  /\ \A l : NoPlaceFor(l) => NoPlaceFor(l)'
         /\ \A k : NoPlaceOf(k) => NoPlaceOf(k)'
<1>1. entries' = entries
  BY DEF Writing
<1>2. \A l : NoPlaceFor(l) => NoPlaceFor(l)'
  BY <1>1 DEF NoPlaceFor, Tagged, OffOf
<1>3. ASSUME NEW k, NoPlaceOf(k)
      PROVE  NoPlaceOf(k)'
  BY <1>1, <1>3, KeysKept DEF NoPlaceOf, Tagged
<1>4. QED
  BY <1>2, <1>3

LEMMA OthersWritten ==
  ASSUME LogInv, BucketsApart, NEW own, PlaceInv(own), NEW t \in Threads, Writes(th[t]),
         NEW off, Writing(t, off),
         NEW u \in Threads \ {t}, NEW o, NEW c, o = th[u], c = call[u]
  PROVE  Knows(u, o, c, own)'
<1>1. entries' = entries /\ link' = link
  BY DEF Writing
<1>2. SUFFICES ASSUME Writes(o)
               PROVE  Knows(u, o, c, own)'
  BY <1>1 DEF Knows
<1>3. /\ o.key \in WriteKeys[u] /\ AtHome(o, c, own) /\ Searching(o, c, own)
      /\ Holding(u, o, c) /\ Inserting(o, c) /\ off \notin Heap[u]
  BY <1>2, WriterFacts, ApartFacts DEF Writing
<1>4. o.pc \in InHands => o.off \in Offsets \ {off}
  <2>1. Heap[u] \subseteq Offsets
    BY LogAssumption
  <2>2. QED
    BY <1>3, <2>1 DEF Holding
<1>5. AtHome(o, c, own)'
  BY <1>1, <1>3 DEF AtHome
<1>6. Searching(o, c, own)'
  <2>1. c.at \in {"probe", "found"} =>
          \A d \in Buckets, j \in Slots :
            Tagged(d, j)' /\ own[d] = o.main /\ Before(d, j, c) => KeyOf(d, j)' # o.key
    BY <1>1, <1>3, KeysKept DEF Searching, Tagged
  <2>2. o.pc = "unindex" => log'[o.off].key = o.key
    <3>1. SUFFICES ASSUME o.pc = "unindex"
                   PROVE  log'[o.off].key = o.key
      OBVIOUS
    <3>2. c.at = "found"
      BY <3>1, ThreadFacts DEF CallControl, HitPcs
    <3>3. /\ c.bkt \in Buckets /\ c.index \in Slots /\ Tagged(c.bkt, c.index)
          /\ o.off = OffOf(c.bkt, c.index) /\ log[o.off].key = o.key
      BY <1>2, <1>3, <3>1, <3>2, WriterFacts, WithinFacts, MatchTagged DEF Searching
    <3>4. QED
      BY <3>3, KeysKept
  <2>3. NoPlaceOf(o.key) => NoPlaceOf(o.key)'
    BY NoPlaceKept
  <2>4. QED
    BY <1>1, <1>3, <2>1, <2>2, <2>3 DEF Searching, Tagged, OffOf
<1>7. Holding(u, o, c)'
  <2>1. o.pc \in InHands => (log'[o.off] = log[o.off] /\ (o.off \in free' <=> o.off \in free))
    BY <1>4 DEF Writing
  <2>2. "copy_val" \in InHands /\ "insert" \in InHands
    BY DEF InHands, FillPcs
  <2>3. (NoPlaceOf(o.key) => NoPlaceOf(o.key)') /\ (NoPlaceFor(o.off) => NoPlaceFor(o.off)')
    BY NoPlaceKept
  <2>4. QED
    BY <1>3, <2>1, <2>2, <2>3 DEF Holding
<1>8. Inserting(o, c)'
  <2>1. o.pc = "insert" => log'[o.off] = log[o.off]
    BY <1>4 DEF Writing, InHands, FillPcs
  <2>2. QED
    BY <1>1, <1>3, <2>1 DEF Inserting, Tagged, OffOf
<1>9. QED
  BY <1>3, <1>5, <1>6, <1>7, <1>8 DEF Knows

LEMMA WritingRest ==
  ASSUME LogInv, BucketsApart, NEW own, PlaceInv(own), NEW t \in Threads, Writes(th[t]),
         NEW off, Writing(t, off)
  PROVE  TheRest(t, own)'
<1>1. entries' = entries /\ link' = link
  BY DEF Writing
<1>2. OwnedChains(own)'
  BY <1>1 DEF PlaceInv, OwnedChains, LinksTo
<1>3. SoundPlaces(own)'
  <2>1. ASSUME NEW d \in Buckets, NEW j \in Slots, Tagged(d, j)
        PROVE  SoundPlace(own, d, j)'
    <3>1. SoundPlace(own, d, j)
      BY <2>1 DEF PlaceInv, SoundPlaces
    <3>2. /\ OffOf(d, j)' = OffOf(d, j) /\ log'[OffOf(d, j)] = log[OffOf(d, j)]
          /\ KeyOf(d, j)' = KeyOf(d, j) /\ OffOf(d, j) \in Offsets \ {off}
      BY <2>1, KeysKept
    <3>3. OffOf(d, j) \in free' <=> OffOf(d, j) \in free
      BY <3>2 DEF Writing
    <3>4. QED
      BY <1>1, <3>1, <3>2, <3>3 DEF SoundPlace, Complete
  <2>2. QED
    BY <1>1, <2>1 DEF SoundPlaces, Tagged
<1>4. KeysOnce'
  <2>1. KeysOnce
    BY DEF PlaceInv
  <2>2. QED
    BY <1>1, <2>1, KeysKept DEF KeysOnce, Tagged
<1>5. ASSUME NEW u \in Threads \ {t}
      PROVE  Knows(u, th[u], call[u], own)'
  <2>1. PICK o, c : o = th[u] /\ c = call[u]
    OBVIOUS
  <2>2. Knows(u, o, c, own)' /\ th'[u] = o /\ call'[u] = c
    BY <2>1, OthersWritten DEF Writing
  <2>3. QED
    BY <2>2
<1>6. QED
  BY <1>2, <1>3, <1>4, <1>5 DEF TheRest

------------------------------------------------------------------------------
LEMMA HandKnows ==
  ASSUME NEW own, PlaceInv(own), NEW t \in Threads, NEW off, Writing(t, off),
         NEW f, NEW c, f.pc \in InHands \cup {"alloc", "unlock"},
         c.at \in {"idle", "scan"}, AtHome(f, c, own),
         f.key \in WriteKeys[t], NoPlaceOf(f.key),
         f.pc \in InHands => f.off = off /\ off \notin free',
         f.pc \in {"copy_val", "insert"} => log'[off].key = f.key /\ log'[off].size = "size",
         f.pc = "insert" => log'[off].val = f.val /\ c.off = off
  PROVE  Knows(t, f, c, own)'
<1>1. link' = link /\ off \in Heap[t] /\ NoPlaceFor(off)
  BY DEF Writing
<1>2. NoPlaceFor(off)' /\ NoPlaceOf(f.key)'
  BY <1>1, NoPlaceKept
<1>3. AtHome(f, c, own)'
  BY <1>1 DEF AtHome
<1>4. Searching(f, c, own)'
  BY DEF Searching, InHands, FillPcs
<1>5. Holding(t, f, c)'
  <2>1. "copy_val" \in InHands /\ "insert" \in InHands
    BY DEF InHands, FillPcs
  <2>2. f.pc \in InHands => f.off \in Heap[t] \ free' /\ NoPlaceFor(f.off)'
    BY <1>1, <1>2
  <2>3. QED
    BY <1>2, <2>1, <2>2 DEF Holding
<1>6. Inserting(f, c)'
  <2>1. "insert" \in InHands /\ ~Placed(f, c)
    BY DEF InHands, FillPcs, Placed
  <2>2. QED
    BY <2>1 DEF Inserting
<1>7. QED
  BY <1>3, <1>4, <1>5, <1>6 DEF Knows

(* The parts of the hypotheses that the four steps share.                  *)
LEMMA HandPlaces ==
  ASSUME LogInv, BucketsApart, NEW own, PlaceInv(own), NEW t \in Threads, Writes(th[t]),
         NEW off, Writing(t, off),
         th'[t].pc \in InHands \cup {"alloc", "unlock"},
         call'[t].at \in {"idle", "scan"}, AtHome(th'[t], call'[t], own),
         th'[t].key = th[t].key, NoPlaceOf(th[t].key),
         th'[t].pc \in InHands => th'[t].off = off /\ off \notin free',
         th'[t].pc \in {"copy_val", "insert"} =>
           log'[off].key = th[t].key /\ log'[off].size = "size",
         th'[t].pc = "insert" => log'[off].val = th'[t].val /\ call'[t].off = off
  PROVE  PlaceInv(own)'
<1>1. PICK f, c : f = th'[t] /\ c = call'[t]
  OBVIOUS
<1>2. f.key \in WriteKeys[t]
  BY <1>1, WriterFacts
<1>3. Knows(t, f, c, own)'
  BY <1>1, <1>2, HandKnows
<1>4. Knows(t, th[t], call[t], own)'
  BY <1>1, <1>3
<1>5. QED
  BY <1>4, WritingRest, RestAndOwn

(* Between its searches a writer is in no index call.                      *)
LEMMA BetweenCalls ==
  ASSUME LogInv, NEW t \in Threads,
         th[t].pc \in {"free", "alloc", "copy_key", "copy_val"}
  PROVE  Writes(th[t]) /\ call[t].at = "idle"
<1>1. Writes(th[t])
  BY ThreadFacts, OperationFields DEF OpControl, GetPcs, Writes
<1>2. QED
  BY <1>1, ThreadFacts, NoCallFrame DEF CallControl, HitPcs

LEMMA CopyKeyPlaces ==
  ASSUME LogInv, BucketsApart, NEW own, PlaceInv(own), NEW t \in Threads, CopyKey(t)
  PROVE  PlaceInv(own)' /\ Writes(th[t]) /\ \E off : Writing(t, off)
<1>0. PICK off : off = th[t].off
  OBVIOUS
<1>1. th[t].pc = "copy_key" /\ UNCHANGED <<entries, link, free>> /\ call' = call
  BY DEF CopyKey, At, index
<1>2. Writes(th[t]) /\ call[t].at = "idle"
  BY <1>1, BetweenCalls
<1>3. Goes(t, "copy_val")
  BY GoesFacts DEF CopyKey, Goto
<1>4. off \in Heap[t] \ free /\ NoPlaceFor(off) /\ NoPlaceOf(th[t].key)
  BY <1>0, <1>1, <1>2, WriterFacts DEF Holding, InHands, FillPcs, Placed
<1>5. off \in Offsets /\ log \in [Offsets \cup {0} -> LogEntries]
  BY <1>0, <1>1, ThreadFacts DEF BlockControl, FillPcs, LogInv, LogTypeOK
<1>6. /\ log'[off].size = "size" /\ log'[off].key = th[t].key
      /\ \A l \in Offsets \ {off} : log'[l] = log[l]
  BY <1>0, <1>5 DEF CopyKey, LogEntries
<1>7. Writing(t, off)
  BY <1>0, <1>1, <1>3, <1>4, <1>6 DEF Writing, Goes
<1>8. AtHome(th'[t], call'[t], own)
  BY <1>1, <1>2, WithinFacts DEF AtHome
<1>9. QED
  BY <1>0, <1>1, <1>2, <1>3, <1>4, <1>6, <1>7, <1>8, HandPlaces DEF Goes, InHands, FillPcs

LEMMA CopyValPlaces ==
  ASSUME LogInv, BucketsApart, NEW own, PlaceInv(own), NEW t \in Threads, CopyVal(t)
  PROVE  PlaceInv(own)' /\ Writes(th[t]) /\ \E off : Writing(t, off)
<1>0. PICK off : off = th[t].off
  OBVIOUS
<1>1. th[t].pc = "copy_val" /\ UNCHANGED <<entries, link, free>>
  BY DEF CopyVal, At
<1>2. Writes(th[t]) /\ call[t].at = "idle"
  BY <1>1, BetweenCalls
<1>3. Goes(t, "insert")
  BY <1>0, GoesFacts DEF CopyVal, Goto
<1>4. /\ off \in Heap[t] \ free /\ NoPlaceFor(off) /\ NoPlaceOf(th[t].key)
      /\ log[off].key = th[t].key /\ log[off].size = "size"
  BY <1>0, <1>1, <1>2, WriterFacts DEF Holding, InHands, FillPcs, Placed
<1>5. off \in Offsets /\ log \in [Offsets \cup {0} -> LogEntries]
  BY <1>0, <1>1, ThreadFacts DEF BlockControl, FillPcs, LogInv, LogTypeOK
<1>6. /\ log'[off].size = "size" /\ log'[off].key = th[t].key /\ log'[off].val = th[t].val
      /\ \A l \in Offsets \ {off} : log'[l] = log[l]
  BY <1>0, <1>4, <1>5 DEF CopyVal, LogEntries
<1>7. /\ call'[t] = Frame("scan", th[t].main, HashOf[th[t].key], off)
      /\ \A u \in Threads \ {t} : call'[u] = call[u]
  BY <1>0, ThreadFacts DEF CopyVal
<1>8. /\ call'[t].at = "scan" /\ call'[t].bkt = th[t].main
      /\ call'[t].hash = HashOf[th[t].key] /\ call'[t].off = off
  BY <1>0, <1>7 DEF Frame
<1>9. Writing(t, off)
  BY <1>0, <1>1, <1>3, <1>4, <1>6, <1>7 DEF Writing, Goes
<1>10. AtHome(th'[t], call'[t], own)
  BY <1>2, <1>3, <1>8, WriterFacts DEF AtHome, Goes
<1>11. QED
  BY <1>0, <1>1, <1>2, <1>3, <1>4, <1>6, <1>8, <1>9, <1>10, HandPlaces DEF Goes, InHands, FillPcs

LEMMA FreeBlockPlaces ==
  ASSUME LogInv, BucketsApart, NEW own, PlaceInv(own), NEW t \in Threads, FreeBlock(t)
  PROVE  PlaceInv(own)' /\ Writes(th[t]) /\ \E off : Writing(t, off)
<1>0. PICK off : off = th[t].off
  OBVIOUS
<1>1. th[t].pc = "free" /\ UNCHANGED <<entries, link>> /\ call' = call
  BY DEF FreeBlock, At, index
<1>2. Writes(th[t]) /\ call[t].at = "idle"
  BY <1>1, BetweenCalls
<1>3. /\ th'[t].pc \in {"alloc", "unlock"} /\ th'[t].key = th[t].key
      /\ \A u \in Threads \ {t} : th'[u] = th[u]
  BY <1>0, ThreadFacts, OperationFields DEF FreeBlock
<1>4. off \in Heap[t] /\ NoPlaceFor(off) /\ NoPlaceOf(th[t].key)
  BY <1>0, <1>1, <1>2, WriterFacts DEF Holding, InHands, FillPcs, Placed
<1>5. \A l \in Offsets \ {off} : log'[l] = log[l] /\ (l \in free' <=> l \in free)
  <2>1. log \in [Offsets \cup {0} -> LogEntries]
    BY DEF LogInv, LogTypeOK
  <2>2. QED
    BY <1>0, <2>1 DEF FreeBlock
<1>6. Writing(t, off)
  BY <1>0, <1>1, <1>3, <1>4, <1>5 DEF Writing
<1>7. AtHome(th'[t], call'[t], own)
  BY <1>1, <1>2, WithinFacts DEF AtHome
<1>8. th'[t].pc \notin InHands
  BY <1>3 DEF InHands, FillPcs
<1>9. QED
  BY <1>0, <1>1, <1>2, <1>3, <1>4, <1>6, <1>7, <1>8, HandPlaces

LEMMA AllocatePlaces ==
  ASSUME LogInv, BucketsApart, NEW own, PlaceInv(own), NEW t \in Threads, Allocate(t)
  PROVE  PlaceInv(own)' /\ Writes(th[t]) /\ \E off : Writing(t, off)
<1>1. /\ th[t].pc = "alloc" /\ UNCHANGED <<entries, link>> /\ call' = call /\ log' = log
  BY DEF Allocate, At, index
<1>2. Writes(th[t]) /\ call[t].at = "idle"
  BY <1>1, BetweenCalls
<1>3. PICK off \in free \cap Heap[t] :
        /\ free' = free \ {off}
        /\ th' = [th EXCEPT ![t] = [th[t] EXCEPT !.pc = "copy_key", !.off = off]]
  BY DEF Allocate
<1>4. /\ th'[t].pc = "copy_key" /\ th'[t].key = th[t].key /\ th'[t].off = off
      /\ \A u \in Threads \ {t} : th'[u] = th[u]
  BY <1>3, ThreadFacts, OperationFields
<1>5. NoPlaceFor(off)
  BY <1>3 DEF PlaceInv, SoundPlaces, SoundPlace, NoPlaceFor
<1>6. NoPlaceOf(th[t].key)
  BY <1>1, <1>2, WriterFacts DEF Holding, Placed
<1>7. Writing(t, off)
  BY <1>1, <1>3, <1>4, <1>5 DEF Writing
<1>8. AtHome(th'[t], call'[t], own)
  BY <1>1, <1>2, WithinFacts DEF AtHome
<1>9. QED
  BY <1>1, <1>2, <1>3, <1>4, <1>6, <1>7, <1>8, HandPlaces DEF InHands, FillPcs

------------------------------------------------------------------------------
(* Steps that write one slot of the chain that a writer has locked: the    *)
(* slot is left empty, or leads to the writer's block.                     *)
Filled(t, c, i) ==
  /\ OffOf(c, i) \in (Heap[t] \cap Offsets) \ free /\ Complete(OffOf(c, i))
  /\ match_index_entry_tag(entries[c][i].tag, HashOf[KeyOf(c, i)])

Slotting(t, own, b, i) ==
  /\ b \in Buckets /\ i \in Slots /\ own[b] = th[t].main
  /\ UNCHANGED <<link, log, free>>
  /\ \A d \in Buckets, j \in Slots : ~(d = b /\ j = i) => entries'[d][j] = entries[d][j]
  /\ \A u \in Threads \ {t} : th'[u] = th[u] /\ call'[u] = call[u]
  /\ Tagged(b, i)' => Filled(t, b, i)' /\ KeyOf(b, i)' = th[t].key /\ NoPlaceOf(th[t].key)

(* The places of a writer's chain lead to blocks of its own.               *)
LEMMA OwnPlace ==
  ASSUME LogInv, BucketsApart, NEW own, PlaceInv(own), NEW t \in Threads, Writes(th[t]),
         NEW b \in Buckets, NEW i \in Slots, own[b] = th[t].main, Tagged(b, i)
  PROVE  OffOf(b, i) \in (Heap[t] \cap Offsets) \ free /\ KeyOf(b, i) \in WriteKeys[t]
<1>1. /\ OffOf(b, i) \in Offsets \ free /\ Main(KeyOf(b, i)) = th[t].main
      /\ \E u \in Threads : KeyOf(b, i) \in WriteKeys[u] /\ OffOf(b, i) \in Heap[u]
  BY DEF PlaceInv, SoundPlaces, SoundPlace
<1>2. PICK u \in Threads : KeyOf(b, i) \in WriteKeys[u] /\ OffOf(b, i) \in Heap[u]
  BY <1>1
<1>3. th[t].key \in WriteKeys[t] /\ th[t].main = Main(th[t].key)
  BY WriterFacts
<1>4. u = t
  BY <1>1, <1>2, <1>3 DEF BucketsApart
<1>5. QED
  BY <1>1, <1>2, <1>4

LEMMA SlotsKept ==
  ASSUME NEW own, NEW t \in Threads, NEW b, NEW i, Slotting(t, own, b, i),
         NEW d \in Buckets, NEW j \in Slots, ~(d = b /\ j = i)
  PROVE  /\ Tagged(d, j)' <=> Tagged(d, j)
         /\ OffOf(d, j)' = OffOf(d, j) /\ KeyOf(d, j)' = KeyOf(d, j)
BY DEF Slotting, Tagged, OffOf, KeyOf

LEMMA OthersSlotted ==
  ASSUME LogInv, BucketsApart, NEW own, PlaceInv(own), NEW t \in Threads, Writes(th[t]),
         NEW b, NEW i, Slotting(t, own, b, i),
         NEW u \in Threads \ {t}, NEW o, NEW c, o = th[u], c = call[u]
  PROVE  Knows(u, o, c, own)'
<1>1. link' = link /\ log' = log /\ free' = free /\ b \in Buckets /\ i \in Slots
  BY DEF Slotting
<1>2. SUFFICES ASSUME Writes(o)
               PROVE  Knows(u, o, c, own)'
  BY DEF Knows
<1>3. /\ o.key \in WriteKeys[u] /\ AtHome(o, c, own) /\ Searching(o, c, own)
      /\ Holding(u, o, c) /\ Inserting(o, c)
      /\ Heap[u] \cap Heap[t] = {} /\ o.key # th[t].key /\ o.main # th[t].main
      /\ c.at \in Within => c.bkt \in Buckets
      /\ c.at \in {"found", "store", "publish"} => c.index \in Slots
  BY <1>2, WriterFacts, ApartFacts
<1>4. \A d \in Buckets : own[d] = o.main => d # b
  BY <1>3 DEF Slotting
<1>5. c.at \in Within => c.bkt # b
  BY <1>3, <1>4 DEF AtHome
<1>6. /\ c.at \in {"found", "store", "publish"} =>
           entries'[c.bkt][c.index] = entries[c.bkt][c.index]
      /\ c.at = "store" => (Tagged(c.bkt, c.index)' <=> Tagged(c.bkt, c.index))
  BY <1>3, <1>5, WithinFacts DEF Slotting, Tagged
<1>7. Tagged(b, i)' => KeyOf(b, i)' = th[t].key /\ OffOf(b, i)' \in Heap[t]
  BY DEF Slotting, Filled
<1>8. NoPlaceOf(o.key) => NoPlaceOf(o.key)'
  BY <1>3, <1>7, SlotsKept DEF NoPlaceOf
<1>9. o.off \in Heap[u] /\ NoPlaceFor(o.off) => NoPlaceFor(o.off)'
  BY <1>3, <1>7, SlotsKept DEF NoPlaceFor
<1>10. AtHome(o, c, own)'
  BY <1>1, <1>3 DEF AtHome
<1>11. Searching(o, c, own)'
  <2>1. o.pc \in {"compare", "unindex"} => c.at = "found"
    BY ThreadFacts DEF CallControl, HitPcs
  <2>2. c.at \in {"probe", "found"} =>
          \A d \in Buckets, j \in Slots :
            Tagged(d, j)' /\ own[d] = o.main /\ Before(d, j, c) => KeyOf(d, j)' # o.key
    BY <1>3, <1>4, SlotsKept DEF Searching
  <2>3. c.at = "found" =>
          match_index_entry_tag(entries'[c.bkt][c.index].tag, HashOf[o.key])
    BY <1>3, <1>6 DEF Searching
  <2>4. o.pc \in {"compare", "unindex"} => o.off = entries'[c.bkt][c.index].offset
    BY <1>3, <1>6, <2>1 DEF Searching, OffOf
  <2>5. QED
    BY <1>1, <1>3, <1>8, <2>2, <2>3, <2>4 DEF Searching, OffOf
<1>12. Holding(u, o, c)'
  <2>1. o.pc \in InHands => o.off \in Heap[u]
    BY <1>3 DEF Holding
  <2>2. QED
    BY <1>1, <1>3, <1>8, <1>9, <2>1 DEF Holding
<1>13. Inserting(o, c)'
  <2>1. ASSUME Placed(o, c)
        PROVE  \E d \in Buckets, j \in Slots : Tagged(d, j)' /\ OffOf(d, j)' = o.off
    <3>1. PICK d \in Buckets, j \in Slots : Tagged(d, j) /\ OffOf(d, j) = o.off
      BY <1>3, <2>1 DEF Inserting
    <3>2. o.off \in Heap[u]
      BY <1>3, <2>1 DEF Holding, InHands, FillPcs, Placed
    <3>3. ~(d = b /\ j = i)
      BY <1>1, <1>3, <3>1, <3>2, OwnPlace DEF Slotting
    <3>4. QED
      BY <3>1, <3>3, SlotsKept
  <2>2. QED
    BY <1>1, <1>3, <1>6, <2>1 DEF Inserting
<1>14. QED
  BY <1>3, <1>10, <1>11, <1>12, <1>13 DEF Knows

LEMMA SlottingRest ==
  ASSUME LogInv, BucketsApart, NEW own, PlaceInv(own), NEW t \in Threads, Writes(th[t]),
         NEW b, NEW i, Slotting(t, own, b, i)
  PROVE  TheRest(t, own)'
<1>1. /\ link' = link /\ log' = log /\ free' = free /\ b \in Buckets /\ i \in Slots
      /\ own[b] = th[t].main
  BY DEF Slotting
<1>2. OwnedChains(own)'
  BY <1>1 DEF PlaceInv, OwnedChains, LinksTo
<1>3. /\ th[t].key \in WriteKeys[t] /\ th[t].main = Main(th[t].key)
      /\ own[b] # NULL
  <2>1. th[t].main # NULL
    BY WriterFacts, HashAssumption, BucketAssumption DEF Mains, NULL
  <2>2. QED
    BY <1>1, <2>1, WriterFacts
<1>4. SoundPlaces(own)'
  <2>1. ASSUME NEW d \in Buckets, NEW j \in Slots, Tagged(d, j)'
        PROVE  SoundPlace(own, d, j)'
    <3>1. CASE d = b /\ j = i
      <4>1. Filled(t, b, i)' /\ KeyOf(b, i)' = th[t].key
        BY <2>1, <3>1 DEF Slotting
      <4>2. SoundPlace(own, b, i)'
        BY <1>1, <1>3, <4>1 DEF SoundPlace, Filled
      <4>3. QED
        BY <3>1, <4>2
    <3>2. CASE ~(d = b /\ j = i)
      <4>1. SoundPlace(own, d, j)
        BY <2>1, <3>2, SlotsKept DEF PlaceInv, SoundPlaces
      <4>2. entries'[d][j] = entries[d][j]
        BY <3>2 DEF Slotting
      <4>3. QED
        BY <1>1, <4>1, <4>2 DEF SoundPlace, Complete, OffOf, KeyOf
    <3>3. QED
      BY <3>1, <3>2
  <2>2. QED
    BY <2>1 DEF SoundPlaces
<1>5. KeysOnce'
  <2>1. ASSUME NEW d \in Buckets, NEW j \in Slots, Tagged(d, j)', ~(d = b /\ j = i),
               Tagged(b, i)'
        PROVE  KeyOf(d, j)' # KeyOf(b, i)'
    BY <2>1, SlotsKept DEF Slotting, NoPlaceOf
  <2>2. KeysOnce
    BY DEF PlaceInv
  <2>3. QED
    BY <2>1, <2>2, SlotsKept DEF KeysOnce
<1>6. ASSUME NEW u \in Threads \ {t}
      PROVE  Knows(u, th[u], call[u], own)'
  <2>1. PICK o, c : o = th[u] /\ c = call[u]
    OBVIOUS
  <2>2. Knows(u, o, c, own)' /\ th'[u] = o /\ call'[u] = c
    BY <2>1, OthersSlotted DEF Slotting
  <2>3. QED
    BY <2>2
<1>7. QED
  BY <1>2, <1>4, <1>5, <1>6 DEF TheRest

LEMMA UnindexPlaces ==
  ASSUME LogInv, BucketsApart, NEW own, PlaceInv(own), NEW t \in Threads, Unindex(t)
  PROVE  /\ PlaceInv(own)' /\ Writes(th[t])
         /\ th'[t].pc = "free" /\ th'[t].off = th[t].off
         /\ \E b, i : Slotting(t, own, b, i) /\ OffOf(b, i) = th[t].off
<1>0. PICK b, i : b = call[t].bkt /\ i = call[t].index
  OBVIOUS
<1>1. th[t].pc = "unindex" /\ UNCHANGED <<link, log, free>>
  BY DEF Unindex, At
<1>2. Writes(th[t]) /\ call[t].at = "found"
  BY <1>1, ThreadFacts, OperationFields DEF OpControl, GetPcs, Writes, CallControl, HitPcs
<1>3. /\ b \in Buckets /\ i \in Slots /\ own[b] = th[t].main /\ Tagged(b, i)
      /\ th[t].off = OffOf(b, i) /\ log[th[t].off].key = th[t].key
      /\ th[t].key \in WriteKeys[t]
  BY <1>0, <1>1, <1>2, WriterFacts, WithinFacts, MatchTagged DEF AtHome, Searching
<1>4. Goes(t, "free")
  BY GoesFacts DEF Unindex, Goto
<1>5. call'[t].at = "idle" /\ \A u \in Threads \ {t} : call'[u] = call[u]
  BY ThreadFacts, NoCallFrame DEF Unindex
<1>6. /\ entries'[b][i] = EmptyEntry
      /\ \A d \in Buckets, j \in Slots : ~(d = b /\ j = i) => entries'[d][j] = entries[d][j]
  <2>1. entries \in
          [Buckets -> [Slots -> [tag : Tags \cup {0}, offset : Offsets \cup {0}]]]
    BY DEF LogInv, LogTypeOK, TypeOK
  <2>2. QED
    BY <1>0, <1>3, <2>1 DEF Unindex
<1>7. ~Tagged(b, i)'
  BY <1>6 DEF Tagged, EmptyEntry
<1>8. Slotting(t, own, b, i)
  BY <1>1, <1>3, <1>4, <1>5, <1>6, <1>7 DEF Slotting, Goes
<1>9. ASSUME NEW d \in Buckets, NEW j \in Slots, Tagged(d, j)'
      PROVE  KeyOf(d, j)' # th[t].key /\ OffOf(d, j)' # th[t].off
  <2>1. ~(d = b /\ j = i)
    BY <1>7, <1>9
  <2>2. Tagged(d, j) /\ KeyOf(d, j)' = KeyOf(d, j) /\ OffOf(d, j)' = OffOf(d, j)
    BY <1>8, <1>9, <2>1, SlotsKept
  <2>3. KeyOf(b, i) = th[t].key
    BY <1>3 DEF KeyOf
  <2>4. KeyOf(d, j) # th[t].key
    BY <1>3, <2>1, <2>2, <2>3 DEF PlaceInv, KeysOnce
  <2>5. QED
    BY <1>3, <2>2, <2>4 DEF KeyOf
<1>10. PICK f, c : f = th'[t] /\ c = call'[t]
  OBVIOUS
<1>11. /\ f.pc = "free" /\ f.key = th[t].key /\ f.off = th[t].off /\ c.at = "idle"
  BY <1>4, <1>5, <1>10 DEF Goes
<1>12. NoPlaceOf(f.key)' /\ NoPlaceFor(f.off)'
  BY <1>9, <1>11 DEF NoPlaceOf, NoPlaceFor
<1>13. f.off \in Heap[t] \ free'
  BY <1>1, <1>2, <1>3, <1>11, OwnPlace
<1>14. Knows(t, f, c, own)'
  <2>1. AtHome(f, c, own)' /\ Searching(f, c, own)'
    BY <1>11, WithinFacts DEF AtHome, Searching
  <2>2. Holding(t, f, c)' /\ Inserting(f, c)'
    BY <1>11, <1>12, <1>13 DEF Holding, Inserting, Placed
  <2>3. QED
    BY <1>3, <1>11, <2>1, <2>2 DEF Knows
<1>15. Knows(t, th[t], call[t], own)'
  BY <1>10, <1>14
<1>16. QED
  BY <1>2, <1>3, <1>4, <1>8, <1>15, SlottingRest, RestAndOwn DEF Goes

(* What an insert knows while it stores.                                   *)
LEMMA InsertFacts ==
  ASSUME LogInv, NEW own, PlaceInv(own), NEW t \in Threads, Writes(th[t]),
         RunIndexCall(t), call[t].at \in {"store", "publish"}
  PROVE  /\ th[t].pc = "insert" /\ call[t].bkt \in Buckets /\ call[t].index \in Slots
         /\ own[call[t].bkt] = th[t].main /\ call[t].hash = HashOf[th[t].key]
         /\ call[t].off = th[t].off /\ th[t].off \in (Heap[t] \cap Offsets) \ free
         /\ NoPlaceOf(th[t].key) /\ NoPlaceFor(th[t].off)
         /\ log[th[t].off].key = th[t].key /\ Complete(th[t].off)
<1>1. th[t].pc = "insert" /\ call[t].at \in Within
  BY CallAts, WithinFacts DEF SearchAts
<1>2. /\ call[t].bkt \in Buckets /\ call[t].index \in Slots
      /\ own[call[t].bkt] = th[t].main /\ call[t].hash = HashOf[th[t].key]
  BY <1>1, WriterFacts DEF AtHome
<1>3. /\ th[t].off \in Heap[t] \ free /\ NoPlaceOf(th[t].key) /\ NoPlaceFor(th[t].off)
      /\ log[th[t].off].key = th[t].key /\ log[th[t].off].size = "size"
  BY <1>1, WriterFacts DEF Holding, Placed, InHands, FillPcs
<1>4. call[t].off = th[t].off /\ log[th[t].off].val = th[t].val
  BY <1>1, WriterFacts DEF Inserting
<1>5. th[t].off \in Offsets /\ th[t].val \in Vals /\ th[t].key \in Keys
  BY <1>1, ThreadFacts, WriterFacts DEF BlockControl, FillPcs, OpControl, Writes
<1>6. QED
  BY <1>1, <1>2, <1>3, <1>4, <1>5 DEF Complete

LEMMA InsertStorePlaces ==
  ASSUME LogInv, BucketsApart, NEW own, PlaceInv(own), NEW t \in Threads, Writes(th[t]),
         RunIndexCall(t), InsertStore(t)
  PROVE  PlaceInv(own)' /\ \E b, i : Slotting(t, own, b, i) /\ ~Tagged(b, i)
<1>0. PICK b, i : b = call[t].bkt /\ i = call[t].index
  OBVIOUS
<1>1. call[t].at = "store" /\ UNCHANGED <<link, log, free>> /\ th' = th
  BY CallAts DEF InsertStore, AtSlot
<1>2. /\ th[t].pc = "insert" /\ b \in Buckets /\ i \in Slots /\ own[b] = th[t].main
      /\ call[t].off = th[t].off /\ th[t].off \in (Heap[t] \cap Offsets) \ free
      /\ NoPlaceOf(th[t].key) /\ NoPlaceFor(th[t].off) /\ call[t].hash = HashOf[th[t].key]
  BY <1>0, <1>1, InsertFacts
<1>3. ~Tagged(b, i)
  BY <1>0, <1>1, WriterFacts DEF Inserting
<1>4. /\ entries'[b][i] = [tag |-> 0, offset |-> th[t].off]
      /\ \A d \in Buckets, j \in Slots : ~(d = b /\ j = i) => entries'[d][j] = entries[d][j]
  <2>1. entries \in
          [Buckets -> [Slots -> [tag : Tags \cup {0}, offset : Offsets \cup {0}]]]
    BY DEF LogInv, LogTypeOK, TypeOK
  <2>2. entries' = [entries EXCEPT ![b][i] = [tag |-> 0, offset |-> th[t].off]]
    BY <1>0, <1>2, <1>3 DEF InsertStore, Entry, Tagged
  <2>3. QED
    BY <1>2, <2>1, <2>2
<1>5. /\ call'[t].at = "publish" /\ call'[t].bkt = b /\ call'[t].index = i
      /\ call'[t].off = th[t].off /\ call'[t].hash = HashOf[th[t].key]
      /\ \A u \in Threads \ {t} : call'[u] = call[u]
  BY <1>0, <1>2, CallAts DEF InsertStore, Frames
<1>6. ~Tagged(b, i)'
  BY <1>4 DEF Tagged
<1>7. Slotting(t, own, b, i)
  BY <1>1, <1>2, <1>4, <1>5, <1>6 DEF Slotting
<1>8. PICK f, c : f = th'[t] /\ c = call'[t]
  OBVIOUS
<1>9. /\ f = th[t] /\ c.at = "publish" /\ c.bkt = b /\ c.index = i
      /\ c.off = f.off /\ c.hash = HashOf[f.key]
  BY <1>1, <1>5, <1>8
<1>10. NoPlaceOf(th[t].key)' /\ NoPlaceFor(th[t].off)'
  <2>1. NoPlaceOf(f.key)' /\ NoPlaceFor(f.off)'
    BY <1>2, <1>6, <1>7, <1>9, SlotsKept DEF NoPlaceOf, NoPlaceFor
  <2>2. QED
    BY <1>8, <2>1
<1>11. Knows(t, f, c, own)'
  <2>1. AtHome(f, c, own)'
    BY <1>2, <1>9 DEF AtHome
  <2>2. Searching(f, c, own)'
    BY <1>2, <1>9 DEF Searching
  <2>3. Holding(t, f, c)'
    <3>1. NoPlaceOf(f.key)' /\ NoPlaceFor(f.off)'
      BY <1>8, <1>10
    <3>2. log[f.off].key = f.key /\ log[f.off].size = "size"
      BY <1>1, <1>9, InsertFacts DEF Complete
    <3>3. QED
      BY <1>1, <1>2, <1>9, <3>1, <3>2 DEF Holding
  <2>4. Inserting(f, c)'
    <3>1. log[f.off].val = f.val
      BY <1>2, <1>9, WriterFacts DEF Inserting
    <3>2. QED
      BY <1>1, <1>4, <1>9, <3>1 DEF Inserting, Placed
  <2>5. f.key \in WriteKeys[t]
    BY <1>9, WriterFacts
  <2>6. QED
    BY <2>1, <2>2, <2>3, <2>4, <2>5 DEF Knows
<1>12. Knows(t, th[t], call[t], own)'
  BY <1>8, <1>11
<1>13. QED
  BY <1>3, <1>7, <1>12, SlottingRest, RestAndOwn

LEMMA InsertPublishPlaces ==
  ASSUME LogInv, BucketsApart, NEW own, PlaceInv(own), NEW t \in Threads, Writes(th[t]),
         RunIndexCall(t), InsertPublish(t)
  PROVE  PlaceInv(own)' /\ \E b, i : Slotting(t, own, b, i) /\ ~Tagged(b, i)
<1>0. PICK b, i : b = call[t].bkt /\ i = call[t].index
  OBVIOUS
<1>1. call[t].at = "publish" /\ UNCHANGED <<link, log, free>> /\ th' = th
  BY CallAts DEF InsertPublish, AtSlot
<1>2. /\ th[t].pc = "insert" /\ b \in Buckets /\ i \in Slots /\ own[b] = th[t].main
      /\ call[t].hash = HashOf[th[t].key]
      /\ call[t].off = th[t].off /\ th[t].off \in (Heap[t] \cap Offsets) \ free
      /\ NoPlaceOf(th[t].key) /\ NoPlaceFor(th[t].off)
      /\ log[th[t].off].key = th[t].key /\ Complete(th[t].off)
  BY <1>0, <1>1, InsertFacts
<1>3. entries[b][i] = [tag |-> 0, offset |-> th[t].off]
  BY <1>0, <1>1, WriterFacts DEF Inserting
<1>4. /\ entries'[b][i].tag = lookup_key_tag_hash_portion(HashOf[th[t].key])
      /\ entries'[b][i].offset = th[t].off
      /\ \A d \in Buckets, j \in Slots : ~(d = b /\ j = i) => entries'[d][j] = entries[d][j]
  <2>1. entries \in
          [Buckets -> [Slots -> [tag : Tags \cup {0}, offset : Offsets \cup {0}]]]
    BY DEF LogInv, LogTypeOK, TypeOK
  <2>2. QED
    BY <1>0, <1>2, <1>3, <2>1 DEF InsertPublish
<1>5. /\ call'[t].at = "inserted" /\ \A u \in Threads \ {t} : call'[u] = call[u]
  BY CallAts DEF InsertPublish, Frames
<1>6. Tagged(b, i)' /\ OffOf(b, i)' = th[t].off /\ KeyOf(b, i)' = th[t].key
  <2>1. lookup_key_tag_hash_portion(HashOf[th[t].key]) \in Tags
    BY WriterFacts, BucketAssumption, TagRange
  <2>2. 0 \notin Tags
    BY DEF Tags
  <2>3. QED
    BY <1>1, <1>2, <1>4, <2>1, <2>2 DEF Tagged, OffOf, KeyOf
<1>7. Filled(t, b, i)'
  BY <1>1, <1>2, <1>4, <1>6 DEF Filled, match_index_entry_tag, Complete
<1>8. Slotting(t, own, b, i)
  BY <1>1, <1>2, <1>4, <1>5, <1>6, <1>7 DEF Slotting
<1>9. PICK f, c : f = th'[t] /\ c = call'[t]
  OBVIOUS
<1>10. f = th[t] /\ c.at = "inserted"
  BY <1>1, <1>5, <1>9
<1>11. Knows(t, f, c, own)'
  <2>1. AtHome(f, c, own)' /\ Searching(f, c, own)'
    BY <1>2, <1>10, WithinFacts DEF AtHome, Searching
  <2>2. Placed(f, c) /\ f.off \in Heap[t] \ free'
    BY <1>1, <1>2, <1>10 DEF Placed
  <2>3. Holding(t, f, c)'
    BY <1>1, <1>2, <1>10, <2>2 DEF Holding, Complete
  <2>4. Inserting(f, c)'
    <3>1. log[f.off].val = f.val
      BY <1>2, <1>10, WriterFacts DEF Inserting
    <3>2. QED
      BY <1>1, <1>2, <1>6, <1>10, <3>1, WithinFacts DEF Inserting
  <2>5. f.key \in WriteKeys[t]
    BY <1>10, WriterFacts
  <2>6. QED
    BY <2>1, <2>3, <2>4, <2>5 DEF Knows
<1>12. Knows(t, th[t], call[t], own)'
  BY <1>9, <1>11
<1>13. ~Tagged(b, i)
  BY <1>3 DEF Tagged
<1>14. QED
  BY <1>8, <1>12, <1>13, SlottingRest, RestAndOwn

------------------------------------------------------------------------------
(* The spare that is linked was in no chain, so it is empty, and it joins  *)
(* the chain of the bucket it is linked to.                                *)
Joins(t, own, joined, k, s) ==
  /\ k \in Buckets /\ s \in Spares /\ k < s /\ link[k] = 0 /\ own[k] = th[t].main
  /\ own[s] = NULL /\ joined = [own EXCEPT ![s] = own[k]]
  /\ link'[k] # 0 /\ k + link'[k] = s
  /\ \A b \in Buckets \ {k} : link'[b] = link[b]
  /\ UNCHANGED <<entries, log, free, th>>
  /\ \A u \in Threads \ {t} : call'[u] = call[u]

LEMMA LinkJoins ==
  ASSUME LogInv, NEW own, PlaceInv(own), NEW t \in Threads, Writes(th[t]),
         RunIndexCall(t), InsertLink(t)
  PROVE  \E joined, k, s :
           /\ Joins(t, own, joined, k, s)
           /\ call'[t].at = "scan" /\ call'[t].bkt = s
           /\ call'[t].hash = call[t].hash /\ call'[t].off = call[t].off
<1> USE DEF ChainInv, ClaimInv
<1>0. PICK k, s : k = call[t].bkt /\ s = call[t].spare
  OBVIOUS
<1>1. /\ call[t].at = "link" /\ th[t].pc = "insert" /\ call[t].at \in Within
      /\ UNCHANGED <<entries, log, free, th>>
  BY CallAts, WithinFacts DEF InsertLink, SearchAts
<1>2. /\ k \in Buckets /\ s \in Spares /\ k < s /\ s \in Buckets
      /\ \A b \in Buckets : ~LinksTo(b, s)
  BY <1>0, <1>1, WriterFacts, SpareInBuckets DEF LogInv, HandsExclusive
<1>3. link[k] = 0 /\ own[k] = th[t].main
  BY <1>0, <1>1, WriterFacts DEF AtHome
<1>4. own[s] = NULL
  BY <1>2 DEF PlaceInv, OwnedChains
<1>5. (s - k) % LinkSpan = s - k /\ s - k # 0 /\ k + (s - k) = s
  <2>1. s - k \in Nat /\ s - k < LinkSpan /\ s - k # 0 /\ k + (s - k) = s
    BY <1>2, HashAssumption, BucketAssumption, PoolFits DEF Buckets
  <2>2. QED
    BY <2>1, ModSmall, PoolFits
<1>6. /\ link'[k] # 0 /\ k + link'[k] = s
      /\ \A b \in Buckets \ {k} : link'[b] = link[b]
  BY <1>0, <1>2, <1>5 DEF InsertLink, LogInv, TypeOK
<1>7. /\ call'[t].at = "scan" /\ call'[t].bkt = s
      /\ call'[t].hash = call[t].hash /\ call'[t].off = call[t].off
      /\ \A u \in Threads \ {t} : call'[u] = call[u]
  BY <1>0, CallAts DEF InsertLink, Frames
<1>8. Joins(t, own, [own EXCEPT ![s] = own[k]], k, s)
  BY <1>1, <1>2, <1>3, <1>4, <1>6, <1>7 DEF Joins
<1>9. QED
  BY <1>7, <1>8

LEMMA JoinedFacts ==
  ASSUME LogInv, NEW own, PlaceInv(own), NEW t \in Threads, Writes(th[t]),
         NEW joined, NEW k, NEW s, Joins(t, own, joined, k, s)
  PROVE  /\ joined \in [Buckets -> Mains \cup {NULL}]
         /\ joined[s] = th[t].main /\ th[t].main # NULL /\ s \in Buckets /\ s # k
         /\ s \notin Mains /\ link[s] = 0
         /\ \A b \in Buckets : b # s => joined[b] = own[b]
         /\ \A j \in Slots : ~Tagged(s, j)
<1>1. th[t].main \in Mains /\ th[t].main # NULL
  BY WriterFacts, HashAssumption, BucketAssumption DEF Mains, NULL
<1>2. s \in Buckets /\ s \notin Mains /\ own[s] = NULL /\ s # k
  BY SpareInBuckets, HashAssumption, BucketAssumption DEF Joins, Mains, Spares, Buckets
<1>3. own \in [Buckets -> Mains \cup {NULL}] /\ link[s] = 0
  BY <1>2 DEF PlaceInv, OwnedChains
<1>4. \A j \in Slots : ~Tagged(s, j)
  BY <1>2 DEF PlaceInv, SoundPlaces, SoundPlace
<1>5. QED
  BY <1>1, <1>2, <1>3, <1>4 DEF Joins

LEMMA JoinedChains ==
  ASSUME LogInv, NEW own, PlaceInv(own), NEW t \in Threads, Writes(th[t]),
         NEW joined, NEW k, NEW s, Joins(t, own, joined, k, s)
  PROVE  OwnedChains(joined)'
<1>1. /\ joined \in [Buckets -> Mains \cup {NULL}]
      /\ joined[s] = th[t].main /\ th[t].main # NULL /\ s \in Buckets /\ s # k
      /\ s \notin Mains /\ link[s] = 0
      /\ \A b \in Buckets : b # s => joined[b] = own[b]
  BY JoinedFacts
<1>2. /\ k \in Buckets /\ s \in Spares /\ k < s /\ link[k] = 0 /\ own[k] = th[t].main
      /\ own[s] = NULL /\ link'[k] # 0 /\ k + link'[k] = s
      /\ \A b \in Buckets \ {k} : link'[b] = link[b]
  BY DEF Joins
<1>3. \A m \in Mains : joined[m] = m
  BY <1>1, SpareInBuckets DEF PlaceInv, OwnedChains
<1>4. ASSUME NEW b \in Buckets, link'[b] # 0
      PROVE  joined[b] # NULL /\ joined[b + link'[b]] = joined[b]
  <2>1. CASE b = k
    BY <1>1, <1>2, <2>1
  <2>2. CASE b # k
    <3>1. link[b] # 0 /\ link'[b] = link[b] /\ b # s
      BY <1>1, <1>2, <1>4, <2>2
    <3>2. own[b] # NULL /\ own[b + link[b]] = own[b]
      BY <3>1 DEF PlaceInv, OwnedChains
    <3>3. b + link[b] \in Buckets
      BY <3>1, SpareInBuckets DEF LogInv, ChainInv, ClaimInv, ChainsDisjoint
    <3>4. QED
      BY <1>1, <1>2, <3>1, <3>2, <3>3
  <2>3. QED
    BY <2>1, <2>2
<1>5. ASSUME NEW r \in Spares, joined[r] # NULL
      PROVE  \E b \in Buckets : link'[b] # 0 /\ b + link'[b] = r
  <2>1. CASE r = s
    BY <1>2, <2>1
  <2>2. CASE r # s
    <3>1. own[r] # NULL
      BY <1>1, <1>5, <2>2, SpareInBuckets
    <3>2. PICK b \in Buckets : LinksTo(b, r)
      BY <3>1 DEF PlaceInv, OwnedChains
    <3>3. QED
      BY <1>2, <3>2 DEF LinksTo
  <2>3. QED
    BY <2>1, <2>2
<1>6. ASSUME NEW b \in Buckets, NEW c \in Buckets,
             joined[b] # NULL, joined[b] = joined[c], b < c
      PROVE  link'[b] # 0 /\ b + link'[b] <= c
  <2>1. \A d \in Buckets : own[d] = own[k] => ~(k < d)
    BY <1>1, <1>2 DEF PlaceInv, OwnedChains
  <2>2. b \in Int /\ c \in Int /\ s \in Int /\ k \in Int /\ b # c
    BY <1>1, <1>2, <1>6 DEF Buckets
  <2>3. CASE b = k
    <3>1. c = s
      BY <1>1, <1>2, <1>6, <2>1, <2>3
    <3>2. QED
      BY <1>2, <2>2, <2>3, <3>1
  <2>4. CASE b = s
    BY <1>1, <1>2, <1>6, <2>1, <2>2, <2>4
  <2>5. CASE b # k /\ b # s /\ c # s
    <3>1. own[b] # NULL /\ own[b] = own[c] /\ link'[b] = link[b]
      BY <1>1, <1>2, <1>6, <2>5
    <3>2. QED
      BY <1>6, <3>1 DEF PlaceInv, OwnedChains
  <2>6. CASE b # k /\ b # s /\ c = s
    <3>1. own[b] = own[k] /\ own[b] # NULL /\ link'[b] = link[b]
      BY <1>1, <1>2, <1>6, <2>6
    <3>2. b < k
      BY <2>1, <2>2, <2>6, <3>1
    <3>3. link[b] # 0 /\ b + link[b] <= k
      BY <1>2, <3>1, <3>2 DEF PlaceInv, OwnedChains
    <3>4. link[b] \in Int
      BY PoolFits DEF LogInv, LogTypeOK, TypeOK
    <3>5. QED
      BY <1>2, <2>2, <2>6, <3>1, <3>3, <3>4
  <2>7. QED
    BY <2>3, <2>4, <2>5, <2>6
<1>7. QED
  BY <1>1, <1>3, <1>4, <1>5, <1>6 DEF OwnedChains, LinksTo

LEMMA OthersJoined ==
  ASSUME LogInv, BucketsApart, NEW own, PlaceInv(own), NEW t \in Threads, Writes(th[t]),
         NEW joined, NEW k, NEW s, Joins(t, own, joined, k, s),
         NEW u \in Threads \ {t}, NEW o, NEW c, o = th[u], c = call[u]
  PROVE  Knows(u, o, c, joined)'
<1>1. UNCHANGED <<entries, log, free>>
  BY DEF Joins
<1>2. /\ s \in Buckets /\ \A b \in Buckets : b # s => joined[b] = own[b]
      /\ \A j \in Slots : ~Tagged(s, j)
  BY JoinedFacts
<1>3. own[s] = NULL /\ own[k] = th[t].main /\ \A b \in Buckets \ {k} : link'[b] = link[b]
  BY DEF Joins
<1>4. SUFFICES ASSUME Writes(o)
               PROVE  Knows(u, o, c, joined)'
  BY DEF Knows
<1>5. /\ o.key \in WriteKeys[u] /\ AtHome(o, c, own) /\ Searching(o, c, own)
      /\ Holding(u, o, c) /\ Inserting(o, c) /\ o.main # th[t].main /\ o.main # NULL
      /\ c.at \in Within => c.bkt \in Buckets
  <2>1. o.main # NULL
    BY <1>4, WriterFacts, HashAssumption, BucketAssumption DEF Mains, NULL
  <2>2. QED
    BY <1>4, <2>1, WriterFacts, ApartFacts
<1>6. AtHome(o, c, joined)'
  <2>1. c.at \in Within => c.bkt # s /\ c.bkt # k
    BY <1>3, <1>5 DEF AtHome
  <2>2. QED
    BY <1>2, <1>3, <1>5, <2>1, WithinFacts DEF AtHome
<1>7. NoPlaceOf(o.key) => NoPlaceOf(o.key)'
  BY <1>1 DEF NoPlaceOf, Tagged, KeyOf, OffOf
<1>8. NoPlaceFor(o.off) => NoPlaceFor(o.off)'
  BY <1>1 DEF NoPlaceFor, Tagged, OffOf
<1>9. Searching(o, c, joined)'
  <2>1. \A d \in Buckets, j \in Slots : Tagged(d, j) => joined[d] = own[d]
    BY <1>2
  <2>2. QED
    BY <1>1, <1>5, <1>7, <2>1 DEF Searching, Tagged, KeyOf, OffOf
<1>10. Holding(u, o, c)'
  BY <1>1, <1>5, <1>7, <1>8 DEF Holding
<1>11. Inserting(o, c)'
  BY <1>1, <1>5 DEF Inserting, Tagged, OffOf
<1>12. QED
  BY <1>5, <1>6, <1>9, <1>10, <1>11 DEF Knows

LEMMA InsertLinkPlaces ==
  ASSUME LogInv, BucketsApart, NEW own, PlaceInv(own), NEW t \in Threads, Writes(th[t]),
         RunIndexCall(t), InsertLink(t)
  PROVE  \E joined : PlaceInv(joined)'
<1>1. PICK joined, k, s :
        /\ Joins(t, own, joined, k, s)
        /\ call'[t].at = "scan" /\ call'[t].bkt = s
        /\ call'[t].hash = call[t].hash /\ call'[t].off = call[t].off
  BY LinkJoins
<1>2. /\ UNCHANGED <<entries, log, free, th>>
      /\ \A u \in Threads \ {t} : call'[u] = call[u]
  BY <1>1 DEF Joins
<1>3. OwnedChains(joined)'
  BY <1>1, JoinedChains
<1>4. SoundPlaces(joined)'
  <2>1. \A d \in Buckets, j \in Slots : Tagged(d, j) => joined[d] = own[d]
    BY <1>1, JoinedFacts
  <2>2. QED
    BY <1>2, <2>1
       DEF PlaceInv, SoundPlaces, SoundPlace, Tagged, OffOf, KeyOf, Complete
<1>5. KeysOnce'
  BY <1>2 DEF PlaceInv, KeysOnce, Tagged, OffOf, KeyOf
<1>6. PICK f, c : f = th[t] /\ c = call'[t]
  OBVIOUS
<1>7. Knows(t, f, c, joined)'
  <2>1. call[t].at = "link" /\ th[t].pc = "insert" /\ call[t].at \in Within
    BY CallAts, WithinFacts DEF InsertLink, SearchAts
  <2>2. c.at = "scan" /\ c.bkt = s /\ c.hash = HashOf[f.key] /\ c.off = f.off
    BY <1>1, <1>6, <2>1, WriterFacts DEF AtHome, Inserting
  <2>3. AtHome(f, c, joined)'
    BY <1>1, <1>6, <2>2, JoinedFacts DEF AtHome
  <2>4. Searching(f, c, joined)'
    BY <1>6, <2>1, <2>2 DEF Searching
  <2>5. NoPlaceOf(f.key)' /\ NoPlaceFor(f.off)'
    BY <1>2, <1>6, <2>1, WriterFacts
       DEF Holding, Placed, InHands, FillPcs, NoPlaceOf, NoPlaceFor, Tagged, KeyOf, OffOf
  <2>6. Holding(t, f, c)'
    <3>1. /\ f.off \in Heap[t] \ free /\ log[f.off].key = f.key
          /\ log[f.off].size = "size"
      BY <1>6, <2>1, WriterFacts DEF Holding, InHands, FillPcs
    <3>2. QED
      BY <1>2, <2>5, <3>1 DEF Holding
  <2>7. Inserting(f, c)'
    BY <1>2, <1>6, <2>1, <2>2, WriterFacts DEF Inserting, Placed
  <2>8. f.key \in WriteKeys[t]
    BY <1>6, WriterFacts
  <2>9. QED
    BY <2>3, <2>4, <2>6, <2>7, <2>8 DEF Knows
<1>8. ASSUME NEW u \in Threads
      PROVE  Knows(u, th[u], call[u], joined)'
  <2>1. CASE u = t
    BY <1>2, <1>6, <1>7, <2>1
  <2>2. CASE u # t
    <3>1. PICK o, d : o = th[u] /\ d = call[u]
      OBVIOUS
    <3>2. Knows(u, o, d, joined)' /\ th'[u] = o /\ call'[u] = d
      BY <1>1, <1>2, <2>2, <3>1, OthersJoined
    <3>3. QED
      BY <3>2
  <2>3. QED
    BY <2>1, <2>2
<1>9. PlaceInv(joined)'
  BY <1>3, <1>4, <1>5, <1>8 DEF PlaceInv
<1>10. QED
  BY <1>9

------------------------------------------------------------------------------
(* Every step keeps the places.                                            *)
LEMMA IndexCallPlaces ==
  ASSUME LogInv, BucketsApart, NEW own, PlaceInv(own), NEW t \in Threads, Writes(th[t]),
         RunIndexCall(t)
  PROVE  \E joined : PlaceInv(joined)'
<1>1. IndexStep(t) /\ th' = th /\ UNCHANGED <<log, free>>
  BY CallAts
<1>2. ~DeleteClear(t)
  BY CallAts DEF DeleteClear, AtSlot, SearchAts, InsertAts
<1>3. CASE \/ SlotHit(t) \/ SlotMiss(t) \/ FollowLink(t) \/ ChainEnd(t)
           \/ ClaimSkip(t) \/ ClaimTake(t) \/ InsertFull(t)
  <2>1. UNCHANGED <<entries, link, log, free>>
    BY <1>1, <1>3
       DEF SlotHit, SlotMiss, FollowLink, ChainEnd, ClaimSkip, ClaimTake, InsertFull
  <2>2. Knows(t, th[t], call'[t], own)
    BY <1>3, SlotHitKnows, SlotMissKnows, FollowLinkKnows, ChainEndKnows, ClaimKnows
  <2>3. th'[t] = th[t] /\ \A u \in Threads \ {t} : th'[u] = th[u] /\ call'[u] = call[u]
    BY <1>1, CallAts
  <2>4. PlaceInv(own)'
    BY <2>1, <2>2, <2>3, PlacesStay
  <2>5. QED
    BY <2>4
<1>4. CASE InsertStore(t) \/ InsertPublish(t)
  <2>1. PlaceInv(own)'
    BY <1>4, InsertStorePlaces, InsertPublishPlaces
  <2>2. QED
    BY <2>1
<1>5. CASE InsertLink(t)
  BY <1>5, InsertLinkPlaces
<1>6. QED
  BY <1>1, <1>2, <1>3, <1>4, <1>5 DEF IndexStep

(* A get's search changes its cursor alone.                                *)
LEMMA GetLooks ==
  ASSUME LogInv, NEW t \in Threads, ~Writes(th[t]), LoopStep(t) \/ GetStep(t)
  PROVE  UNCHANGED <<entries, link, log, free>> /\ \A u \in Threads \ {t} : call'[u] = call[u]
<1>1. CASE RunIndexCall(t)
  <2>1. call[t].at \in SearchAts
    BY <1>1, CallAts, ThreadFacts, OperationFields DEF OpControl, GetPcs, Writes
  <2>2. SlotHit(t) \/ SlotMiss(t) \/ FollowLink(t) \/ ChainEnd(t)
    BY <1>1, <2>1, CallAts
       DEF IndexStep, SearchAts, AtSlot, InsertStore, InsertPublish, InsertFull, InsertLink,
           ClaimSkip, ClaimTake, DeleteClear
  <2>3. entries' = entries /\ link' = link
    BY <2>2 DEF SlotHit, SlotMiss, FollowLink, ChainEnd
  <2>4. QED
    BY <1>1, <2>3, CallAts
<1>2. CASE ~RunIndexCall(t)
  BY <1>2, ThreadFacts
     DEF LoopStep, GetStep, Found, LoadOffset, KeyDiffers, KeyEqual, Missing, GetBegin,
         GetKey, GetFault, GetVal, GetEnd, index, SearchAgain, SearchFirst
<1>3. QED
  BY <1>1, <1>2

LEMMA ReadPlaces ==
  ASSUME LogInv, LockInv, NEW own, PlaceInv(own), NEW t \in Threads, ~Writes(th[t]),
         LoopStep(t) \/ GetStep(t)
  PROVE  PlaceInv(own)'
<1>1. Inside(t)
  BY LoopInside, GetInside
<1>2. Bounded(t) /\ ~Writes(th'[t])
  BY <1>1, InsideHolds DEF Inside, Writes
<1>3. QED
  BY <1>2, GetLooks, ReaderPlaces

LEMMA WritePlaces ==
  ASSUME LogInv, LockInv, BucketsApart, NEW own, PlaceInv(own), NEW t \in Threads,
         OpStep(t)
  PROVE  \E joined : PlaceInv(joined)'
<1>1. CASE WriterStep(t)
  <2>1. PlaceInv(own)'
    BY <1>1, WaitPlaces, LockEnterPlaces, UnindexPlaces, FreeBlockPlaces, AllocatePlaces,
       CopyKeyPlaces, CopyValPlaces DEF WriterStep
  <2>2. QED
    BY <2>1
<1>2. CASE Writes(th[t]) /\ RunIndexCall(t)
  BY <1>2, IndexCallPlaces
<1>3. CASE Writes(th[t]) /\ LoopStep(t) /\ ~RunIndexCall(t)
  <2>1. PlaceInv(own)'
    BY <1>3, FoundPlaces, LoadOffsetPlaces, KeyDiffersPlaces, KeyEqualPlaces, MissingPlaces
       DEF LoopStep
  <2>2. QED
    BY <2>1
<1>4. CASE ~Writes(th[t]) /\ (LoopStep(t) \/ GetStep(t))
  <2>1. PlaceInv(own)'
    BY <1>4, ReadPlaces
  <2>2. QED
    BY <2>1
<1>5. ASSUME GetStep(t)
      PROVE  ~Writes(th[t])
  <2>1. th[t].pc \in {"begin", "load_key", "load_val", "end"}
    BY <1>5 DEF GetStep, GetBegin, GetKey, GetFault, GetVal, GetEnd, At
  <2>2. QED
    BY <2>1, WriterAt DEF WriterPcs, Updating
<1>6. QED
  BY <1>1, <1>2, <1>3, <1>4, <1>5 DEF OpStep

PlacesInv == \E own : PlaceInv(own)

LEMMA PlacesInit == LogInit => PlacesInv
<1> SUFFICES ASSUME LogInit
             PROVE  PlacesInv
  OBVIOUS
<1> DEFINE own == [b \in Buckets |-> IF b \in Mains THEN b ELSE NULL]
<1>1. /\ own \in [Buckets -> Mains \cup {NULL}]
      /\ \A b \in Buckets : own[b] = IF b \in Mains THEN b ELSE NULL
  OBVIOUS
<1> HIDE DEF own
<1>2. /\ \A b \in Buckets, i \in Slots : ~Tagged(b, i)
      /\ \A b \in Buckets : link[b] = 0
      /\ \A t \in Threads : ~Writes(th[t])
  BY DEF LogInit, Init, PoolInit, EmptyEntry, Tagged, NoOp, Writes
<1>3. OwnedChains(own)
  <2>1. \A s \in Spares : s \notin Mains
    BY HashAssumption, BucketAssumption DEF Mains, Spares
  <2>2. QED
    BY <1>1, <1>2, <2>1, SpareInBuckets DEF OwnedChains, Buckets
<1>4. SoundPlaces(own) /\ KeysOnce
  BY <1>2 DEF SoundPlaces, KeysOnce
<1>5. PlaceInv(own)
  BY <1>2, <1>3, <1>4 DEF PlaceInv, Knows
<1>6. QED
  BY <1>5 DEF PlacesInv

LEMMA PlacesStep ==
  ASSUME BucketsApart
  PROVE  LogInv /\ LockInv /\ PlacesInv /\ [LogNext]_logVars => PlacesInv'
<1> SUFFICES ASSUME LogInv, LockInv, PlacesInv, [LogNext]_logVars
             PROVE  PlacesInv'
  OBVIOUS
<1>1. PICK own : PlaceInv(own)
  BY DEF PlacesInv
<1>2. CASE UNCHANGED logVars
  <2>1. UNCHANGED <<entries, link, log, free>> /\ th' = th /\ call' = call
    BY <1>2 DEF logVars
  <2>2. CASE Threads = {}
    BY <1>1, <2>1, <2>2
       DEF PlacesInv, PlaceInv, OwnedChains, LinksTo, SoundPlaces, SoundPlace, KeysOnce,
           Tagged, OffOf, KeyOf, Complete
  <2>3. CASE Threads # {}
    <3>1. PICK t \in Threads : TRUE
      BY <2>3
    <3>2. Knows(t, th'[t], call'[t], own)
      BY <1>1, <2>1 DEF PlaceInv
    <3>3. PlaceInv(own)'
      BY <1>1, <2>1, <3>2, PlacesStay
    <3>4. QED
      BY <3>3 DEF PlacesInv
  <2>4. QED
    BY <2>2, <2>3
<1>3. CASE LogNext
  <2>1. PICK t \in Threads : OpStep(t) \/ Invoke(t) \/ Return(t)
    BY <1>3 DEF LogNext
  <2>2. CASE OpStep(t)
    BY <1>1, <2>2, WritePlaces DEF PlacesInv
  <2>3. CASE Invoke(t) \/ Return(t)
    <3>1. PlaceInv(own)'
      BY <1>1, <2>3, InvokePlaces
    <3>2. QED
      BY <3>1 DEF PlacesInv
  <2>4. QED
    BY <2>1, <2>2, <2>3
<1>4. QED
  BY <1>2, <1>3

------------------------------------------------------------------------------
(* ChainFrom, a recursive function on the buckets, finds what own says: it *)
(* exists because own gives it, and it is unique from the last bucket of   *)
(* the pool downwards.                                                     *)
Behind(own, b) ==
  {c \in Buckets : c = b \/ (own[b] # NULL /\ own[c] = own[b] /\ b < c)}

ChainRule(f, b) ==
  {b} \cup (IF next_spare_bucket(b) = NULL THEN {} ELSE f[next_spare_bucket(b)])

LEMMA NextFacts ==
  ASSUME LogInv, NEW b \in Buckets
  PROVE  /\ link[b] = 0 <=> next_spare_bucket(b) = NULL
         /\ link[b] # 0 => /\ next_spare_bucket(b) = b + link[b] /\ b + link[b] \in Buckets
                           /\ b < b + link[b]
<1>1. b \in Nat /\ link[b] \in Nat
  <2>1. link[b] \in 0..(LinkSpan - 1)
    BY DEF LogInv, LogTypeOK, TypeOK
  <2>2. QED
    BY <2>1, PoolFits, HashAssumption, BucketAssumption DEF Buckets
<1>2. b + link[b] # NULL
  BY <1>1 DEF NULL
<1>3. link[b] # 0 => b + link[b] \in Buckets
  BY SpareInBuckets DEF LogInv, ChainInv, ClaimInv, ChainsDisjoint
<1>4. QED
  BY <1>1, <1>2, <1>3 DEF next_spare_bucket

LEMMA BehindRule ==
  ASSUME LogInv, NEW own, OwnedChains(own), NEW b \in Buckets
  PROVE  /\ link[b] = 0 => Behind(own, b) = {b}
         /\ link[b] # 0 => Behind(own, b) = {b} \cup Behind(own, b + link[b])
<1>1. CASE link[b] = 0
  BY <1>1 DEF OwnedChains, Behind
<1>2. CASE link[b] # 0
  <2>1. PICK n : n = b + link[b]
    OBVIOUS
  <2>2. n \in Buckets /\ b < n /\ own[b] # NULL /\ own[n] = own[b]
    BY <1>2, <2>1, NextFacts DEF OwnedChains
  <2>3. \A c \in Buckets : own[c] = own[b] /\ b < c => n <= c
    BY <2>1, <2>2 DEF OwnedChains
  <2>4. b \in Int /\ n \in Int /\ \A c \in Buckets : c \in Int
    BY <2>2 DEF Buckets
  <2>5. \A c \in Buckets : c \in Behind(own, b) <=> c = b \/ c \in Behind(own, n)
    BY <2>2, <2>3, <2>4 DEF Behind
  <2>6. Behind(own, b) \subseteq Buckets /\ Behind(own, n) \subseteq Buckets
    BY DEF Behind
  <2>7. QED
    BY <1>2, <2>1, <2>5, <2>6
<1>3. QED
  BY <1>1, <1>2

LEMMA ChainFromRule ==
  ASSUME LogInv, NEW own, OwnedChains(own)
  PROVE  \A b \in Buckets : ChainFrom[b] = ChainRule(ChainFrom, b)
<1> DEFINE f == [b \in Buckets |-> Behind(own, b)]
<1>1. f = [b \in Buckets |-> ChainRule(f, b)]
  <2>1. ASSUME NEW b \in Buckets
        PROVE  Behind(own, b) = ChainRule(f, b)
    <3>1. CASE link[b] = 0
      BY <3>1, NextFacts, BehindRule DEF ChainRule
    <3>2. CASE link[b] # 0
      <4>1. /\ next_spare_bucket(b) = b + link[b] /\ next_spare_bucket(b) # NULL
            /\ b + link[b] \in Buckets
        BY <3>2, NextFacts
      <4>2. f[b + link[b]] = Behind(own, b + link[b])
        BY <4>1
      <4>3. QED
        BY <3>2, <4>1, <4>2, BehindRule DEF ChainRule
    <3>3. QED
      BY <3>1, <3>2
  <2>2. QED
    BY <2>1
<1> HIDE DEF f
<1>2. ChainFrom = CHOOSE g : g = [b \in Buckets |->
        {b} \cup (IF next_spare_bucket(b) = NULL THEN {} ELSE g[next_spare_bucket(b)])]
  BY DEF ChainFrom
<1>3. ChainFrom = CHOOSE g : g = [b \in Buckets |-> ChainRule(g, b)]
  BY <1>2 DEF ChainRule
<1>4. ChainFrom = [b \in Buckets |-> ChainRule(ChainFrom, b)]
  BY <1>1, <1>3
<1>5. QED
  BY <1>4

LEMMA ChainIs ==
  ASSUME LogInv, NEW own, OwnedChains(own)
  PROVE  \A b \in Buckets : ChainFrom[b] = Behind(own, b)
<1> DEFINE Top == MainSize + SpareSize
           S == {n \in Nat : \E b \in Buckets : n = Top - b /\ ChainFrom[b] # Behind(own, b)}
<1>1. \A b \in Buckets : Top - b \in Nat /\ b \in Nat /\ Top \in Nat
  BY HashAssumption, BucketAssumption DEF Buckets
<1>2. SUFFICES ASSUME S # {}
               PROVE  FALSE
  BY <1>1
<1>3. PICK n \in S : \A k \in S : n <= k
  <2>1. S \in SUBSET Nat
    OBVIOUS
  <2> HIDE DEF S
  <2>2. QED
    BY <1>2, <2>1, LeastNatural
<1>4. PICK b \in Buckets : n = Top - b /\ ChainFrom[b] # Behind(own, b)
  BY <1>3
<1>5. ChainFrom[b] = ChainRule(ChainFrom, b)
  BY ChainFromRule
<1>6. link[b] # 0
  BY <1>4, <1>5, NextFacts, BehindRule DEF ChainRule
<1>7. PICK d : d = b + link[b]
  OBVIOUS
<1>8. /\ next_spare_bucket(b) = d /\ d # NULL /\ d \in Buckets /\ b < d
  BY <1>6, <1>7, NextFacts
<1>9. ChainFrom[d] = Behind(own, d)
  <2>1. SUFFICES ASSUME ChainFrom[d] # Behind(own, d)
                 PROVE  FALSE
    OBVIOUS
  <2>2. Top - d \in S /\ Top - d < n
    BY <1>1, <1>4, <1>8, <2>1
  <2>3. QED
    BY <1>1, <1>3, <1>4, <1>8, <2>2
<1>10. ChainFrom[b] = Behind(own, b)
  BY <1>5, <1>6, <1>7, <1>8, <1>9, BehindRule DEF ChainRule
<1>11. QED
  BY <1>4, <1>10

(* So a main bucket's chain is what it owns, and the published entries of  *)
(* it are its places.                                                      *)
LEMMA ChainOwned ==
  ASSUME LogInv, NEW own, OwnedChains(own), NEW m \in Mains
  PROVE  ChainFrom[m] = {b \in Buckets : own[b] = m}
<1>1. ChainFrom[m] = Behind(own, m) /\ own[m] = m /\ m \in Buckets
  BY ChainIs, SpareInBuckets DEF OwnedChains
<1>2. m # NULL
  BY HashAssumption, BucketAssumption DEF Mains, NULL
<1>3. ASSUME NEW c \in Buckets, own[c] = m
      PROVE  c = m \/ m < c
  <2>1. m \in Int /\ c \in Int
    BY <1>1 DEF Buckets
  <2>2. QED
    BY <1>3, <2>1, StartsAtHome
<1>4. \A c \in Buckets : c \in Behind(own, m) <=> own[c] = m
  BY <1>1, <1>2, <1>3 DEF Behind
<1>5. Behind(own, m) \subseteq Buckets
  BY DEF Behind
<1>6. QED
  BY <1>1, <1>4, <1>5

LEMMA PublishedAre ==
  ASSUME LogInv, NEW own, PlaceInv(own), NEW b \in Mains
  PROVE  Published(b) = {p \in Buckets \X Slots : own[p[1]] = b /\ Tagged(p[1], p[2])}
<1>1. ChainFrom[b] = {c \in Buckets : own[c] = b}
  BY ChainOwned DEF PlaceInv
<1>2. QED
  BY <1>1 DEF Published, Tagged

LEMMA PlacesSound ==
  ASSUME LogInv, NEW own, PlaceInv(own)
  PROVE  EntriesSound
<1>1. SUFFICES ASSUME NEW b \in Mains, NEW p \in Published(b)
               PROVE  /\ OffsetAt(p) \notin free /\ Complete(OffsetAt(p))
                      /\ Main(log[OffsetAt(p)].key) = b
                      /\ match_index_entry_tag(TagAt(p), HashOf[log[OffsetAt(p)].key])
                      /\ \A q \in Published(b) \ {p} :
                           log[OffsetAt(q)].key # log[OffsetAt(p)].key
  BY DEF EntriesSound
<1>2. \A q \in Published(b) :
        /\ q[1] \in Buckets /\ q[2] \in Slots /\ q = <<q[1], q[2]>>
        /\ own[q[1]] = b /\ Tagged(q[1], q[2])
        /\ OffsetAt(q) = OffOf(q[1], q[2]) /\ log[OffsetAt(q)].key = KeyOf(q[1], q[2])
  BY PublishedAre DEF OffsetAt, OffOf, KeyOf
<1>3. SoundPlace(own, p[1], p[2])
  BY <1>2 DEF PlaceInv, SoundPlaces
<1>4. ASSUME NEW q \in Published(b) \ {p}
      PROVE  log[OffsetAt(q)].key # log[OffsetAt(p)].key
  <2>1. ~(q[1] = p[1] /\ q[2] = p[2])
    BY <1>2
  <2>2. QED
    BY <1>2, <2>1 DEF PlaceInv, KeysOnce
<1>5. TagAt(p) = entries[p[1]][p[2]].tag
  BY DEF TagAt
<1>6. QED
  BY <1>2, <1>3, <1>4, <1>5 DEF SoundPlace

(* An index entry leads to a used block with a whole entry of its bucket   *)
(* and tag, and no key has two, as long as threads write keys of different *)
(* main buckets.                                                           *)
THEOREM PlacesInvariant ==
  ASSUME BucketsApart
  PROVE  LogSpec => [](LockInv /\ PlacesInv)
<1>1. LogInit => LockInv
  BY DEF LogInit, LockInv, Holds, Writes, NoOp
<1>2. LogInv /\ LockInv /\ [LogNext]_logVars => LockInv'
  BY LockStep
<1>3. LogInv /\ LockInv /\ PlacesInv /\ [LogNext]_logVars => PlacesInv'
  BY PlacesStep
<1>4. QED
  BY <1>1, <1>2, <1>3, PlacesInit, LogInvariant, PTL DEF LogSpec

THEOREM EntriesStaySound ==
  ASSUME BucketsApart
  PROVE  LogSpec => []EntriesSound
<1>1. LogInv /\ PlacesInv => EntriesSound
  BY PlacesSound DEF PlacesInv
<1>2. QED
  BY <1>1, PlacesInvariant, LogInvariant, PTL

------------------------------------------------------------------------------
(* While no insert finds the pool exhausted, nothing is lost: a used block *)
(* is in a place or in its thread's hand, and what a put has put is there. *)
NoneFull == \A t \in Threads : call[t].at # "full"

InPlace(off) == \E d \in Buckets, j \in Slots : Tagged(d, j) /\ OffOf(d, j) = off

Has(o, off) == o.off = off /\ o.pc \in InHands

BlocksKept ==
  \A t \in Threads : \A off \in Heap[t] \ free : InPlace(off) \/ Has(th[t], off)

HasPut(o) == o.op = "put" /\ o.ok /\ o.pc \in {"unlock", "done"}

Stored(o) ==
  \E d \in Buckets, j \in Slots :
    Tagged(d, j) /\ KeyOf(d, j) = o.key /\ log[OffOf(d, j)].val = o.val

PutsKept == \A t \in Threads : HasPut(th[t]) => Stored(th[t])

(* A step writes nothing, or its thread's block, or a slot of its chain.   *)
LEMMA CallWrites ==
  ASSUME LogInv, BucketsApart, NEW own, PlaceInv(own), NEW t \in Threads, Writes(th[t]),
         RunIndexCall(t)
  PROVE  /\ log' = log /\ free' = free /\ th' = th
         /\ entries' = entries \/ \E b, i : Slotting(t, own, b, i) /\ ~Tagged(b, i)
<1>1. IndexStep(t) /\ th' = th /\ log' = log /\ free' = free
  BY CallAts
<1>2. ~DeleteClear(t)
  BY CallAts DEF DeleteClear, AtSlot, SearchAts, InsertAts
<1>3. CASE InsertStore(t) \/ InsertPublish(t)
  BY <1>1, <1>3, InsertStorePlaces, InsertPublishPlaces
<1>4. CASE ~(InsertStore(t) \/ InsertPublish(t))
  <2>1. entries' = entries
    BY <1>1, <1>2, <1>4
       DEF IndexStep, SlotHit, SlotMiss, FollowLink, ChainEnd, InsertFull, InsertLink,
           ClaimSkip, ClaimTake
  <2>2. QED
    BY <1>1, <2>1
<1>5. QED
  BY <1>3, <1>4

Quiet == UNCHANGED <<entries, log, free>>

LEMMA StepKinds ==
  ASSUME LogInv, BucketsApart, NEW own, PlaceInv(own), NEW t \in Threads,
         OpStep(t) \/ Invoke(t) \/ Return(t)
  PROVE  \/ Quiet
         \/ Writes(th[t]) /\ \E off : Writing(t, off)
         \/ Writes(th[t]) /\ \E b, i : Slotting(t, own, b, i)
<1>1. CASE CopyKey(t) \/ CopyVal(t) \/ FreeBlock(t) \/ Allocate(t)
  BY <1>1, CopyKeyPlaces, CopyValPlaces, FreeBlockPlaces, AllocatePlaces
<1>2. CASE Unindex(t)
  BY <1>2, UnindexPlaces
<1>3. CASE Writes(th[t]) /\ RunIndexCall(t)
  BY <1>3, CallWrites DEF Quiet
<1>4. CASE ~Writes(th[t]) /\ (LoopStep(t) \/ GetStep(t))
  BY <1>4, GetLooks DEF Quiet
<1>5. CASE \/ LockRead(t) \/ LockRepeat(t) \/ LockEnter(t) \/ AllocateFails(t)
           \/ Inserted(t) \/ Unlock(t) \/ Found(t) \/ LoadOffset(t) \/ KeyDiffers(t)
           \/ KeyEqual(t) \/ Missing(t) \/ GetStep(t) \/ Invoke(t) \/ Return(t)
  BY <1>5
     DEF LockRead, LockRepeat, LockEnter, AllocateFails, Inserted, Unlock, Found, LoadOffset,
         KeyDiffers, KeyEqual, Missing, GetStep, GetBegin, GetKey, GetFault, GetVal, GetEnd,
         Invoke, Return, index, Quiet
<1>6. QED
  BY <1>1, <1>2, <1>3, <1>4, <1>5 DEF OpStep, WriterStep, LoopStep

(* No step takes from another writer what it has put.                      *)
LEMMA StoredStays ==
  ASSUME LogInv, BucketsApart, NEW own, PlaceInv(own), NEW t \in Threads,
         OpStep(t) \/ Invoke(t) \/ Return(t),
         NEW u \in Threads \ {t}, NEW o, o = th[u], Writes(o), Stored(o)
  PROVE  Stored(o)'
<1>1. PICK d \in Buckets, j \in Slots :
        Tagged(d, j) /\ KeyOf(d, j) = o.key /\ log[OffOf(d, j)].val = o.val
  BY DEF Stored
<1>2. CASE Quiet
  BY <1>1, <1>2 DEF Quiet, Stored, Tagged, KeyOf, OffOf
<1>3. CASE Writes(th[t]) /\ \E off : Writing(t, off)
  <2>1. PICK off : Writing(t, off)
    BY <1>3
  <2>2. /\ OffOf(d, j)' = OffOf(d, j) /\ log'[OffOf(d, j)] = log[OffOf(d, j)]
        /\ KeyOf(d, j)' = KeyOf(d, j) /\ entries' = entries
    BY <1>1, <2>1, KeysKept DEF Writing
  <2>3. Tagged(d, j)'
    BY <1>1, <2>2 DEF Tagged
  <2>4. log'[OffOf(d, j)'].val = o.val /\ KeyOf(d, j)' = o.key
    BY <1>1, <2>2
  <2>5. QED
    BY <2>3, <2>4 DEF Stored
<1>4. CASE Writes(th[t]) /\ \E b, i : Slotting(t, own, b, i)
  <2>1. PICK b, i : Slotting(t, own, b, i)
    BY <1>4
  <2>2. own[d] = th[u].main
    BY <1>1, WriterFacts DEF PlaceInv, SoundPlaces, SoundPlace
  <2>3. th[u].main # th[t].main
    BY <1>4, ApartFacts
  <2>4. d # b
    BY <2>1, <2>2, <2>3 DEF Slotting
  <2>5. /\ Tagged(d, j)' /\ OffOf(d, j)' = OffOf(d, j) /\ KeyOf(d, j)' = KeyOf(d, j)
        /\ log' = log
    BY <1>1, <2>1, <2>4, SlotsKept DEF Slotting
  <2>6. log'[OffOf(d, j)'].val = o.val /\ KeyOf(d, j)' = o.key
    BY <1>1, <2>5
  <2>7. QED
    BY <2>5, <2>6 DEF Stored
<1>5. QED
  BY <1>2, <1>3, <1>4, StepKinds

(* A put has put when its insert has published the entry.                  *)
LEMMA PutEnds ==
  ASSUME LogInv, NEW t \in Threads, OpStep(t) \/ Invoke(t) \/ Return(t), HasPut(th'[t])
  PROVE  Inserted(t) \/ Unlock(t)
<1>1. th \in [Threads -> Operations] /\ th[t] \in Operations
  BY ThreadFacts
<1>2. ~(GetStep(t) \/ Invoke(t) \/ Return(t))
  <2>1. ~GetStep(t)
    <3>1. SUFFICES ASSUME GetStep(t)
                   PROVE  FALSE
      OBVIOUS
    <3>2. th[t].pc \in {"begin", "load_key", "load_val", "end"} /\ th'[t].op = th[t].op
      BY <3>1, GetInside
         DEF GetStep, GetBegin, GetKey, GetFault, GetVal, GetEnd, At, Inside
    <3>3. QED
      BY <3>2, WriterAt DEF HasPut, WriterPcs, Updating, Writes
  <2>2. ~Return(t)
    BY <1>1 DEF Return, HasPut, NoOp
  <2>3. ~Invoke(t)
    <3>1. SUFFICES ASSUME Invoke(t)
                   PROVE  FALSE
      OBVIOUS
    <3>2. PICK k, pc, op, val :
            pc \in {"lock", "begin"} /\ th' = [th EXCEPT ![t] = Op(pc, op, k, val)]
      BY <3>1 DEF Invoke
    <3>3. th'[t] = Op(pc, op, k, val)
      BY <1>1, <3>2
    <3>4. Op(pc, op, k, val).pc = pc
      BY DEF Op, NoOp
    <3>5. QED
      BY <3>2, <3>3, <3>4 DEF HasPut
  <2>4. QED
    BY <2>1, <2>2, <2>3
<1>3. ~RunIndexCall(t)
  BY DEF RunIndexCall, HasPut
<1>4. ~(Unindex(t) \/ CopyKey(t) \/ CopyVal(t) \/ LockRepeat(t) \/ LockEnter(t)
        \/ KeyDiffers(t))
  <2>1. SUFFICES ASSUME NEW pc \in {"free", "copy_val", "insert", "lock", "search"},
                        th' = [th EXCEPT ![t].pc = pc]
                 PROVE  FALSE
    BY DEF Unindex, CopyKey, CopyVal, LockRepeat, LockEnter, KeyDiffers, Goto
  <2>2. QED
    BY <1>1, <2>1, OperationFields DEF HasPut
<1>5. ~Found(t)
  <2>1. SUFFICES ASSUME Found(t)
                 PROVE  FALSE
    OBVIOUS
  <2>2. th[t].pc = "search" /\ (th' = th \/ th' = [th EXCEPT ![t].pc = "offset"])
    BY <2>1 DEF Found, At, Goto
  <2>3. QED
    BY <1>1, <2>2, OperationFields DEF HasPut
<1>6. ~KeyEqual(t)
  <2>1. SUFFICES ASSUME KeyEqual(t)
                 PROVE  FALSE
    OBVIOUS
  <2>2. th' = [th EXCEPT ![t].pc = "load_key"] \/ th' = [th EXCEPT ![t].pc = "unindex"]
    BY <2>1 DEF KeyEqual, Goto
  <2>3. QED
    BY <1>1, <2>2, OperationFields DEF HasPut
<1>7. ~(LockRead(t) \/ LoadOffset(t))
  <2>1. LockRead(t) => th'[t].pc = "cas"
    BY <1>1, OperationFields DEF LockRead
  <2>2. LoadOffset(t) => th'[t].pc = "compare"
    BY <1>1, OperationFields DEF LoadOffset
  <2>3. QED
    BY <2>1, <2>2 DEF HasPut
<1>8. ~Allocate(t)
  <2>1. SUFFICES ASSUME NEW off,
                        th' = [th EXCEPT ![t] = [th[t] EXCEPT !.pc = "copy_key", !.off = off]]
                 PROVE  FALSE
    BY DEF Allocate
  <2>2. QED
    BY <1>1, <2>1, OperationFields DEF HasPut
<1>9. ~FreeBlock(t)
  <2>1. SUFFICES ASSUME FreeBlock(t)
                 PROVE  FALSE
    OBVIOUS
  <2>2. /\ th'[t].op = th[t].op
        /\ th'[t].pc = IF th[t].op = "put" THEN "alloc" ELSE "unlock"
    BY <1>1, <2>1, OperationFields DEF FreeBlock
  <2>3. QED
    BY <2>2 DEF HasPut
<1>10. ~(AllocateFails(t) \/ Missing(t))
  <2>1. SUFFICES ASSUME NEW pc, th' = [th EXCEPT ![t] = [th[t] EXCEPT !.pc = pc, !.ok = FALSE]]
                 PROVE  FALSE
    BY DEF AllocateFails, Missing
  <2>2. th'[t].ok = FALSE
    BY <1>1, <2>1, OperationFields
  <2>3. QED
    BY <2>2 DEF HasPut
<1>11. QED
  BY <1>2, <1>3, <1>4, <1>5, <1>6, <1>7, <1>8, <1>9, <1>10
     DEF OpStep, WriterStep, LoopStep

LEMMA PutsStep ==
  ASSUME LogInv, BucketsApart, NEW own, PlaceInv(own), NoneFull, PutsKept,
         NEW t \in Threads, OpStep(t) \/ Invoke(t) \/ Return(t),
         \A u \in Threads \ {t} : th'[u] = th[u]
  PROVE  PutsKept'
<1>1. ASSUME NEW u \in Threads \ {t}, HasPut(th'[u])
      PROVE  Stored(th[u])'
  <2>1. PICK o : o = th[u]
    OBVIOUS
  <2>2. Writes(o) /\ Stored(o) /\ th'[u] = o
    BY <1>1, <2>1 DEF HasPut, Writes, PutsKept
  <2>3. Stored(o)'
    BY <2>1, <2>2, StoredStays
  <2>4. QED
    BY <2>2, <2>3
<1>2. ASSUME HasPut(th'[t])
      PROVE  Stored(th[t])'
  <2>1. CASE Unlock(t)
    <3>1. Goes(t, "done") /\ th[t].pc = "unlock" /\ UNCHANGED <<entries, log>>
      BY <2>1, GoesFacts DEF Unlock, Goto, At
    <3>2. th'[t].ok = th[t].ok
      BY <2>1, ThreadFacts, OperationFields DEF Unlock, Goto
    <3>3. Stored(th[t])
      BY <1>2, <3>1, <3>2 DEF HasPut, PutsKept, Goes
    <3>4. QED
      BY <3>1, <3>3 DEF Stored, Tagged, KeyOf, OffOf, Goes
  <2>2. CASE Inserted(t)
    <3>1. /\ Goes(t, "unlock") /\ th[t].pc = "insert" /\ UNCHANGED <<entries, log>>
          /\ call[t].at = "inserted"
      BY <2>2, GoesFacts DEF Inserted, At, NoneFull
    <3>2. Writes(th[t])
      BY <1>2, <3>1 DEF HasPut, Writes, Goes
    <3>3. PICK d \in Buckets, j \in Slots : Tagged(d, j) /\ OffOf(d, j) = th[t].off
      BY <3>1, <3>2, WriterFacts DEF Inserting, Placed
    <3>4. log[th[t].off].key = th[t].key /\ log[th[t].off].val = th[t].val
      BY <3>1, <3>2, WriterFacts DEF Holding, Inserting
    <3>5. QED
      BY <3>1, <3>3, <3>4 DEF Stored, Tagged, KeyOf, OffOf, Goes
  <2>3. QED
    BY <1>2, <2>1, <2>2, PutEnds
<1>3. QED
  BY <1>1, <1>2 DEF PutsKept

(* A block leaves its place for the hand of its thread, and the hand for a *)
(* place or the allocator.                                                 *)
LEMMA BlockMoves ==
  ASSUME LogInv, BlocksKept, NEW t \in Threads,
         \A u \in Threads \ {t} : th'[u] = th[u],
         \A off : InPlace(off) =>
           InPlace(off)' \/ (off \in Heap[t] /\ Has(th'[t], off)),
         \A off : Has(th[t], off) => Has(th'[t], off) \/ InPlace(off)' \/ off \in free',
         \A off \in free \ free' : off \in Heap[t] /\ Has(th'[t], off)
  PROVE  BlocksKept'
<1>1. ASSUME NEW u \in Threads, NEW off \in Heap[u] \ free'
      PROVE  InPlace(off)' \/ Has(th'[u], off)
  <2>1. off \in Heap[t] => u = t
    BY LogAssumption
  <2>2. CASE off \in free
    BY <2>1, <2>2
  <2>3. CASE off \notin free /\ InPlace(off)
    BY <2>1, <2>3
  <2>4. CASE off \notin free /\ Has(th[u], off)
    BY <1>1, <2>4
  <2>5. QED
    BY <2>2, <2>3, <2>4 DEF BlocksKept
<1>2. QED
  BY <1>1 DEF BlocksKept, Has

LEMMA HandBlocks ==
  ASSUME LogInv, BucketsApart, NEW own, PlaceInv(own), BlocksKept, NEW t \in Threads,
         CopyKey(t) \/ CopyVal(t) \/ FreeBlock(t) \/ Allocate(t)
  PROVE  BlocksKept'
<1>1. PICK at : Writing(t, at)
  BY CopyKeyPlaces, CopyValPlaces, FreeBlockPlaces, AllocatePlaces
<1>2. entries' = entries /\ \A u \in Threads \ {t} : th'[u] = th[u]
  BY <1>1 DEF Writing
<1>3. \A off : InPlace(off) => InPlace(off)'
  BY <1>2 DEF InPlace, Tagged, OffOf
<1>4. th[t] \in Operations /\ th \in [Threads -> Operations]
  BY ThreadFacts
<1>5. CASE CopyKey(t) \/ CopyVal(t)
  <2>1. PICK pc \in {"copy_val", "insert"} : th' = [th EXCEPT ![t].pc = pc]
    BY <1>5 DEF CopyKey, CopyVal, Goto
  <2>2. th'[t].off = th[t].off /\ th'[t].pc \in InHands /\ free' = free
    BY <1>4, <1>5, <2>1, OperationFields DEF InHands, FillPcs, CopyKey, CopyVal
  <2>3. \A off : Has(th[t], off) => Has(th'[t], off)
    BY <2>2 DEF Has
  <2>4. QED
    BY <1>2, <1>3, <2>2, <2>3, BlockMoves
<1>6. CASE FreeBlock(t)
  <2>1. free' = free \cup {th[t].off}
    BY <1>6 DEF FreeBlock
  <2>2. \A off : Has(th[t], off) => off \in free'
    BY <2>1 DEF Has
  <2>3. QED
    BY <1>2, <1>3, <2>1, <2>2, BlockMoves
<1>7. CASE Allocate(t)
  <2>1. PICK off \in free \cap Heap[t] :
          /\ free' = free \ {off}
          /\ th' = [th EXCEPT ![t] = [th[t] EXCEPT !.pc = "copy_key", !.off = off]]
    BY <1>7 DEF Allocate
  <2>2. th'[t].pc = "copy_key" /\ th'[t].off = off
    BY <1>4, <2>1, OperationFields
  <2>3. Has(th'[t], off) /\ ~(th[t].pc \in InHands)
    BY <1>7, <2>2 DEF Has, InHands, FillPcs, Allocate, At
  <2>4. \A l \in free \ free' : l = off
    BY <2>1
  <2>5. QED
    BY <1>2, <1>3, <2>1, <2>3, <2>4, BlockMoves DEF Has
<1>8. QED
  BY <1>5, <1>6, <1>7

LEMMA UnindexBlocks ==
  ASSUME LogInv, BucketsApart, NEW own, PlaceInv(own), BlocksKept, NEW t \in Threads,
         Unindex(t)
  PROVE  BlocksKept'
<1>1. PICK b, i : Slotting(t, own, b, i) /\ OffOf(b, i) = th[t].off
  BY UnindexPlaces
<1>2. Writes(th[t]) /\ th'[t].pc = "free" /\ th'[t].off = th[t].off
  BY UnindexPlaces
<1>3. Has(th'[t], th[t].off)
  BY <1>2 DEF Has, InHands
<1>4. ASSUME NEW off, InPlace(off)
      PROVE  InPlace(off)' \/ (off \in Heap[t] /\ Has(th'[t], off))
  <2>1. PICK d \in Buckets, j \in Slots : Tagged(d, j) /\ OffOf(d, j) = off
    BY <1>4 DEF InPlace
  <2>2. CASE d = b /\ j = i
    <3>1. off = th[t].off /\ own[d] = th[t].main
      BY <1>1, <2>1, <2>2 DEF Slotting
    <3>2. off \in Heap[t]
      BY <1>2, <2>1, <3>1, OwnPlace
    <3>3. QED
      BY <1>3, <3>1, <3>2
  <2>3. CASE ~(d = b /\ j = i)
    <3>1. Tagged(d, j)' /\ OffOf(d, j)' = off
      BY <1>1, <2>1, <2>3, SlotsKept
    <3>2. QED
      BY <3>1 DEF InPlace
  <2>4. QED
    BY <2>2, <2>3
<1>5. th[t].pc \notin InHands
  BY DEF Unindex, At, InHands, FillPcs
<1>6. free' = free /\ \A u \in Threads \ {t} : th'[u] = th[u]
  BY <1>1 DEF Slotting
<1>7. QED
  BY <1>4, <1>5, <1>6, BlockMoves DEF Has

LEMMA CallBlocks ==
  ASSUME LogInv, BucketsApart, NEW own, PlaceInv(own), BlocksKept, NEW t \in Threads,
         Writes(th[t]), RunIndexCall(t)
  PROVE  BlocksKept'
<1>1. free' = free /\ th' = th
  BY CallWrites
<1>2. ASSUME NEW off, InPlace(off)
      PROVE  InPlace(off)'
  <2>1. CASE entries' = entries
    BY <1>2, <2>1 DEF InPlace, Tagged, OffOf
  <2>2. CASE entries' # entries
    <3>1. PICK b, i : Slotting(t, own, b, i) /\ ~Tagged(b, i)
      BY <2>2, CallWrites
    <3>2. PICK d \in Buckets, j \in Slots : Tagged(d, j) /\ OffOf(d, j) = off
      BY <1>2 DEF InPlace
    <3>3. Tagged(d, j)' /\ OffOf(d, j)' = off
      BY <3>1, <3>2, SlotsKept
    <3>4. QED
      BY <3>3 DEF InPlace
  <2>3. QED
    BY <2>1, <2>2
<1>3. QED
  BY <1>1, <1>2, BlockMoves

LEMMA InsertedBlocks ==
  ASSUME LogInv, NEW own, PlaceInv(own), BlocksKept, NoneFull, NEW t \in Threads,
         Inserted(t)
  PROVE  BlocksKept'
<1>1. /\ entries' = entries /\ free' = free /\ Goes(t, "unlock")
      /\ th[t].pc = "insert" /\ call[t].at = "inserted"
  BY GoesFacts DEF Inserted, NoneFull, At
<1>2. Writes(th[t])
  BY <1>1, ThreadFacts, OperationFields DEF OpControl, GetPcs, Writes
<1>3. InPlace(th[t].off)
  BY <1>1, <1>2, WriterFacts DEF Inserting, Placed, InPlace
<1>4. \A off : InPlace(off) => InPlace(off)'
  BY <1>1 DEF InPlace, Tagged, OffOf
<1>5. \A off : Has(th[t], off) => InPlace(off)'
  BY <1>3, <1>4 DEF Has
<1>6. QED
  BY <1>1, <1>4, <1>5, BlockMoves DEF Goes

LEMMA BlocksStep ==
  ASSUME LogInv, BucketsApart, NEW own, PlaceInv(own), NoneFull, BlocksKept,
         NEW t \in Threads, OpStep(t) \/ Invoke(t) \/ Return(t),
         \A u \in Threads \ {t} : th'[u] = th[u]
  PROVE  BlocksKept'
<1>1. CASE CopyKey(t) \/ CopyVal(t) \/ FreeBlock(t) \/ Allocate(t)
  BY <1>1, HandBlocks
<1>2. CASE Unindex(t)
  BY <1>2, UnindexBlocks
<1>3. CASE Inserted(t)
  BY <1>3, InsertedBlocks
<1>4. CASE Writes(th[t]) /\ RunIndexCall(t)
  BY <1>4, CallBlocks
<1>5. ASSUME entries' = entries, free' = free, th[t].pc \notin InHands
      PROVE  BlocksKept'
  <2>1. \A off : InPlace(off) => InPlace(off)'
    BY <1>5 DEF InPlace, Tagged, OffOf
  <2>2. QED
    BY <1>5, <2>1, BlockMoves DEF Has
<1>6. CASE ~Writes(th[t]) /\ (LoopStep(t) \/ GetStep(t))
  <2>1. th[t].pc \notin InHands
    BY <1>6, ThreadFacts, OperationFields DEF OpControl, GetPcs, InHands, FillPcs, Writes
  <2>2. QED
    BY <1>5, <1>6, <2>1, GetLooks
<1>7. CASE \/ LockRead(t) \/ LockRepeat(t) \/ LockEnter(t) \/ AllocateFails(t)
           \/ Unlock(t) \/ Found(t) \/ LoadOffset(t) \/ KeyDiffers(t)
           \/ KeyEqual(t) \/ Missing(t) \/ GetStep(t) \/ Invoke(t) \/ Return(t)
  <2>1. /\ entries' = entries /\ free' = free
        /\ th[t].pc \in {"lock", "cas", "alloc", "unlock", "search", "offset", "compare",
                         "begin", "load_key", "load_val", "end", "idle", "done"}
    BY <1>7
       DEF LockRead, LockRepeat, LockEnter, AllocateFails, Unlock, Found, LoadOffset,
           KeyDiffers, KeyEqual, Missing, GetStep, GetBegin, GetKey, GetFault, GetVal,
           GetEnd, Invoke, Return, index, At
  <2>2. th[t].pc \notin InHands
    BY <2>1 DEF InHands, FillPcs
  <2>3. QED
    BY <1>5, <2>1, <2>2
<1>8. QED
  BY <1>1, <1>2, <1>3, <1>4, <1>6, <1>7 DEF OpStep, WriterStep, LoopStep

Kept == BlocksKept /\ PutsKept

LEMMA KeptInit == LogInit => Kept
<1> SUFFICES ASSUME LogInit
             PROVE  Kept
  OBVIOUS
<1>1. \A t \in Threads : Heap[t] \ free = {}
  BY LogAssumption DEF LogInit
<1>2. \A t \in Threads : ~HasPut(th[t])
  BY DEF LogInit, NoOp, HasPut
<1>3. QED
  BY <1>1, <1>2 DEF Kept, BlocksKept, PutsKept

LEMMA StepBounded ==
  ASSUME LogInv, LockInv, NEW t \in Threads, OpStep(t) \/ Invoke(t) \/ Return(t)
  PROVE  \A u \in Threads \ {t} : th'[u] = th[u]
<1>1. CASE WriterStep(t)
  BY <1>1, LockHolds, WriterInside, InsideHolds DEF WriterStep, Bounded
<1>2. CASE LoopStep(t) \/ GetStep(t)
  BY <1>2, LoopInside, GetInside, InsideHolds DEF Bounded
<1>3. QED
  BY <1>1, <1>2, InvokeHolds DEF OpStep, Bounded

LEMMA KeptStep ==
  ASSUME BucketsApart
  PROVE  LogInv /\ LockInv /\ PlacesInv /\ NoneFull /\ Kept /\ [LogNext]_logVars => Kept'
<1> SUFFICES ASSUME LogInv, LockInv, PlacesInv, NoneFull, Kept, [LogNext]_logVars
             PROVE  Kept'
  OBVIOUS
<1>1. PICK own : PlaceInv(own)
  BY DEF PlacesInv
<1>2. CASE UNCHANGED logVars
  BY <1>2
     DEF logVars, Kept, BlocksKept, PutsKept, InPlace, Has, HasPut, Stored, Tagged, KeyOf, OffOf
<1>3. CASE LogNext
  <2>1. PICK t \in Threads : OpStep(t) \/ Invoke(t) \/ Return(t)
    BY <1>3 DEF LogNext
  <2>2. BlocksKept' /\ PutsKept'
    BY <1>1, <2>1, StepBounded, BlocksStep, PutsStep DEF Kept
  <2>3. QED
    BY <2>2 DEF Kept
<1>4. QED
  BY <1>2, <1>3

LEMMA KeptInvariant ==
  ASSUME BucketsApart
  PROVE  LogSpec /\ []NoneFull => []Kept
<1>1. LogInv /\ LockInv /\ PlacesInv /\ NoneFull /\ Kept /\ [LogNext]_logVars => Kept'
  BY KeptStep
<1>2. LogSpec => [](LockInv /\ PlacesInv)
  BY PlacesInvariant
<1>3. QED
  BY <1>1, <1>2, KeptInit, LogInvariant, PTL DEF LogSpec

LEMMA KeptAccounts ==
  ASSUME LogInv, NEW own, PlaceInv(own), BlocksKept
  PROVE  BlocksAccounted
<1>1. SUFFICES ASSUME NEW t \in Threads, NEW off \in Heap[t]
               PROVE  off \notin free <=>
                        \/ \E b \in Mains : \E p \in Published(b) : OffsetAt(p) = off
                        \/ Has(th[t], off)
  BY DEF BlocksAccounted, Has, InHands, FillPcs
<1>2. InPlace(off) <=> \E b \in Mains : \E p \in Published(b) : OffsetAt(p) = off
  <2>1. ASSUME InPlace(off)
        PROVE  \E b \in Mains : \E p \in Published(b) : OffsetAt(p) = off
    <3>1. PICK d \in Buckets, j \in Slots : Tagged(d, j) /\ OffOf(d, j) = off
      BY <2>1 DEF InPlace
    <3>2. own[d] \in Mains
      BY <3>1 DEF PlaceInv, OwnedChains, SoundPlaces, SoundPlace
    <3>3. <<d, j>> \in Published(own[d]) /\ OffsetAt(<<d, j>>) = off
      BY <3>1, <3>2, PublishedAre DEF OffsetAt, OffOf
    <3>4. QED
      BY <3>2, <3>3
  <2>2. ASSUME NEW b \in Mains, NEW p \in Published(b), OffsetAt(p) = off
        PROVE  InPlace(off)
    BY <2>2, PublishedAre DEF InPlace, OffsetAt, OffOf
  <2>3. QED
    BY <2>1, <2>2
<1>3. InPlace(off) => off \notin free
  BY DEF InPlace, PlaceInv, SoundPlaces, SoundPlace
<1>4. Has(th[t], off) => off \notin free
  <2>1. th[t].pc \in InHands => Writes(th[t])
    BY ThreadFacts, OperationFields DEF OpControl, GetPcs, Writes, InHands, FillPcs
  <2>2. QED
    BY <2>1, WriterFacts DEF Has, Holding
<1>5. QED
  BY <1>2, <1>3, <1>4 DEF BlocksKept

(* A lookup finds the one place of its key.                                *)
LEMMA LookupFinds ==
  ASSUME LogInv, NEW own, PlaceInv(own), NEW k, NEW d \in Buckets, NEW j \in Slots,
         Tagged(d, j), KeyOf(d, j) = k
  PROVE  Lookup(k) = log[OffOf(d, j)].val
<1>1. /\ own[d] = Main(k) /\ own[d] \in Mains
      /\ match_index_entry_tag(entries[d][j].tag, HashOf[k])
  BY DEF PlaceInv, OwnedChains, SoundPlaces, SoundPlace
<1> DEFINE hits == {p \in Published(Main(k)) :
              match_index_entry_tag(TagAt(p), HashOf[k]) /\ log[OffsetAt(p)].key = k}
<1>2. <<d, j>> \in hits
  BY <1>1, PublishedAre DEF TagAt, OffsetAt, OffOf, KeyOf
<1>3. \A p \in hits : p = <<d, j>>
  <2>1. SUFFICES ASSUME NEW p \in hits
                 PROVE  p = <<d, j>>
    OBVIOUS
  <2>2. /\ p \in Buckets \X Slots /\ Tagged(p[1], p[2]) /\ KeyOf(p[1], p[2]) = k
    BY <1>1, <2>1, PublishedAre DEF OffsetAt, OffOf, KeyOf
  <2>3. p[1] = d /\ p[2] = j
    BY <2>2 DEF PlaceInv, KeysOnce
  <2>4. QED
    BY <2>2, <2>3
<1>4. hits # {} /\ (CHOOSE p \in hits : TRUE) = <<d, j>>
  <2> HIDE DEF hits
  <2>1. QED
    BY <1>2, <1>3
<1>5. Lookup(k) = IF hits = {} THEN NoVal ELSE log[OffsetAt(CHOOSE p \in hits : TRUE)].val
  BY DEF Lookup
<1>6. OffsetAt(<<d, j>>) = OffOf(d, j)
  BY DEF OffsetAt, OffOf
<1>7. QED
  BY <1>4, <1>5, <1>6

LEMMA KeptIndexed ==
  ASSUME LogInv, NEW own, PlaceInv(own), PutsKept
  PROVE  PutIsIndexed
<1>1. SUFFICES ASSUME NEW t \in Threads, HasPut(th[t])
               PROVE  Lookup(th[t].asked) = th[t].val
  BY DEF PutIsIndexed, HasPut, At
<1>2. PICK d \in Buckets, j \in Slots :
        Tagged(d, j) /\ KeyOf(d, j) = th[t].asked /\ log[OffOf(d, j)].val = th[t].val
  BY <1>1, ThreadFacts DEF HasPut, PutsKept, Stored, OpControl
<1>3. QED
  BY <1>2, LookupFinds

(* A block is in use just as long as it is indexed or in the hand of the   *)
(* thread that frees or fills it, while no insert finds the pool exhausted *)
(* (the result of insert_index_entry is not looked at: Log_full).          *)
THEOREM BlocksStayAccounted ==
  ASSUME BucketsApart
  PROVE  LogSpec /\ []NoneFull => []BlocksAccounted
<1>1. LogInv /\ PlacesInv /\ Kept => BlocksAccounted
  BY KeptAccounts DEF PlacesInv, Kept
<1>2. LogSpec => [](LockInv /\ PlacesInv)
  BY PlacesInvariant
<1>3. QED
  BY <1>1, <1>2, KeptInvariant, LogInvariant, PTL

(* After a put that returned true a get would find its value, while no     *)
(* insert finds the pool exhausted.                                        *)
THEOREM PutsStayIndexed ==
  ASSUME BucketsApart
  PROVE  LogSpec /\ []NoneFull => []PutIsIndexed
<1>1. LogInv /\ PlacesInv /\ Kept => PutIsIndexed
  BY KeptIndexed DEF PlacesInv, Kept
<1>2. LogSpec => [](LockInv /\ PlacesInv)
  BY PlacesInvariant
<1>3. QED
  BY <1>1, <1>2, KeptInvariant, LogInvariant, PTL
==============================================================================
