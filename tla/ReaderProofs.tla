---------------------------- MODULE ReaderProofs ------------------------------
(***************************************************************************)
(* Proofs about a get that races with a writer of its main bucket, when    *)
(* the keys of two writers lie in different main buckets and no version    *)
(* wraps around.  As long as the version is the even one that a pass began *)
(* on, nobody has written in the chain that the pass walks, so what it has *)
(* seen there is still so.  Part one is the versions, part two the pass,   *)
(* part three the steps of the others, part four the map that operations   *)
(* on keys of one's own implement.                                         *)
(***************************************************************************)
EXTENDS WriterProofs

Reads(o) == o.op = "get"

(* What is true of an operation whose main bucket has version v: a pass    *)
(* does not come before its version, and a writer has room for its updates.*)
Low(o, v) ==
  /\ Reads(o) => o.ver <= v
  /\ Writes(o) /\ o.pc # "done" => 2 * (v \div 2) < VersionCap

VersionsLow ==
  /\ \A b \in Mains : version[b] <= VersionCap + 1
  /\ \A t \in Threads : Low(th[t], version[th[t].main])

(* Versions rise.                                                          *)
Rise == \A b \in Mains : version[b] <= version'[b]

(* A step of a pass: it keeps the operation and, but for the first, the    *)
(* version it began on.                                                    *)
Pass(t, pc) ==
  /\ th'[t].pc = pc /\ th'[t].op = th[t].op /\ th'[t].asked = th[t].asked
  /\ th'[t].main = th[t].main /\ th'[t].ver = th[t].ver

LEMMA PassFacts ==
  ASSUME LogInv, NEW t \in Threads, NEW pc,
         \/ th' = [th EXCEPT ![t].pc = pc]
         \/ \E ok : th' = [th EXCEPT ![t] = [th[t] EXCEPT !.pc = pc, !.ok = ok]]
         \/ \E off : th' = [th EXCEPT ![t] = [th[t] EXCEPT !.pc = pc, !.off = off]]
         \/ \E key : th' = [th EXCEPT ![t] = [th[t] EXCEPT !.pc = pc, !.key = key]]
         \/ \E val, ok :
              th' = [th EXCEPT ![t] = [th[t] EXCEPT !.pc = pc, !.val = val, !.ok = ok]]
  PROVE  Pass(t, pc)
<1>1. th \in [Threads -> Operations] /\ th[t] \in Operations
  BY ThreadFacts
<1>2. ASSUME NEW ok, th' = [th EXCEPT ![t] = [th[t] EXCEPT !.pc = pc, !.ok = ok]]
      PROVE  Pass(t, pc)
  BY <1>1, <1>2, OperationFields DEF Pass
<1>3. ASSUME NEW off, th' = [th EXCEPT ![t] = [th[t] EXCEPT !.pc = pc, !.off = off]]
      PROVE  Pass(t, pc)
  BY <1>1, <1>3, OperationFields DEF Pass
<1>4. ASSUME NEW key, th' = [th EXCEPT ![t] = [th[t] EXCEPT !.pc = pc, !.key = key]]
      PROVE  Pass(t, pc)
  BY <1>1, <1>4, OperationFields DEF Pass
<1>5. ASSUME NEW val, NEW ok,
             th' = [th EXCEPT ![t] = [th[t] EXCEPT !.pc = pc, !.val = val, !.ok = ok]]
      PROVE  Pass(t, pc)
  BY <1>1, <1>5, OperationFields DEF Pass
<1>6. CASE th' = [th EXCEPT ![t].pc = pc]
  BY <1>1, <1>6, OperationFields DEF Pass
<1>7. QED
  BY <1>2, <1>3, <1>4, <1>5, <1>6

LEMMA PassStep ==
  ASSUME LogInv, NEW t \in Threads, LoopStep(t) \/ GetStep(t)
  PROVE  /\ ~GetBegin(t) => th'[t].ver = th[t].ver
         /\ GetBegin(t) => th'[t].ver = version[th[t].main]
<1>1. CASE RunIndexCall(t)
  BY <1>1 DEF RunIndexCall, GetBegin, At
<1>2. CASE Found(t)
  <2>1. th' = th \/ th' = [th EXCEPT ![t].pc = "offset"]
    BY <1>2 DEF Found, Goto
  <2>2. th'[t].ver = th[t].ver
    BY <2>1, PassFacts DEF Pass
  <2>3. QED
    BY <1>2, <2>2 DEF Found, GetBegin, At
<1>3. CASE LoadOffset(t)
  <2>1. \E off : th' = [th EXCEPT ![t] = [th[t] EXCEPT !.pc = "compare", !.off = off]]
    BY <1>3 DEF LoadOffset
  <2>2. QED
    BY <1>3, <2>1, PassFacts DEF Pass, LoadOffset, GetBegin, At
<1>4. CASE KeyDiffers(t)
  <2>1. th' = [th EXCEPT ![t].pc = "search"]
    BY <1>4 DEF KeyDiffers, Goto
  <2>2. QED
    BY <1>4, <2>1, PassFacts DEF Pass, KeyDiffers, GetBegin, At
<1>5. CASE KeyEqual(t)
  <2>1. th' = [th EXCEPT ![t].pc = "load_key"] \/ th' = [th EXCEPT ![t].pc = "unindex"]
    BY <1>5 DEF KeyEqual, Goto
  <2>2. QED
    BY <1>5, <2>1, PassFacts DEF Pass, KeyEqual, GetBegin, At
<1>6. CASE Missing(t)
  <2>1. \E pc : th' = [th EXCEPT ![t] = [th[t] EXCEPT !.pc = pc, !.ok = FALSE]]
    BY <1>6 DEF Missing
  <2>2. QED
    BY <1>6, <2>1, PassFacts DEF Pass, Missing, GetBegin, At
<1>7. CASE GetBegin(t)
  BY <1>7, ThreadFacts, OperationFields DEF GetBegin
<1>8. CASE GetKey(t)
  <2>1. \E key : th' = [th EXCEPT ![t] = [th[t] EXCEPT !.pc = "load_val", !.key = key]]
    BY <1>8 DEF GetKey
  <2>2. QED
    BY <1>8, <2>1, PassFacts DEF Pass, GetKey, GetBegin, At
<1>9. CASE GetFault(t)
  <2>1. th' = [th EXCEPT ![t].pc = "fault"]
    BY <1>9 DEF GetFault, Goto
  <2>2. QED
    BY <1>9, <2>1, PassFacts DEF Pass, GetFault, GetBegin, At
<1>10. CASE GetVal(t)
  <2>1. \E val, ok : th' = [th EXCEPT ![t] = [th[t] EXCEPT !.pc = "end", !.val = val, !.ok = ok]]
    BY <1>10 DEF GetVal
  <2>2. QED
    BY <1>10, <2>1, PassFacts DEF Pass, GetVal, GetBegin, At
<1>11. CASE GetEnd(t)
  <2>1. th' = [th EXCEPT ![t].pc = "done"] \/ th' = [th EXCEPT ![t].pc = "begin"]
    BY <1>11 DEF GetEnd, Goto
  <2>2. QED
    BY <1>11, <2>1, PassFacts DEF Pass, GetEnd, GetBegin, At
<1>12. QED
  BY <1>1, <1>2, <1>3, <1>4, <1>5, <1>6, <1>7, <1>8, <1>9, <1>10, <1>11
     DEF LoopStep, GetStep

------------------------------------------------------------------------------
(* A writer's version has room to rise by the one of an update.            *)
LEMMA InvokeLow ==
  ASSUME LogInv, VersionsLow, NEW t \in Threads, Invoke(t) \/ Return(t)
  PROVE  version' = version /\ Low(th'[t], version'[th'[t].main])
<1>1. th \in [Threads -> Operations] /\ version' = version
  BY ThreadFacts DEF Invoke, Return, index
<1>2. CASE Invoke(t)
  <2>1. PICK k \in Keys, pc \in {"lock", "begin"}, op \in {"put", "remove", "get"},
             val \in Vals \cup {NoVal} :
          /\ th' = [th EXCEPT ![t] = Op(pc, op, k, val)]
          /\ op \in {"put", "remove"} => version[Main(k)] < VersionCap
    BY <1>2, LogAssumption DEF Invoke
  <2>2. /\ Op(pc, op, k, val).op = op /\ Op(pc, op, k, val).main = Main(k)
        /\ Op(pc, op, k, val).ver = 0
    BY DEF Op, NoOp
  <2>3. th'[t] = Op(pc, op, k, val) /\ version[Main(k)] \in Nat
    BY <1>1, <2>1, KeyFacts, SpareInBuckets DEF LogInv, LogTypeOK, TypeOK
  <2>4. \A n \in Nat : 2 * (n \div 2) <= n
    OBVIOUS
  <2>5. VersionCap \in Nat
    BY LogAssumption
  <2>6. QED
    BY <1>1, <2>1, <2>2, <2>3, <2>4, <2>5 DEF Low, Reads, Writes
<1>3. CASE Return(t)
  <2>1. th'[t] = NoOp
    BY <1>1, <1>3 DEF Return
  <2>2. QED
    BY <1>1, <2>1 DEF Low, Reads, Writes, NoOp
<1>4. QED
  BY <1>2, <1>3

LEMMA LockLow ==
  ASSUME LogInv, LockInv, VersionsLow, VersionCap + 1 < VersionSpan, NEW t \in Threads,
         LockRead(t) \/ LockRepeat(t) \/ LockEnter(t) \/ Unlock(t)
  PROVE  /\ Low(th'[t], version'[th'[t].main])
         /\ version[th[t].main] <= version'[th[t].main]
         /\ version'[th[t].main] <= VersionCap + 1
<1>0. PICK m, n : m = th[t].main /\ n = version[m]
  OBVIOUS
<1>1. /\ th \in [Threads -> Operations] /\ th[t] \in Operations
      /\ version \in [Buckets -> Nat] /\ VersionCap \in Nat
  BY ThreadFacts, LogAssumption DEF LogInv, LogTypeOK, TypeOK
<1>2. th[t].pc \in {"lock", "cas", "unlock"}
  BY DEF LockRead, LockRepeat, LockEnter, Unlock, At
<1>3. /\ Writes(th[t]) /\ ~Reads(th[t]) /\ Holds(t, th[t], n) /\ m \in Mains
      /\ m \in Buckets /\ n \in Nat /\ 2 * (n \div 2) < VersionCap /\ n <= VersionCap + 1
  <2>1. Writes(th[t]) /\ Holds(t, th[t], n) /\ m \in Mains /\ m \in Buckets /\ n \in Nat
    BY <1>0, <1>2, WriterAt, MainFacts DEF LockInv
  <2>2. QED
    BY <1>0, <1>2, <2>1 DEF VersionsLow, Low, Writes, Reads
<1>4. CASE LockRead(t) \/ LockEnter(t)
  <2>1. th'[t].op = th[t].op /\ th'[t].main = m /\ version' = version
    BY <1>0, <1>1, <1>4, OperationFields DEF LockRead, LockEnter, Goto, index
  <2>2. QED
    BY <1>0, <1>3, <2>1 DEF Low, Writes, Reads
<1>5. CASE LockRepeat(t)
  <2>1. /\ th'[t].op = th[t].op /\ th'[t].main = m /\ th[t].ver = n
        /\ version'[m] = 2 * (n \div 2) + 1
    BY <1>0, <1>1, <1>3, <1>5, OperationFields DEF LockRepeat, Goto
  <2>2. n = 2 * (n \div 2)
    <3>1. th[t].pc = "cas"
      BY <1>5 DEF LockRepeat, At
    <3>2. QED
      BY <1>3, <2>1, <3>1 DEF Holds
  <2>3. version'[m] = n + 1 /\ 2 * (version'[m] \div 2) = n
    <3>1. version'[m] = n + 1
      BY <2>1, <2>2
    <3>2. \A i \in Nat : i = 2 * (i \div 2) => 2 * ((i + 1) \div 2) = i
      OBVIOUS
    <3>3. QED
      BY <1>3, <2>2, <3>1, <3>2
  <2>4. QED
    BY <1>0, <1>1, <1>3, <2>1, <2>2, <2>3 DEF Low, Writes, Reads
<1>6. CASE Unlock(t)
  <2>1. /\ th'[t].op = th[t].op /\ th'[t].main = m /\ th'[t].pc = "done"
        /\ version'[m] = (n + 1) % VersionSpan
    BY <1>0, <1>1, <1>3, <1>6, OperationFields DEF Unlock, Goto
  <2>2. n % 2 = 1
    <3>1. th[t].pc \in Updating
      BY <1>6 DEF Unlock, At, Updating
    <3>2. QED
      BY <1>3, <3>1 DEF Holds
  <2>3. n <= VersionCap
    <3>1. \A i \in Nat : i % 2 = 1 => i = 2 * (i \div 2) + 1
      OBVIOUS
    <3>2. n = 2 * (n \div 2) + 1 /\ n \div 2 \in Nat
      BY <1>3, <2>2, <3>1
    <3>3. QED
      BY <1>1, <1>3, <3>2
  <2>4. version'[m] = n + 1
    BY <1>1, <1>3, <2>1, <2>3, LogAssumption, ModSmall
  <2>5. QED
    BY <1>0, <1>1, <1>3, <2>1, <2>3, <2>4 DEF Low, Writes, Reads
<1>7. QED
  BY <1>4, <1>5, <1>6

LEMMA InsideLow ==
  ASSUME LogInv, VersionsLow, NEW t \in Threads, Inside(t),
         Reads(th[t]) => th'[t].ver <= version[th[t].main]
  PROVE  Low(th'[t], version'[th'[t].main])
<1>1. CASE Writes(th[t])
  <2>1. th[t].pc \in Updating /\ th[t].main \in Mains /\ th[t].pc # "done"
    <3>1. th[t].pc \in Updating /\ "idle" \notin Updating /\ "done" \notin Updating
      BY <1>1 DEF Inside, Updating
    <3>2. QED
      BY <3>1, MainFacts
  <2>2. version'[th'[t].main] = version[th[t].main] /\ th'[t].op = th[t].op
    BY <2>1 DEF Inside
  <2>3. QED
    BY <1>1, <2>1, <2>2 DEF VersionsLow, Low, Writes, Reads
<1>2. CASE Reads(th[t])
  <2>1. th[t].main \in Mains
    BY <1>2, ThreadFacts, MainFacts DEF OpControl, Reads
  <2>2. version'[th'[t].main] = version[th[t].main] /\ th'[t].op = th[t].op
    BY <2>1 DEF Inside
  <2>3. QED
    BY <1>2, <2>2 DEF Low, Writes, Reads
<1>3. CASE ~Writes(th[t]) /\ ~Reads(th[t])
  BY <1>3 DEF Inside, Low, Writes, Reads
<1>4. QED
  BY <1>1, <1>2, <1>3

(* Every step but the lock's leaves the versions of main buckets.          *)
LEMMA StepVersions ==
  ASSUME LogInv, LockInv, VersionsLow, VersionCap + 1 < VersionSpan, NEW t \in Threads,
         OpStep(t) \/ Invoke(t) \/ Return(t)
  PROVE  /\ Low(th'[t], version'[th'[t].main]) /\ Bounded(t)
         /\ Rise /\ \A b \in Mains : version'[b] <= VersionCap + 1
<1>1. \A b \in Mains : version[b] \in Nat /\ version[b] <= VersionCap + 1
  BY SpareInBuckets DEF VersionsLow, LogInv, LogTypeOK, TypeOK
<1>2. CASE LockRead(t) \/ LockRepeat(t) \/ LockEnter(t) \/ Unlock(t)
  <2>1. Bounded(t)
    BY <1>2, LockHolds
  <2>2. /\ Low(th'[t], version'[th'[t].main])
        /\ version[th[t].main] <= version'[th[t].main]
        /\ version'[th[t].main] <= VersionCap + 1
    BY <1>2, LockLow
  <2>3. ASSUME NEW b \in Mains
        PROVE  version[b] <= version'[b] /\ version'[b] <= VersionCap + 1
    BY <1>1, <2>1, <2>2 DEF Bounded
  <2>4. QED
    BY <2>1, <2>2, <2>3 DEF Rise
<1>3. CASE Inside(t) /\ (Reads(th[t]) => th'[t].ver <= version[th[t].main])
  <2>1. Bounded(t) /\ Low(th'[t], version'[th'[t].main])
    BY <1>3, InsideHolds, InsideLow
  <2>2. \A b \in Mains : version'[b] = version[b]
    BY <1>3 DEF Inside
  <2>3. QED
    BY <1>1, <2>1, <2>2 DEF Rise
<1>4. CASE Invoke(t) \/ Return(t)
  <2>1. Bounded(t) /\ version' = version /\ Low(th'[t], version'[th'[t].main])
    BY <1>4, InvokeHolds, InvokeLow
  <2>2. QED
    BY <1>1, <2>1 DEF Rise
<1>5. CASE \/ Unindex(t) \/ FreeBlock(t) \/ Allocate(t) \/ AllocateFails(t)
           \/ CopyKey(t) \/ CopyVal(t) \/ Inserted(t)
  <2>1. Inside(t) /\ th[t].pc \in Updating
    BY <1>5, WriterInside
       DEF Unindex, FreeBlock, Allocate, AllocateFails, CopyKey, CopyVal, Inserted, At, Updating
  <2>2. th[t].pc \in {"unindex", "free", "alloc", "copy_key", "copy_val", "insert"}
    BY <1>5 DEF Unindex, FreeBlock, Allocate, AllocateFails, CopyKey, CopyVal, Inserted, At
  <2>3. ~Reads(th[t])
    BY <2>2, ThreadFacts DEF OpControl, Reads, GetPcs
  <2>4. QED
    BY <1>3, <2>1, <2>3
<1>6. CASE LoopStep(t) \/ GetStep(t)
  <2>1. Inside(t)
    BY <1>6, LoopInside, GetInside
  <2>2. ASSUME Reads(th[t])
        PROVE  th'[t].ver <= version[th[t].main]
    <3>1. th[t].main \in Mains
      BY <2>2, ThreadFacts, MainFacts DEF OpControl, Reads
    <3>2. th[t].ver <= version[th[t].main]
      BY <2>2 DEF VersionsLow, Low
    <3>3. QED
      BY <1>1, <1>6, <3>1, <3>2, PassStep
  <2>3. QED
    BY <1>3, <2>1, <2>2
<1>7. QED
  BY <1>2, <1>4, <1>5, <1>6 DEF OpStep, WriterStep

LEMMA VersionsStep ==
  ASSUME BucketsApart, VersionCap + 1 < VersionSpan
  PROVE  LogInv /\ LogInv' /\ LockInv /\ PlacesInv /\ VersionsLow /\ [LogNext]_logVars
           => VersionsLow'
<1> SUFFICES ASSUME LogInv, LogInv', LockInv, PlacesInv, VersionsLow, [LogNext]_logVars
             PROVE  VersionsLow'
  OBVIOUS
<1>1. CASE UNCHANGED logVars
  BY <1>1 DEF VersionsLow, logVars
<1>2. CASE LogNext
  <2>1. PICK t \in Threads : OpStep(t) \/ Invoke(t) \/ Return(t)
    BY <1>2 DEF LogNext
  <2>2. /\ Low(th'[t], version'[th'[t].main]) /\ Bounded(t)
        /\ Rise /\ \A b \in Mains : version'[b] <= VersionCap + 1
    BY <2>1, StepVersions
  <2>3. ASSUME NEW u \in Threads \ {t}
        PROVE  Low(th'[u], version'[th'[u].main])
    <3>1. th'[u] = th[u] /\ Low(th[u], version[th[u].main])
      BY <2>2 DEF Bounded, VersionsLow
    <3>2. CASE Writes(th[u])
      <4>1. th[u].main \in Mains /\ (Writes(th[t]) => th[u].main # th[t].main)
        BY <3>2, WriterFacts, ApartFacts DEF PlacesInv
      <4>2. version'[th[u].main] = version[th[u].main]
        BY <2>2, <4>1 DEF Bounded
      <4>3. QED
        BY <3>1, <4>2
    <3>3. CASE Reads(th[u])
      <4>1. th[u].main \in Mains /\ th[u].main \in Buckets /\ th[u].ver \in Nat
        BY <3>3, ThreadFacts, MainFacts DEF OpControl, Reads
      <4>2. /\ th[u].ver <= version[th[u].main]
            /\ version[th[u].main] <= version'[th[u].main]
        BY <2>2, <3>1, <3>3, <4>1 DEF Rise, Low
      <4>3. version[th[u].main] \in Nat /\ version'[th[u].main] \in Nat
        BY <4>1 DEF LogInv, LogTypeOK, TypeOK
      <4>4. QED
        BY <3>1, <3>3, <4>1, <4>2, <4>3 DEF Low, Writes, Reads
    <3>4. QED
      BY <3>1, <3>2, <3>3 DEF Low
  <2>4. QED
    BY <2>2, <2>3 DEF VersionsLow
<1>3. QED
  BY <1>1, <1>2

------------------------------------------------------------------------------
(* What a pass knows of the chain it walks, as long as its version is even *)
(* and has not moved.                                                      *)
Absent(m, key) == \A d \in ChainFrom[m], j \in Slots : Tagged(d, j) => KeyOf(d, j) # key

Present(m, key, val) ==
  \E d \in ChainFrom[m], j \in Slots :
    Tagged(d, j) /\ KeyOf(d, j) = key /\ log[OffOf(d, j)].val = val

Passed(o, c) ==
  \A d \in ChainFrom[o.main], j \in Slots :
    Tagged(d, j) /\ Before(d, j, c) => KeyOf(d, j) # o.key

Sees(o, c) ==
  /\ c.at \in {"probe", "found"} =>
       c.bkt \in ChainFrom[o.main] /\ c.hash = HashOf[o.key] /\ Passed(o, c)
  /\ c.at = "found" => match_index_entry_tag(entries[c.bkt][c.index].tag, HashOf[o.key])
  /\ o.pc \in {"compare", "load_key", "load_val"} => o.off = OffOf(c.bkt, c.index)
  /\ o.pc \in {"load_key", "load_val"} => log[o.off].key = o.key
  /\ c.at = "missing" => Absent(o.main, o.key)
  /\ o.pc = "end" => IF o.ok THEN Present(o.main, o.key, o.val) ELSE Absent(o.main, o.key)

PassInv == \A t \in Threads : Reads(th[t]) /\ EvenWindow(t) => Sees(th[t], call[t])

LEMMA ReaderFacts ==
  ASSUME LogInv, NEW own, PlaceInv(own), NEW t \in Threads, Reads(th[t]),
         Sees(th[t], call[t])
  PROVE  /\ th[t].main \in Mains /\ th[t].main \in Buckets /\ th[t].main # NULL
         /\ own[th[t].main] = th[t].main /\ HashOf[th[t].key] \in Hashes
         /\ th[t].pc \in GetPcs /\ ~Writes(th[t])
         /\ ChainFrom[th[t].main] = {b \in Buckets : own[b] = th[t].main}
         /\ call[t].at = "found" =>
              /\ call[t].bkt \in Buckets /\ call[t].index \in Slots
              /\ Tagged(call[t].bkt, call[t].index) /\ own[call[t].bkt] = th[t].main
<1>1. th[t].pc # "idle" /\ th[t].pc \in GetPcs /\ ~Writes(th[t])
  BY ThreadFacts DEF OpControl, Reads, Writes
<1>2. th[t].main \in Mains /\ th[t].main \in Buckets /\ HashOf[th[t].key] \in Hashes
  BY <1>1, MainFacts
<1>3. th[t].main # NULL
  BY <1>2, HashAssumption, BucketAssumption DEF Mains, NULL
<1>4. /\ own[th[t].main] = th[t].main
      /\ ChainFrom[th[t].main] = {b \in Buckets : own[b] = th[t].main}
  BY <1>2, ChainOwned DEF PlaceInv, OwnedChains
<1>5. ASSUME call[t].at = "found"
      PROVE  /\ call[t].bkt \in Buckets /\ call[t].index \in Slots
             /\ Tagged(call[t].bkt, call[t].index) /\ own[call[t].bkt] = th[t].main
  <2>1. call[t].bkt \in ChainFrom[th[t].main] /\ call[t].index \in Slots
    BY <1>5, ThreadFacts DEF Sees, CallControl
  <2>2. lookup_key_tag_hash_portion(HashOf[th[t].key]) \in Tags /\ 0 \notin Tags
    <3>1. 0 \notin Tags
      BY DEF Tags
    <3>2. QED
      BY <1>2, <3>1, BucketAssumption, TagRange
  <2>3. Tagged(call[t].bkt, call[t].index)
    BY <1>5, <2>2 DEF Sees, match_index_entry_tag, Tagged
  <2>4. QED
    BY <1>4, <2>1, <2>3
<1>6. QED
  BY <1>1, <1>2, <1>3, <1>4, <1>5

------------------------------------------------------------------------------
(* The steps of the pass itself, which write nothing.                      *)
SameIndex == UNCHANGED <<entries, link, log>>

LEMMA SameSees ==
  ASSUME SameIndex, NEW o, NEW c, Sees(o, c)
  PROVE  Sees(o, c)'
<1>1. ChainFrom' = ChainFrom
  BY DEF SameIndex, ChainFrom, next_spare_bucket
<1>2. QED
  BY <1>1 DEF SameIndex, Sees, Passed, Absent, Present, Tagged, KeyOf, OffOf

LEMMA BeginSees ==
  ASSUME LogInv, NEW own, PlaceInv(own), NEW t \in Threads, GetBegin(t)
  PROVE  Sees(th'[t], call'[t])
<1>0. PICK m, key : m = th[t].main /\ key = th[t].key
  OBVIOUS
<1>1. th'[t].pc = "search" /\ th'[t].key = key /\ th'[t].main = m
  BY <1>0, ThreadFacts, OperationFields DEF GetBegin
<1>2. m \in Mains /\ ChainFrom[m] = {b \in Buckets : own[b] = m} /\ own[m] = m /\ m \in Buckets
  <2>1. m \in Mains /\ m \in Buckets
    BY <1>0, MainFacts DEF GetBegin, At
  <2>2. QED
    BY <2>1, ChainOwned DEF PlaceInv, OwnedChains
<1>3. /\ call'[t].at = "probe" /\ call'[t].bkt = m /\ call'[t].index = 0
      /\ call'[t].hash = HashOf[key]
  BY <1>0, ThreadFacts DEF GetBegin, SearchFirst, Frame
<1>4. ASSUME NEW d \in ChainFrom[m], NEW j \in Slots
      PROVE  ~Before(d, j, call'[t])
  <2>1. ~(d < m)
    BY <1>2, StartsAtHome DEF PlaceInv
  <2>2. QED
    BY <1>3, <2>1, BucketAssumption DEF Before, Slots
<1>5. Passed(th'[t], call'[t])
  BY <1>1, <1>4 DEF Passed
<1>6. QED
  BY <1>1, <1>2, <1>3, <1>5 DEF Sees

LEMMA FoundSees ==
  ASSUME LogInv, NEW t \in Threads, Reads(th[t]), Sees(th[t], call[t]), Found(t)
  PROVE  Sees(th'[t], call'[t])
<1>1. call[t].at = "found" /\ match_index_entry_tag(Entry(t).tag, HashOf[th[t].key])
  BY DEF Found, Sees, Entry
<1>2. Goes(t, "offset") /\ call' = call
  BY <1>1, GoesFacts DEF Found, Goto
<1>3. QED
  BY <1>1, <1>2 DEF Sees, Passed, Goes

LEMMA LoadOffsetSees ==
  ASSUME LogInv, NEW t \in Threads, Reads(th[t]), Sees(th[t], call[t]), LoadOffset(t)
  PROVE  Sees(th'[t], call'[t])
<1>1. call[t].at = "found" /\ call' = call
  BY ThreadFacts DEF LoadOffset, At, CallControl, HitPcs, index
<1>2. /\ th'[t].pc = "compare" /\ th'[t].off = OffOf(call[t].bkt, call[t].index)
      /\ th'[t].key = th[t].key /\ th'[t].main = th[t].main
  BY ThreadFacts, OperationFields DEF LoadOffset, OffOf, Entry
<1>3. QED
  BY <1>1, <1>2 DEF Sees, Passed

LEMMA KeyDiffersSees ==
  ASSUME LogInv, NEW t \in Threads, Reads(th[t]), Sees(th[t], call[t]), KeyDiffers(t)
  PROVE  Sees(th'[t], call'[t])
<1>1. call[t].at = "found" /\ call[t] \in Frames
  BY ThreadFacts DEF KeyDiffers, At, CallControl, HitPcs
<1>2. Goes(t, "search")
  BY GoesFacts DEF KeyDiffers, Goto
<1>3. /\ call'[t].at = "probe" /\ call'[t].bkt = call[t].bkt
      /\ call'[t].index = call[t].index /\ call'[t].hash = call[t].hash
  BY <1>1, ThreadFacts DEF KeyDiffers, SearchAgain, Frames
<1>4. QED
  BY <1>1, <1>2, <1>3 DEF Sees, Passed, Before, Goes

LEMMA KeyEqualSees ==
  ASSUME LogInv, NEW t \in Threads, Reads(th[t]), Sees(th[t], call[t]), KeyEqual(t)
  PROVE  Sees(th'[t], call'[t])
<1>1. /\ call[t].at = "found" /\ call' = call /\ th[t].pc = "compare"
      /\ log[th[t].off].key = th[t].key
  BY ThreadFacts DEF KeyEqual, At, CallControl, HitPcs, index
<1>2. Goes(t, "load_key")
  BY GoesFacts DEF KeyEqual, Goto, Reads
<1>3. QED
  BY <1>1, <1>2 DEF Sees, Passed, Goes

LEMMA MissingSees ==
  ASSUME LogInv, NEW t \in Threads, Reads(th[t]), Sees(th[t], call[t]), Missing(t)
  PROVE  Sees(th'[t], call'[t])
<1>1. call[t].at = "missing" /\ call'[t].at = "idle"
  BY ThreadFacts, NoCallFrame DEF Missing
<1>2. th' = [th EXCEPT ![t] = [th[t] EXCEPT !.pc = "end", !.ok = FALSE]]
  <2>1. OnMissing[th[t].op] = "end"
    BY DEF OnMissing, Reads
  <2>2. QED
    BY <2>1 DEF Missing
<1>3. th'[t].ok = FALSE
  BY <1>2, ThreadFacts, OperationFields
<1>4. Goes(t, "end")
  BY <1>2, GoesFacts
<1>5. QED
  BY <1>1, <1>3, <1>4 DEF Sees, Goes

(* In a window a reader is never at a freed block.                         *)
LEMMA NoFault ==
  ASSUME LogInv, NEW own, PlaceInv(own), NEW t \in Threads, Reads(th[t]),
         Sees(th[t], call[t]), th[t].pc = "load_key"
  PROVE  log[th[t].off].size = "size"
<1>1. call[t].at = "found"
  BY ThreadFacts DEF CallControl, HitPcs
<1>2. /\ call[t].bkt \in Buckets /\ call[t].index \in Slots
      /\ Tagged(call[t].bkt, call[t].index)
  BY <1>1, ReaderFacts
<1>3. th[t].off = OffOf(call[t].bkt, call[t].index)
  BY DEF Sees
<1>4. QED
  BY <1>2, <1>3 DEF PlaceInv, SoundPlaces, SoundPlace, Complete

LEMMA GetKeySees ==
  ASSUME LogInv, NEW t \in Threads, Reads(th[t]), Sees(th[t], call[t]), GetKey(t)
  PROVE  Sees(th'[t], call'[t])
<1>1. call[t].at = "found" /\ call' = call /\ th[t].pc = "load_key"
  BY ThreadFacts DEF GetKey, At, CallControl, HitPcs, index
<1>2. /\ th'[t].pc = "load_val" /\ th'[t].off = th[t].off /\ th'[t].main = th[t].main
      /\ th'[t].key = log[th[t].off].key
  BY ThreadFacts, OperationFields DEF GetKey
<1>3. th'[t].key = th[t].key
  BY <1>1, <1>2 DEF Sees
<1>4. QED
  BY <1>1, <1>2, <1>3 DEF Sees, Passed

LEMMA GetValSees ==
  ASSUME LogInv, NEW own, PlaceInv(own), NEW t \in Threads, Reads(th[t]),
         Sees(th[t], call[t]), GetVal(t)
  PROVE  Sees(th'[t], call'[t])
<1>0. PICK b, i, off : b = call[t].bkt /\ i = call[t].index /\ off = th[t].off
  OBVIOUS
<1>1. call[t].at = "found" /\ th[t].pc = "load_val" /\ call'[t].at = "idle"
  BY ThreadFacts, NoCallFrame DEF GetVal, At, CallControl, HitPcs
<1>2. /\ th'[t].pc = "end" /\ th'[t].key = th[t].key /\ th'[t].main = th[t].main
      /\ th'[t].ok = TRUE /\ th'[t].val = log[off].val
  BY <1>0, ThreadFacts, OperationFields DEF GetVal
<1>3. b \in ChainFrom[th[t].main] /\ i \in Slots /\ Tagged(b, i) /\ off = OffOf(b, i)
      /\ log[off].key = th[t].key
  BY <1>0, <1>1, ReaderFacts DEF Sees
<1>4. Present(th[t].main, th[t].key, log[off].val)
  BY <1>3 DEF Present, KeyOf
<1>5. QED
  BY <1>1, <1>2, <1>4 DEF Sees

(* The search of a pass.                                                   *)
LEMMA ReaderCall ==
  ASSUME LogInv, NEW t \in Threads, Reads(th[t]), RunIndexCall(t)
  PROVE  /\ th[t].pc = "search" /\ th' = th /\ call[t] \in Frames
         /\ call[t].at \in SearchAts
         /\ SlotHit(t) \/ SlotMiss(t) \/ FollowLink(t) \/ ChainEnd(t)
<1>1. th[t].pc = "search" /\ call[t].at \in SearchAts
  BY CallAts, ThreadFacts DEF OpControl, GetPcs, Reads
<1>2. SlotHit(t) \/ SlotMiss(t) \/ FollowLink(t) \/ ChainEnd(t)
  BY <1>1, CallAts
     DEF IndexStep, SearchAts, AtSlot, InsertStore, InsertPublish, InsertFull, InsertLink,
         ClaimSkip, ClaimTake, DeleteClear
<1>3. QED
  BY <1>1, <1>2, CallAts

LEMMA SlotSees ==
  ASSUME LogInv, NEW own, PlaceInv(own), NEW t \in Threads, Reads(th[t]),
         Sees(th[t], call[t]), RunIndexCall(t), SlotHit(t) \/ SlotMiss(t)
  PROVE  Sees(th'[t], call'[t])
<1>0. PICK o, c : o = th[t] /\ c = call[t]
  OBVIOUS
<1>1. /\ c \in Frames /\ c.at = "probe" /\ c.index \in Slots /\ th'[t] = o
      /\ o.pc = "search"
  BY <1>0, ReaderCall DEF SlotHit, SlotMiss, Walking, OnHit, SearchAts
<1>2. c.bkt \in ChainFrom[o.main] /\ c.hash = HashOf[o.key] /\ Passed(o, c)
  BY <1>0, <1>1 DEF Sees
<1>3. c.bkt \in Buckets /\ \A d \in ChainFrom[o.main] : d \in Buckets
  BY <1>0, <1>2, ReaderFacts
<1>4. Qualifies(t) <=> match_index_entry_tag(entries[c.bkt][c.index].tag, HashOf[o.key])
  BY <1>0, <1>1, <1>2 DEF Qualifies, Entry
<1>5. CASE SlotHit(t)
  <2>1. /\ call'[t].at = "found" /\ call'[t].bkt = c.bkt /\ call'[t].index = c.index
        /\ call'[t].hash = c.hash
    BY <1>0, <1>1, <1>5, CallAts DEF SlotHit, Frames, OnHit
  <2>2. Qualifies(t)
    BY <1>5 DEF SlotHit
  <2>3. Passed(o, call'[t])
    BY <1>2, <2>1 DEF Passed, Before
  <2>4. QED
    BY <1>1, <1>2, <1>4, <2>1, <2>2, <2>3 DEF Sees
<1>6. CASE SlotMiss(t)
  <2>1. /\ call'[t].at = "probe" /\ call'[t].bkt = c.bkt /\ call'[t].index = c.index + 1
        /\ call'[t].hash = c.hash
    BY <1>0, <1>1, <1>6, CallAts DEF SlotMiss, Frames
  <2>2. ~Qualifies(t)
    BY <1>6 DEF SlotMiss
  <2>3. ASSUME NEW d \in ChainFrom[o.main], NEW j \in Slots, Tagged(d, j),
               Before(d, j, call'[t])
        PROVE  KeyOf(d, j) # o.key
    <3>1. CASE d = c.bkt /\ j = c.index
      BY <1>3, <1>4, <2>2, <2>3, <3>1, OtherTag
    <3>2. CASE ~(d = c.bkt /\ j = c.index)
      <4>1. Before(d, j, c)
        BY <1>1, <2>1, <2>3, <3>2, BucketAssumption DEF Before, Slots
      <4>2. QED
        BY <1>2, <2>3, <4>1 DEF Passed
    <3>3. QED
      BY <3>1, <3>2
  <2>4. Passed(o, call'[t])
    BY <2>3 DEF Passed
  <2>5. QED
    BY <1>1, <1>2, <2>1, <2>4 DEF Sees
<1>7. QED
  BY <1>5, <1>6

LEMMA BucketEndSees ==
  ASSUME LogInv, NEW own, PlaceInv(own), NEW t \in Threads, Reads(th[t]),
         Sees(th[t], call[t]), RunIndexCall(t), FollowLink(t) \/ ChainEnd(t)
  PROVE  Sees(th'[t], call'[t])
<1>0. PICK o, c, b : o = th[t] /\ c = call[t] /\ b = call[t].bkt
  OBVIOUS
<1>1. /\ c \in Frames /\ c.at = "probe" /\ c.index = BUCKET_ENTRY_SIZE /\ th'[t] = o
      /\ o.pc = "search"
  BY <1>0, ReaderCall DEF FollowLink, ChainEnd, AtBucketEnd, Walking, OnHit, SearchAts
<1>2. b \in ChainFrom[o.main] /\ c.hash = HashOf[o.key] /\ Passed(o, c)
  BY <1>0, <1>1 DEF Sees
<1>3. /\ b \in Buckets /\ own[b] = o.main /\ own[b] # NULL
      /\ ChainFrom[o.main] = {d \in Buckets : own[d] = o.main}
  BY <1>0, <1>2, ReaderFacts
<1>4. b \in Int /\ link[b] \in Nat /\ \A d \in Buckets : d \in Int
  <2>1. link[b] \in 0..(LinkSpan - 1)
    BY <1>3 DEF LogInv, LogTypeOK, TypeOK
  <2>2. QED
    BY <1>3, <2>1, PoolFits DEF Buckets
<1>5. CASE FollowLink(t)
  <2>1. /\ call'[t].at = "probe" /\ call'[t].bkt = b + link[b] /\ link[b] # 0
        /\ call'[t].index = 0 /\ call'[t].hash = c.hash
    BY <1>0, <1>1, <1>5, CallAts DEF FollowLink, Frames, next_spare_bucket
  <2>2. b + link[b] \in ChainFrom[o.main]
    BY <1>3, <2>1, NextFacts DEF PlaceInv, OwnedChains
  <2>3. ASSUME NEW d \in ChainFrom[o.main], NEW j \in Slots, Tagged(d, j),
               Before(d, j, call'[t])
        PROVE  KeyOf(d, j) # o.key
    <3>1. d \in Buckets /\ own[d] = own[b] /\ j \in 0..(BUCKET_ENTRY_SIZE - 1)
      BY <1>3 DEF Slots
    <3>2. d < b + link[b]
      BY <2>1, <2>3, <3>1 DEF Before
    <3>3. ~(b < d)
      <4>1. b < d => b + link[b] <= d
        BY <1>3, <3>1, ChainBehind
      <4>2. \A x, y \in Int : x < y => ~(y <= x)
        OBVIOUS
      <4>3. d \in Int /\ b + link[b] \in Int
        BY <1>4, <3>1
      <4>4. QED
        BY <3>2, <4>1, <4>2, <4>3
    <3>4. Before(d, j, c)
      BY <1>0, <1>1, <1>4, <3>1, <3>3, BucketAssumption DEF Before
    <3>5. QED
      BY <1>2, <2>3, <3>4 DEF Passed
  <2>4. Passed(o, call'[t])
    BY <2>3 DEF Passed
  <2>5. QED
    BY <1>1, <1>2, <2>1, <2>2, <2>4 DEF Sees
<1>6. CASE ChainEnd(t)
  <2>1. call'[t].at = "missing"
    BY <1>0, <1>1, <1>6, CallAts DEF ChainEnd, OnEnd, Frames
  <2>2. link[b] = 0
    BY <1>0, <1>3, <1>6, NextFacts DEF ChainEnd
  <2>3. ASSUME NEW d \in ChainFrom[o.main], NEW j \in Slots, Tagged(d, j)
        PROVE  KeyOf(d, j) # o.key
    <3>1. d \in Buckets /\ own[d] = own[b] /\ j \in 0..(BUCKET_ENTRY_SIZE - 1)
      BY <1>3 DEF Slots
    <3>2. ~(b < d)
      BY <1>3, <2>2, <3>1, ChainBehind
    <3>3. Before(d, j, c)
      BY <1>0, <1>1, <1>4, <3>1, <3>2, BucketAssumption DEF Before
    <3>4. QED
      BY <1>2, <2>3, <3>3 DEF Passed
  <2>4. Absent(o.main, o.key)
    BY <2>3 DEF Absent
  <2>5. QED
    BY <1>1, <2>1, <2>4 DEF Sees
<1>7. QED
  BY <1>5, <1>6

(* A pass keeps its knowledge at every step, and its first step gains it.  *)
LEMMA PassSees ==
  ASSUME LogInv, NEW own, PlaceInv(own), NEW t \in Threads, Reads(th[t]),
         LoopStep(t) \/ GetStep(t), GetBegin(t) \/ Sees(th[t], call[t])
  PROVE  Sees(th'[t], call'[t])
<1>1. CASE GetBegin(t)
  BY <1>1, BeginSees
<1>2. CASE RunIndexCall(t) /\ Sees(th[t], call[t])
  BY <1>2, ReaderCall, SlotSees, BucketEndSees
<1>3. CASE GetFault(t) /\ Sees(th[t], call[t])
  BY <1>3, NoFault DEF GetFault, At
<1>4. CASE GetEnd(t)
  <2>1. call'[t].at = "idle"
    BY <1>4, ThreadFacts, NoCallFrame DEF GetEnd, At, CallControl, HitPcs, index
  <2>2. \E pc \in {"done", "begin"} : Goes(t, pc)
    <3>1. th' = [th EXCEPT ![t].pc = "done"] \/ th' = [th EXCEPT ![t].pc = "begin"]
      BY <1>4 DEF GetEnd, Goto
    <3>2. QED
      BY <3>1, GoesFacts
  <2>3. QED
    BY <2>1, <2>2 DEF Sees, Goes
<1>5. QED
  BY <1>1, <1>2, <1>3, <1>4, FoundSees, LoadOffsetSees, KeyDiffersSees, KeyEqualSees,
     MissingSees, GetKeySees, GetValSees DEF LoopStep, GetStep, GetBegin, At, RunIndexCall

------------------------------------------------------------------------------
(* What the others do is nothing to the chain of a reader in a window: a   *)
(* writer of its main bucket would have the version odd.                   *)
ChainLaw ==
  \A own : OwnedChains(own) => \A m \in Mains : ChainFrom[m] = {b \in Buckets : own[b] = m}

LEMMA ChainLawHolds == LogInv => ChainLaw
BY ChainOwned DEF ChainLaw

Still(m) ==
  /\ ChainFrom'[m] = ChainFrom[m]
  /\ \A d \in ChainFrom[m], j \in Slots :
       /\ entries'[d][j] = entries[d][j]
       /\ Tagged(d, j) => log'[OffOf(d, j)] = log[OffOf(d, j)]

LEMMA SeesStill ==
  ASSUME LogInv, NEW own, PlaceInv(own), NEW t \in Threads, Reads(th[t]),
         NEW o, NEW c, o = th[t], c = call[t], Still(o.main), Sees(o, c)
  PROVE  Sees(o, c)'
<1>1. ChainFrom'[o.main] = ChainFrom[o.main]
  BY DEF Still
<1>2. ASSUME NEW d \in ChainFrom[o.main], NEW j \in Slots
      PROVE  /\ Tagged(d, j)' <=> Tagged(d, j)
             /\ OffOf(d, j)' = OffOf(d, j)
             /\ entries'[d][j] = entries[d][j]
             /\ Tagged(d, j) => KeyOf(d, j)' = KeyOf(d, j)
             /\ Tagged(d, j) => log'[OffOf(d, j)] = log[OffOf(d, j)]
  BY <1>2 DEF Still, Tagged, OffOf, KeyOf
<1>3. c.at = "found" =>
        c.bkt \in ChainFrom[o.main] /\ c.index \in Slots /\ Tagged(c.bkt, c.index)
  BY ReaderFacts DEF Sees
<1>4. c.at \in {"probe", "found"} => Passed(o, c)'
  BY <1>1, <1>2 DEF Sees, Passed
<1>5. Absent(o.main, o.key) => Absent(o.main, o.key)'
  BY <1>1, <1>2 DEF Absent
<1>6. Present(o.main, o.key, o.val) => Present(o.main, o.key, o.val)'
  <2>1. SUFFICES ASSUME NEW d \in ChainFrom[o.main], NEW j \in Slots, Tagged(d, j),
                        KeyOf(d, j) = o.key, log[OffOf(d, j)].val = o.val
                 PROVE  Present(o.main, o.key, o.val)'
    BY DEF Present
  <2>2. /\ d \in ChainFrom'[o.main] /\ Tagged(d, j)' /\ KeyOf(d, j)' = o.key
        /\ log'[OffOf(d, j)'].val = o.val
    BY <1>1, <1>2, <2>1
  <2>3. QED
    BY <2>2 DEF Present
<1>7. /\ c.at \in {"probe", "found"} =>
           c.bkt \in ChainFrom'[o.main] /\ c.hash = HashOf[o.key]
      /\ c.at = "found" => match_index_entry_tag(entries'[c.bkt][c.index].tag, HashOf[o.key])
  BY <1>1, <1>2, <1>3 DEF Sees
<1>8. /\ o.pc \in {"compare", "load_key", "load_val"} => o.off = OffOf(c.bkt, c.index)'
      /\ o.pc \in {"load_key", "load_val"} => log'[o.off].key = o.key
  <2>1. o.pc \in {"compare", "load_key", "load_val"} => c.at = "found"
    BY ThreadFacts DEF CallControl, HitPcs
  <2>2. QED
    BY <1>2, <1>3, <2>1 DEF Sees
<1>9. QED
  BY <1>4, <1>5, <1>6, <1>7, <1>8 DEF Sees

(* A step that links a bucket, writes an entry or a block is a writer's    *)
(* between lock and unlock.                                                *)
LEMMA StepWrites ==
  ASSUME LogInv, NEW t \in Threads, OpStep(t) \/ Invoke(t) \/ Return(t)
  PROVE  SameIndex \/ (Writes(th[t]) /\ th[t].pc \in Updating)
<1>1. CASE \/ Unindex(t) \/ FreeBlock(t) \/ CopyKey(t) \/ CopyVal(t)
  <2>1. th[t].pc \in {"unindex", "free", "copy_key", "copy_val"}
    BY <1>1 DEF Unindex, FreeBlock, CopyKey, CopyVal, At
  <2>2. Writes(th[t])
    BY <2>1, ThreadFacts, OperationFields DEF OpControl, GetPcs, Writes
  <2>3. QED
    BY <2>1, <2>2 DEF Updating
<1>2. CASE \/ LockRead(t) \/ LockRepeat(t) \/ LockEnter(t) \/ Allocate(t) \/ AllocateFails(t)
           \/ Inserted(t) \/ Unlock(t) \/ Invoke(t) \/ Return(t)
  BY <1>2
     DEF LockRead, LockRepeat, LockEnter, Allocate, AllocateFails, Inserted, Unlock, Invoke,
         Return, index, SameIndex
<1>3. CASE LoopStep(t) /\ Writes(th[t])
  BY <1>3, LoopInside DEF Inside
<1>4. CASE ~Writes(th[t]) /\ (LoopStep(t) \/ GetStep(t))
  BY <1>4, GetLooks DEF SameIndex
<1>5. CASE GetStep(t)
  BY <1>5
     DEF GetStep, GetBegin, GetKey, GetFault, GetVal, GetEnd, index, SameIndex
<1>6. QED
  BY <1>1, <1>2, <1>3, <1>4, <1>5 DEF OpStep, WriterStep

LEMMA StepCalls ==
  ASSUME LogInv, NEW t \in Threads, OpStep(t) \/ Invoke(t) \/ Return(t)
  PROVE  \A u \in Threads \ {t} : call'[u] = call[u]
<1>1. CASE RunIndexCall(t)
  BY <1>1, CallAts
<1>2. CASE WriterStep(t)
  BY <1>2, ThreadFacts
     DEF WriterStep, LockRead, LockRepeat, LockEnter, Unindex, FreeBlock, Allocate,
         AllocateFails, CopyKey, CopyVal, Inserted, Unlock, SearchFirst, index
<1>3. CASE LoopStep(t) /\ ~RunIndexCall(t)
  BY <1>3, ThreadFacts
     DEF LoopStep, Found, LoadOffset, KeyDiffers, KeyEqual, Missing, SearchAgain, index
<1>4. CASE GetStep(t)
  BY <1>4, ThreadFacts
     DEF GetStep, GetBegin, GetKey, GetFault, GetVal, GetEnd, SearchFirst, index
<1>5. CASE Invoke(t) \/ Return(t)
  BY <1>5 DEF Invoke, Return, index
<1>6. QED
  BY <1>1, <1>2, <1>3, <1>4, <1>5 DEF OpStep

LEMMA LinksInInsert ==
  ASSUME LogInv, NEW t \in Threads, OpStep(t) \/ Invoke(t) \/ Return(t), link' # link
  PROVE  Writes(th[t]) /\ RunIndexCall(t) /\ InsertLink(t)
<1>1. RunIndexCall(t)
  BY DEF OpStep, WriterStep, LoopStep, GetStep, LockRead, LockRepeat, LockEnter, Unindex,
         FreeBlock, Allocate, AllocateFails, CopyKey, CopyVal, Inserted, Unlock, Found,
         LoadOffset, KeyDiffers, KeyEqual, Missing, GetBegin, GetKey, GetFault, GetVal,
         GetEnd, Invoke, Return, index
<1>2. InsertLink(t)
  BY <1>1
     DEF RunIndexCall, IndexStep, SlotHit, SlotMiss, FollowLink, ChainEnd, InsertStore,
         InsertPublish, InsertFull, InsertLink, ClaimSkip, ClaimTake, DeleteClear
<1>3. Writes(th[t])
  BY <1>1, GetLooks DEF LoopStep
<1>4. QED
  BY <1>1, <1>2, <1>3

LEMMA ChainStays ==
  ASSUME LogInv, NEW own, PlaceInv(own), ChainLaw', NEW t \in Threads,
         OpStep(t) \/ Invoke(t) \/ Return(t),
         NEW m \in Mains, ~(Writes(th[t]) /\ th[t].main = m)
  PROVE  ChainFrom'[m] = ChainFrom[m]
<1>1. CASE link' = link
  <2>1. ChainFrom' = ChainFrom
    BY <1>1 DEF ChainFrom, next_spare_bucket
  <2>2. QED
    BY <2>1
<1>2. CASE link' # link
  <2>1. Writes(th[t]) /\ RunIndexCall(t) /\ InsertLink(t)
    BY <1>2, LinksInInsert
  <2>2. PICK joined, k, s : Joins(t, own, joined, k, s)
    BY <2>1, LinkJoins
  <2>3. OwnedChains(joined)'
    BY <2>1, <2>2, JoinedChains
  <2>4. ChainFrom'[m] = {b \in Buckets : joined[b] = m}
    BY <2>3 DEF ChainLaw
  <2>5. ChainFrom[m] = {b \in Buckets : own[b] = m}
    BY ChainOwned DEF PlaceInv
  <2>6. ASSUME NEW b \in Buckets
        PROVE  joined[b] = m <=> own[b] = m
    <3>1. joined[s] # m /\ own[s] # m
      <4>1. m # NULL
        BY HashAssumption, BucketAssumption DEF Mains, NULL
      <4>2. QED
        BY <2>1, <2>2, <4>1, JoinedFacts DEF Joins
    <3>2. b # s => joined[b] = own[b]
      BY <2>1, <2>2, JoinedFacts
    <3>3. QED
      BY <3>1, <3>2
  <2>7. QED
    BY <2>4, <2>5, <2>6
<1>3. QED
  BY <1>1, <1>2

LEMMA StillStep ==
  ASSUME LogInv, BucketsApart, NEW own, PlaceInv(own), ChainLaw', NEW t \in Threads,
         OpStep(t) \/ Invoke(t) \/ Return(t),
         NEW m \in Mains, ~(Writes(th[t]) /\ th[t].main = m)
  PROVE  Still(m)
<1>1. ChainFrom'[m] = ChainFrom[m]
  BY ChainStays
<1>2. ChainFrom[m] = {b \in Buckets : own[b] = m}
  BY ChainOwned DEF PlaceInv
<1>3. ASSUME NEW d \in Buckets, own[d] = m, NEW j \in Slots
      PROVE  /\ entries'[d][j] = entries[d][j]
             /\ Tagged(d, j) => log'[OffOf(d, j)] = log[OffOf(d, j)]
  <2>1. CASE Quiet
    BY <2>1 DEF Quiet
  <2>2. CASE Writes(th[t]) /\ \E off : Writing(t, off)
    <3>1. PICK off : Writing(t, off)
      BY <2>2
    <3>2. entries' = entries
      BY <3>1 DEF Writing
    <3>3. QED
      BY <3>1, <3>2, KeysKept
  <2>3. CASE Writes(th[t]) /\ \E b, i : Slotting(t, own, b, i)
    <3>1. PICK b, i : Slotting(t, own, b, i)
      BY <2>3
    <3>2. b # d /\ log' = log
      BY <1>3, <2>3, <3>1 DEF Slotting
    <3>3. QED
      BY <3>1, <3>2 DEF Slotting
  <2>4. QED
    BY <2>1, <2>2, <2>3, StepKinds
<1>4. QED
  BY <1>1, <1>2, <1>3 DEF Still

(* The version of a window has not moved.                                  *)
LEMMA WindowOpen ==
  ASSUME LogInv, LogInv', NEW t \in Threads, Reads(th[t]), Low(th[t], version[th[t].main]),
         Rise, NEW o, o = th[t], o.ver % 2 = 0, version'[o.main] = o.ver
  PROVE  EvenWindow(t)
<1>1. o.main \in Mains /\ o.main \in Buckets
  BY ThreadFacts, MainFacts DEF OpControl, Reads
<1>2. version[o.main] \in Nat /\ version'[o.main] \in Nat
  BY <1>1 DEF LogInv, LogTypeOK, TypeOK
<1>3. o.ver <= version[o.main] /\ version[o.main] <= version'[o.main]
  BY <1>1 DEF Low, Rise
<1>4. QED
  BY <1>2, <1>3 DEF EvenWindow

LEMMA SeesKept ==
  ASSUME LogInv, BucketsApart, NEW own, PlaceInv(own), ChainLaw', NEW t \in Threads,
         OpStep(t) \/ Invoke(t) \/ Return(t), NEW u \in Threads, Reads(th[u]),
         NEW o, NEW c, o = th[u], c = call[u], Sees(o, c),
         Writes(th[t]) /\ th[t].pc \in Updating => th[t].main # o.main
  PROVE  Sees(o, c)'
<1>1. CASE SameIndex
  BY <1>1, SameSees
<1>2. CASE Writes(th[t]) /\ th[t].pc \in Updating
  <2>1. o.main \in Mains
    BY ReaderFacts
  <2>2. Still(o.main)
    BY <1>2, <2>1, StillStep
  <2>3. QED
    BY <2>2, SeesStill
<1>3. QED
  BY <1>1, <1>2, StepWrites

LEMMA OthersSee ==
  ASSUME LogInv, LogInv', ChainLaw', BucketsApart, LockInv, PassInv, Rise,
         NEW own, PlaceInv(own), NEW t \in Threads, OpStep(t) \/ Invoke(t) \/ Return(t),
         NEW u \in Threads \ {t}, Reads(th[u]), Low(th[u], version[th[u].main]),
         NEW o, NEW c, o = th[u], c = call[u], o.ver % 2 = 0, version'[o.main] = o.ver
  PROVE  Sees(o, c)'
<1>1. EvenWindow(u) /\ Sees(o, c)
  BY WindowOpen DEF PassInv
<1>2. Writes(th[t]) /\ th[t].pc \in Updating => th[t].main # o.main
  BY <1>1 DEF LockInv, Holds, EvenWindow
<1>3. QED
  BY <1>1, <1>2, SeesKept

------------------------------------------------------------------------------
(* The thread of a pass itself.                                            *)
LEMMA OpKept ==
  ASSUME LogInv, NEW t \in Threads, OpStep(t)
  PROVE  th'[t].op = th[t].op
<1>1. CASE \/ LockRead(t) \/ LockRepeat(t) \/ LockEnter(t) \/ Unlock(t)
  <2>1. PICK pc : \/ th' = [th EXCEPT ![t].pc = pc]
                  \/ \E ver : th' = [th EXCEPT ![t] = [th[t] EXCEPT !.pc = pc, !.ver = ver]]
    BY <1>1 DEF LockRead, LockRepeat, LockEnter, Unlock, Goto
  <2>2. QED
    BY <2>1, GoesFacts DEF Goes
<1>2. QED
  BY <1>1, WriterInside, LoopInside, GetInside DEF OpStep, WriterStep, Inside

LEMMA ReaderSteps ==
  ASSUME LogInv, NEW t \in Threads, OpStep(t), Reads(th[t])
  PROVE  LoopStep(t) \/ GetStep(t)
<1>1. th[t].pc \in GetPcs
  BY ThreadFacts DEF OpControl, Reads
<1>2. ~WriterStep(t)
  BY <1>1
     DEF GetPcs, WriterStep, LockRead, LockRepeat, LockEnter, Unindex, FreeBlock, Allocate,
         AllocateFails, CopyKey, CopyVal, Inserted, Unlock, At
<1>3. QED
  BY <1>2 DEF OpStep

LEMMA OwnSees ==
  ASSUME LogInv, NEW own, PlaceInv(own), NEW t \in Threads,
         OpStep(t) \/ Invoke(t) \/ Return(t), Reads(th'[t]),
         NEW o, NEW c, o = th'[t], c = call'[t],
         OpStep(t) /\ ~GetBegin(t) => Sees(th[t], call[t])
  PROVE  Sees(o, c)'
<1>1. CASE Invoke(t) \/ Return(t)
  <2>1. c.at = "idle" /\ SameIndex
    <3>1. th[t].pc \in {"idle", "done"} /\ call' = call /\ SameIndex
      BY <1>1 DEF Invoke, Return, At, index, SameIndex
    <3>2. QED
      BY <3>1, ThreadFacts, NoCallFrame DEF CallControl, HitPcs
  <2>2. o.pc \in {"lock", "begin", "idle"}
    <3>1. CASE Invoke(t)
      <4>1. PICK k, pc, op, val :
              pc \in {"lock", "begin"} /\ th' = [th EXCEPT ![t] = Op(pc, op, k, val)]
        BY <3>1 DEF Invoke
      <4>2. th'[t] = Op(pc, op, k, val) /\ Op(pc, op, k, val).pc = pc
        BY <4>1, ThreadFacts DEF Op, NoOp
      <4>3. QED
        BY <4>1, <4>2
    <3>2. CASE Return(t)
      BY <3>2, ThreadFacts DEF Return, NoOp
    <3>3. QED
      BY <1>1, <3>1, <3>2
  <2>3. Sees(o, c)
    BY <2>1, <2>2 DEF Sees
  <2>4. QED
    BY <2>1, <2>3, SameSees
<1>2. CASE OpStep(t)
  <2>1. Reads(th[t]) /\ ~Writes(th[t])
    BY <1>2, OpKept DEF Reads, Writes
  <2>2. LoopStep(t) \/ GetStep(t)
    BY <1>2, <2>1, ReaderSteps
  <2>3. SameIndex
    BY <2>1, <2>2, GetLooks DEF SameIndex
  <2>4. Sees(o, c)
    BY <1>2, <2>1, <2>2, PassSees
  <2>5. QED
    BY <2>3, <2>4, SameSees
<1>3. QED
  BY <1>1, <1>2

(* A window of the thread itself was open before, unless the step opens it.*)
LEMMA OwnWindow ==
  ASSUME LogInv, PassInv, NEW t \in Threads, OpStep(t), ~GetBegin(t), Reads(th'[t]),
         NEW o, o = th'[t], o.ver % 2 = 0, version'[o.main] = o.ver
  PROVE  Sees(th[t], call[t])
<1>1. Reads(th[t])
  BY OpKept DEF Reads
<1>2. th[t].main \in Mains
  BY <1>1, ThreadFacts, MainFacts DEF OpControl, Reads
<1>3. o.ver = th[t].ver /\ o.main = th[t].main /\ version'[o.main] = version[o.main]
  BY <1>1, <1>2, ReaderSteps, PassStep, LoopInside, GetInside DEF Inside
<1>4. QED
  BY <1>1, <1>3 DEF PassInv, EvenWindow

LEMMA PassInvStep ==
  ASSUME BucketsApart, VersionCap + 1 < VersionSpan
  PROVE  LogInv /\ LogInv' /\ ChainLaw' /\ LockInv /\ PlacesInv /\ VersionsLow /\ PassInv
           /\ [LogNext]_logVars => PassInv'
<1> SUFFICES ASSUME LogInv, LogInv', ChainLaw', LockInv, PlacesInv, VersionsLow, PassInv,
                    [LogNext]_logVars
             PROVE  PassInv'
  OBVIOUS
<1>1. CASE UNCHANGED logVars
  <2>1. SameIndex /\ th' = th /\ call' = call /\ version' = version
    BY <1>1 DEF logVars, SameIndex
  <2>2. ASSUME NEW u \in Threads, Reads(th'[u]), EvenWindow(u)'
        PROVE  Sees(th[u], call[u])'
    <3>1. PICK o, c : o = th[u] /\ c = call[u]
      OBVIOUS
    <3>2. Sees(o, c)
      BY <2>1, <2>2, <3>1 DEF PassInv, EvenWindow
    <3>3. Sees(o, c)' /\ th'[u] = o /\ call'[u] = c
      BY <2>1, <3>1, <3>2, SameSees
    <3>4. QED
      BY <3>3
  <2>3. QED
    BY <2>2 DEF PassInv
<1>2. CASE LogNext
  <2>1. PICK t \in Threads : OpStep(t) \/ Invoke(t) \/ Return(t)
    BY <1>2 DEF LogNext
  <2>2. PICK own : PlaceInv(own)
    BY DEF PlacesInv
  <2>3. ASSUME NEW u \in Threads, Reads(th'[u]), EvenWindow(u)'
        PROVE  Sees(th[u], call[u])'
    <3>1. PICK o, c : o = th'[u] /\ c = call'[u]
      OBVIOUS
    <3>2. Reads(o) /\ o.ver % 2 = 0 /\ version'[o.main] = o.ver
      BY <2>3, <3>1 DEF EvenWindow
    <3>3. CASE u = t
      <4>1. Sees(o, c)'
        BY <2>1, <2>2, <2>3, <3>1, <3>2, <3>3, OwnWindow, OwnSees
      <4>2. QED
        BY <3>1, <4>1
    <3>4. CASE u # t
      <4>1. o = th[u] /\ c = call[u] /\ Rise
        BY <2>1, <3>1, <3>4, StepBounded, StepCalls, StepVersions
      <4>2. Low(th[u], version[th[u].main])
        BY DEF VersionsLow
      <4>3. Sees(o, c)'
        BY <2>1, <2>2, <3>2, <3>4, <4>1, <4>2, OthersSee
      <4>4. QED
        BY <3>1, <4>3
    <3>5. QED
      BY <3>3, <3>4
  <2>4. QED
    BY <2>3 DEF PassInv
<1>3. QED
  BY <1>1, <1>2

------------------------------------------------------------------------------
LEMMA LookupMisses ==
  ASSUME LogInv, NEW own, PlaceInv(own), NEW k \in Keys, Absent(Main(k), k)
  PROVE  Lookup(k) = NoVal
<1> DEFINE hits == {p \in Published(Main(k)) :
              match_index_entry_tag(TagAt(p), HashOf[k]) /\ log[OffsetAt(p)].key = k}
<1>1. Main(k) \in Mains
  BY KeyFacts
<1>2. ASSUME NEW p \in hits
      PROVE  FALSE
  <2>1. /\ p \in Buckets \X Slots /\ own[p[1]] = Main(k) /\ Tagged(p[1], p[2])
        /\ KeyOf(p[1], p[2]) = k
    BY <1>1, <1>2, PublishedAre DEF OffsetAt, OffOf, KeyOf
  <2>2. p[1] \in ChainFrom[Main(k)] /\ p[2] \in Slots
    BY <1>1, <2>1, ChainOwned DEF PlaceInv
  <2>3. QED
    BY <2>1, <2>2 DEF Absent
<1>3. hits = {}
  BY <1>2
<1>4. QED
  BY <1>3 DEF Lookup

LEMMA WindowGets ==
  ASSUME LogInv, NEW own, PlaceInv(own), PassInv, NEW t \in Threads
  PROVE  /\ GetFault(t) => ~EvenWindow(t)
         /\ GetEnd(t) /\ EvenWindow(t) /\ th[t].key = th[t].asked =>
              Lookup(th[t].asked) = IF th[t].ok THEN th[t].val ELSE NoVal
<1>1. SUFFICES ASSUME EvenWindow(t), th[t].pc \in {"load_key", "end"}
               PROVE  /\ ~GetFault(t)
                      /\ GetEnd(t) /\ th[t].key = th[t].asked =>
                           Lookup(th[t].asked) = IF th[t].ok THEN th[t].val ELSE NoVal
  BY DEF GetFault, GetEnd, At
<1>2. Reads(th[t])
  BY <1>1, ThreadFacts, OperationFields DEF OpControl, WriterPcs, Updating, Reads
<1>3. Sees(th[t], call[t])
  BY <1>1, <1>2 DEF PassInv
<1>4. ~GetFault(t)
  BY <1>2, <1>3, NoFault DEF GetFault, At
<1>5. ASSUME GetEnd(t), th[t].key = th[t].asked
      PROVE  Lookup(th[t].asked) = IF th[t].ok THEN th[t].val ELSE NoVal
  <2>1. /\ th[t].pc = "end" /\ th[t].key \in Keys /\ th[t].main = Main(th[t].key)
    BY <1>1, <1>5, ThreadFacts DEF GetEnd, At, OpControl
  <2>2. CASE th[t].ok
    <3>1. PICK d \in ChainFrom[th[t].main], j \in Slots :
            Tagged(d, j) /\ KeyOf(d, j) = th[t].key /\ log[OffOf(d, j)].val = th[t].val
      BY <1>3, <2>1, <2>2 DEF Sees, Present
    <3>2. d \in Buckets
      BY <1>2, <1>3, <3>1, ReaderFacts
    <3>3. QED
      BY <1>5, <2>2, <3>1, <3>2, LookupFinds
  <2>3. CASE ~th[t].ok
    <3>1. Absent(Main(th[t].key), th[t].key)
      BY <1>3, <2>1, <2>3 DEF Sees
    <3>2. QED
      BY <1>5, <2>1, <2>3, <3>1, LookupMisses
  <2>4. QED
    BY <2>2, <2>3
<1>6. QED
  BY <1>4, <1>5

(* A get whose last pass began on an even version that is the version      *)
(* still, and whose entry has the key it was called with, returns what the *)
(* log holds at that instant, and such a pass copies no freed entry, when  *)
(* threads write keys of different main buckets and no version wraps.      *)
THEOREM EvenWindowsHold ==
  ASSUME BucketsApart, VersionCap + 1 < VersionSpan
  PROVE  LogSpec => EvenWindowGets
<1>1. LogInit => VersionsLow /\ PassInv
  BY LogAssumption, SpareInBuckets
     DEF LogInit, Init, PoolInit, NoOp, VersionsLow, Low, PassInv, Reads, Writes
<1>2. LogInv /\ LogInv' /\ LockInv /\ PlacesInv /\ VersionsLow /\ [LogNext]_logVars
        => VersionsLow'
  BY VersionsStep
<1>3. LogInv /\ LogInv' /\ ChainLaw' /\ LockInv /\ PlacesInv /\ VersionsLow /\ PassInv
        /\ [LogNext]_logVars => PassInv'
  BY PassInvStep
<1>4. LogInv /\ PlacesInv /\ PassInv =>
        \A t \in Threads :
          /\ GetFault(t) => ~EvenWindow(t)
          /\ GetEnd(t) /\ EvenWindow(t) /\ th[t].key = th[t].asked =>
               Lookup(th[t].asked) = IF th[t].ok THEN th[t].val ELSE NoVal
  BY WindowGets DEF PlacesInv
<1>5. LogSpec => [](LockInv /\ PlacesInv)
  BY PlacesInvariant
<1>6. LogInv => ChainLaw
  BY ChainLawHolds
<1>7. QED
  BY <1>1, <1>2, <1>3, <1>4, <1>5, <1>6, LogInvariant, PTL DEF LogSpec, EvenWindowGets

------------------------------------------------------------------------------
(* The map the log stands for, when a thread gets its own keys only.  A    *)
(* lookup finds the one place of a key, or that there is none.             *)
LookupLaw ==
  \A k \in Keys :
    /\ \A d \in Buckets, j \in Slots :
         Tagged(d, j) /\ KeyOf(d, j) = k => Lookup(k) = log[OffOf(d, j)].val
    /\ NoPlaceOf(k) => Lookup(k) = NoVal

LEMMA LookupLawHolds == LogInv /\ PlacesInv => LookupLaw
<1> SUFFICES ASSUME LogInv, PlacesInv, NEW k \in Keys
             PROVE  /\ \A d \in Buckets, j \in Slots :
                         Tagged(d, j) /\ KeyOf(d, j) = k => Lookup(k) = log[OffOf(d, j)].val
                    /\ NoPlaceOf(k) => Lookup(k) = NoVal
  BY DEF LookupLaw
<1>1. PICK own : PlaceInv(own)
  BY DEF PlacesInv
<1>2. NoPlaceOf(k) => Absent(Main(k), k)
  <2>1. ChainFrom[Main(k)] = {b \in Buckets : own[b] = Main(k)}
    BY <1>1, KeyFacts, ChainOwned DEF PlaceInv
  <2>2. QED
    BY <2>1 DEF NoPlaceOf, Absent
<1>3. QED
  BY <1>1, <1>2, LookupFinds, LookupMisses

LEMMA LookupSame ==
  ASSUME LookupLaw, LookupLaw', NEW k \in Keys,
         \A d \in Buckets, j \in Slots :
           Tagged(d, j) /\ KeyOf(d, j) = k =>
             /\ Tagged(d, j)' /\ KeyOf(d, j)' = k
             /\ log'[OffOf(d, j)'].val = log[OffOf(d, j)].val,
         \A d \in Buckets, j \in Slots :
           Tagged(d, j)' /\ KeyOf(d, j)' = k => Tagged(d, j) /\ KeyOf(d, j) = k
  PROVE  Lookup(k)' = Lookup(k)
<1>1. CASE NoPlaceOf(k)
  <2>1. NoPlaceOf(k)'
    BY <1>1 DEF NoPlaceOf
  <2>2. Lookup(k) = NoVal /\ Lookup(k)' = NoVal
    BY <1>1, <2>1 DEF LookupLaw
  <2>3. QED
    BY <2>2
<1>2. CASE ~NoPlaceOf(k)
  <2>1. PICK d \in Buckets, j \in Slots : Tagged(d, j) /\ KeyOf(d, j) = k
    BY <1>2 DEF NoPlaceOf
  <2>2. /\ Tagged(d, j)' /\ KeyOf(d, j)' = k
        /\ log'[OffOf(d, j)'].val = log[OffOf(d, j)].val
    BY <2>1
  <2>3. Lookup(k)' = log'[OffOf(d, j)'].val
    BY <2>2 DEF LookupLaw
  <2>4. Lookup(k) = log[OffOf(d, j)].val
    BY <2>1 DEF LookupLaw
  <2>5. QED
    BY <2>2, <2>3, <2>4
<1>3. QED
  BY <1>1, <1>2

(* Only a store to a slot can change the map, at the key of its writer.    *)
LEMMA QuietSteps ==
  ASSUME LogInv, BucketsApart, NEW own, PlaceInv(own), NEW t \in Threads,
         OpStep(t) \/ Invoke(t) \/ Return(t),
         ~Unindex(t), ~(RunIndexCall(t) /\ th[t].pc = "insert")
  PROVE  Quiet \/ \E off : Writing(t, off)
<1>1. CASE CopyKey(t) \/ CopyVal(t) \/ FreeBlock(t) \/ Allocate(t)
  BY <1>1, CopyKeyPlaces, CopyValPlaces, FreeBlockPlaces, AllocatePlaces
<1>2. CASE RunIndexCall(t)
  <2>1. call[t].at \in SearchAts
    BY <1>2, CallAts
  <2>2. SlotHit(t) \/ SlotMiss(t) \/ FollowLink(t) \/ ChainEnd(t)
    BY <1>2, <2>1, CallAts
       DEF IndexStep, SearchAts, AtSlot, InsertStore, InsertPublish, InsertFull, InsertLink,
           ClaimSkip, ClaimTake, DeleteClear
  <2>3. entries' = entries
    BY <2>2 DEF SlotHit, SlotMiss, FollowLink, ChainEnd
  <2>4. QED
    BY <1>2, <2>3, CallAts DEF Quiet
<1>3. CASE \/ LockRead(t) \/ LockRepeat(t) \/ LockEnter(t) \/ AllocateFails(t)
           \/ Inserted(t) \/ Unlock(t) \/ Found(t) \/ LoadOffset(t) \/ KeyDiffers(t)
           \/ KeyEqual(t) \/ Missing(t) \/ GetStep(t) \/ Invoke(t) \/ Return(t)
  BY <1>3
     DEF LockRead, LockRepeat, LockEnter, AllocateFails, Inserted, Unlock, Found, LoadOffset,
         KeyDiffers, KeyEqual, Missing, GetStep, GetBegin, GetKey, GetFault, GetVal, GetEnd,
         Invoke, Return, index, Quiet
<1>4. QED
  BY <1>1, <1>2, <1>3 DEF OpStep, WriterStep, LoopStep

LEMMA MapKept ==
  ASSUME LogInv, BucketsApart, NEW own, PlaceInv(own), LookupLaw, LookupLaw',
         NEW t \in Threads, Quiet \/ \E off : Writing(t, off), NEW k \in Keys
  PROVE  Lookup(k)' = Lookup(k)
<1>1. CASE Quiet
  <2>1. \A d \in Buckets, j \in Slots :
          /\ Tagged(d, j)' <=> Tagged(d, j)
          /\ KeyOf(d, j)' = KeyOf(d, j)
          /\ log'[OffOf(d, j)'].val = log[OffOf(d, j)].val
    BY <1>1 DEF Quiet, Tagged, KeyOf, OffOf
  <2>2. QED
    BY <2>1, LookupSame
<1>2. CASE \E off : Writing(t, off)
  <2>1. PICK off : Writing(t, off)
    BY <1>2
  <2>2. ASSUME NEW d \in Buckets, NEW j \in Slots, Tagged(d, j)
        PROVE  /\ OffOf(d, j)' = OffOf(d, j) /\ KeyOf(d, j)' = KeyOf(d, j)
               /\ log'[OffOf(d, j)'].val = log[OffOf(d, j)].val
    <3>1. /\ OffOf(d, j)' = OffOf(d, j) /\ log'[OffOf(d, j)] = log[OffOf(d, j)]
          /\ KeyOf(d, j)' = KeyOf(d, j)
      BY <2>1, <2>2, KeysKept
    <3>2. QED
      BY <3>1
  <2>3. \A d \in Buckets, j \in Slots : Tagged(d, j)' <=> Tagged(d, j)
    BY <2>1 DEF Writing, Tagged
  <2>4. QED
    BY <2>2, <2>3, LookupSame
<1>3. QED
  BY <1>1, <1>2

LEMMA MapAside ==
  ASSUME LogInv, NEW own, PlaceInv(own), LookupLaw, LookupLaw', NEW t \in Threads,
         NEW b, NEW i, Slotting(t, own, b, i), Tagged(b, i) => KeyOf(b, i) = th[t].key,
         NEW k \in Keys, k # th[t].key
  PROVE  Lookup(k)' = Lookup(k)
<1>1. ASSUME NEW d \in Buckets, NEW j \in Slots, ~(d = b /\ j = i)
      PROVE  /\ Tagged(d, j)' <=> Tagged(d, j)
             /\ KeyOf(d, j)' = KeyOf(d, j)
             /\ log'[OffOf(d, j)'].val = log[OffOf(d, j)].val
  <2>1. /\ Tagged(d, j)' <=> Tagged(d, j)
        /\ OffOf(d, j)' = OffOf(d, j) /\ KeyOf(d, j)' = KeyOf(d, j) /\ log' = log
    BY <1>1, SlotsKept DEF Slotting
  <2>2. QED
    BY <2>1
<1>2. Tagged(b, i)' => KeyOf(b, i)' = th[t].key
  BY DEF Slotting
<1>3. QED
  BY <1>1, <1>2, LookupSame

------------------------------------------------------------------------------
(* What each operation has come to in KvMap, by its frame alone.           *)
ReplyOf(o, c) ==
  IF o.op = "put" THEN
    IF o.pc = "done" /\ ~o.ok THEN "false"
    ELSE IF o.pc \in {"unlock", "done"} \/ c.at = "inserted" THEN "true" ELSE "none"
  ELSE IF o.op = "remove" THEN
    IF o.pc \in {"unlock", "done"} /\ ~o.ok THEN "false"
    ELSE IF o.pc \in {"free", "unlock", "done"} THEN "true" ELSE "none"
  ELSE IF o.op = "get" THEN
    IF o.pc \notin {"end", "done"} THEN "none" ELSE IF o.ok THEN "true" ELSE "false"
  ELSE "none"

ReqOf(o, c) ==
  [op |-> o.op, key |-> o.asked, reply |-> ReplyOf(o, c),
   val |-> IF o.op = "get" /\ ReplyOf(o, c) = "none" THEN NoVal ELSE o.val]

LEMMA ReqIs ==
  /\ AbsKvReq = [t \in Threads |-> ReqOf(th[t], call[t])]
  /\ AbsKvReq' = [t \in Threads |-> ReqOf(th'[t], call'[t])]
<1>1. \A t \in Threads : AbsReply(t) = ReplyOf(th[t], call[t])
  BY DEF AbsReply, ReplyOf, At
<1>2. \A t \in Threads : AbsReply(t)' = ReplyOf(th'[t], call'[t])
  BY DEF AbsReply, ReplyOf, At
<1>3. QED
  BY <1>1, <1>2 DEF AbsKvReq, ReqOf

LEMMA ReqMoves ==
  ASSUME NEW t \in Threads, \A u \in Threads \ {t} : th'[u] = th[u] /\ call'[u] = call[u]
  PROVE  /\ AbsKvReq[t] = ReqOf(th[t], call[t])
         /\ AbsKvReq' = [AbsKvReq EXCEPT ![t] = ReqOf(th'[t], call'[t])]
         /\ ReqOf(th'[t], call'[t]) = ReqOf(th[t], call[t]) => AbsKvReq' = AbsKvReq
BY ReqIs

LEMMA MapMoves ==
  /\ (\A k \in Keys : Lookup(k)' = Lookup(k)) => AbsMap' = AbsMap
  /\ \A k \in Keys : \A v :
       (\A l \in Keys \ {k} : Lookup(l)' = Lookup(l)) /\ Lookup(k)' = v
         => AbsMap' = [AbsMap EXCEPT ![k] = v]
  /\ \A k \in Keys : AbsMap[k] = Lookup(k)
<1>1. AbsMap = [k \in Keys |-> Lookup(k)] /\ AbsMap' = [k \in Keys |-> Lookup(k)']
  BY DEF AbsMap
<1>2. QED
  BY <1>1
------------------------------------------------------------------------------
(* How a step turns its operation, when it leaves the request alone.       *)
Turn(t, pc, ok) ==
  /\ th'[t].pc = pc /\ th'[t].ok = ok /\ th'[t].op = th[t].op
  /\ th'[t].asked = th[t].asked /\ th'[t].key = th[t].key /\ th'[t].val = th[t].val

LEMMA TurnFacts ==
  ASSUME LogInv, NEW t \in Threads, NEW pc, NEW ok,
         \/ ok = th[t].ok /\ th' = [th EXCEPT ![t].pc = pc]
         \/ ok = th[t].ok
              /\ \E ver : th' = [th EXCEPT ![t] = [th[t] EXCEPT !.pc = pc, !.ver = ver]]
         \/ ok = th[t].ok
              /\ \E off : th' = [th EXCEPT ![t] = [th[t] EXCEPT !.pc = pc, !.off = off]]
         \/ th' = [th EXCEPT ![t] = [th[t] EXCEPT !.pc = pc, !.ok = ok]]
         \/ \E off : th' = [th EXCEPT ![t] = [th[t] EXCEPT !.pc = pc, !.off = off, !.ok = ok]]
  PROVE  Turn(t, pc, ok)
<1>1. th \in [Threads -> Operations] /\ th[t] \in Operations
  BY ThreadFacts
<1>2. CASE ok = th[t].ok /\ th' = [th EXCEPT ![t].pc = pc]
  BY <1>1, <1>2, OperationFields DEF Turn
<1>3. ASSUME NEW ver, ok = th[t].ok,
             th' = [th EXCEPT ![t] = [th[t] EXCEPT !.pc = pc, !.ver = ver]]
      PROVE  Turn(t, pc, ok)
  BY <1>1, <1>3, OperationFields DEF Turn
<1>4. ASSUME NEW off, ok = th[t].ok,
             th' = [th EXCEPT ![t] = [th[t] EXCEPT !.pc = pc, !.off = off]]
      PROVE  Turn(t, pc, ok)
  BY <1>1, <1>4, OperationFields DEF Turn
<1>5. CASE th' = [th EXCEPT ![t] = [th[t] EXCEPT !.pc = pc, !.ok = ok]]
  BY <1>1, <1>5, OperationFields DEF Turn
<1>6. ASSUME NEW off,
             th' = [th EXCEPT ![t] = [th[t] EXCEPT !.pc = pc, !.off = off, !.ok = ok]]
      PROVE  Turn(t, pc, ok)
  BY <1>1, <1>6, OperationFields DEF Turn
<1>7. QED
  BY <1>2, <1>3, <1>4, <1>5, <1>6

(* The stages at which no operation has come to anything yet, and the      *)
(* steps from one of them to another.                                      *)
EarlyPcs ==
  {"lock", "cas", "search", "offset", "compare", "unindex", "alloc", "copy_key",
   "copy_val", "insert", "begin", "load_key", "load_val", "fault"}

EarlyStep(t) ==
  \/ LockRead(t) \/ LockRepeat(t) \/ LockEnter(t) \/ Allocate(t) \/ CopyKey(t)
  \/ CopyVal(t) \/ RunIndexCall(t) \/ Found(t) \/ LoadOffset(t) \/ KeyDiffers(t)
  \/ KeyEqual(t) \/ GetBegin(t) \/ GetKey(t) \/ GetFault(t)

LEMMA EarlyTurns ==
  ASSUME LogInv, NEW t \in Threads, Reads(th[t]) => Sees(th[t], call[t]), EarlyStep(t)
  PROVE  th[t].pc \in EarlyPcs /\ \E pc \in EarlyPcs : Turn(t, pc, th[t].ok)
<1>1. th[t].pc \in EarlyPcs
  BY DEF EarlyStep, LockRead, LockRepeat, LockEnter, Allocate, CopyKey, CopyVal,
         RunIndexCall, Found, LoadOffset, KeyDiffers, KeyEqual, GetBegin, GetKey, GetFault,
         At, EarlyPcs
<1>2. CASE th' = th
  BY <1>1, <1>2 DEF Turn
<1>3. CASE \E pc \in EarlyPcs : th' = [th EXCEPT ![t].pc = pc]
  BY <1>1, <1>3, TurnFacts
<1>4. CASE \E pc \in EarlyPcs : \E ver :
             th' = [th EXCEPT ![t] = [th[t] EXCEPT !.pc = pc, !.ver = ver]]
  BY <1>1, <1>4, TurnFacts
<1>5. CASE \E pc \in EarlyPcs : \E off :
             th' = [th EXCEPT ![t] = [th[t] EXCEPT !.pc = pc, !.off = off]]
  BY <1>1, <1>5, TurnFacts
<1>6. CASE GetKey(t)
  <2>1. Reads(th[t]) /\ th[t].pc = "load_key"
    BY <1>6, ThreadFacts, OperationFields
       DEF GetKey, At, OpControl, WriterPcs, Updating, Reads
  <2>2. log[th[t].off].key = th[t].key
    BY <2>1 DEF Sees
  <2>3. Turn(t, "load_val", th[t].ok)
    BY <1>6, <2>2, ThreadFacts, OperationFields DEF GetKey, Turn
  <2>4. QED
    BY <1>1, <2>3 DEF EarlyPcs
<1>7. CASE RunIndexCall(t)
  BY <1>2, <1>7 DEF RunIndexCall
<1>8. CASE Found(t)
  BY <1>2, <1>3, <1>8 DEF Found, Goto, EarlyPcs
<1>9. CASE LockRead(t)
  BY <1>4, <1>9 DEF LockRead, EarlyPcs
<1>10. CASE GetBegin(t)
  BY <1>4, <1>10 DEF GetBegin, EarlyPcs
<1>11. CASE Allocate(t)
  BY <1>5, <1>11 DEF Allocate, EarlyPcs
<1>12. CASE LoadOffset(t)
  BY <1>5, <1>12 DEF LoadOffset, EarlyPcs
<1>13. CASE LockRepeat(t) \/ LockEnter(t) \/ CopyKey(t) \/ CopyVal(t) \/ KeyDiffers(t)
            \/ GetFault(t)
  BY <1>3, <1>13
     DEF LockRepeat, LockEnter, CopyKey, CopyVal, KeyDiffers, GetFault, Goto, EarlyPcs
<1>14. CASE KeyEqual(t)
  <2>1. th' = [th EXCEPT ![t].pc = "load_key"] \/ th' = [th EXCEPT ![t].pc = "unindex"]
    BY <1>14 DEF KeyEqual, Goto
  <2>2. QED
    BY <1>3, <2>1 DEF EarlyPcs
<1>15. QED
  BY <1>6, <1>7, <1>8, <1>9, <1>10, <1>11, <1>12, <1>13, <1>14 DEF EarlyStep

(* The steps at which an operation comes to something, and after it.       *)
LEMMA LateTurns ==
  ASSUME LogInv, NEW t \in Threads
  PROVE  /\ Unindex(t) => Turn(t, "free", th[t].ok)
         /\ FreeBlock(t) =>
              Turn(t, IF th[t].op = "put" THEN "alloc" ELSE "unlock", TRUE)
         /\ Missing(t) => Turn(t, OnMissing[th[t].op], FALSE)
         /\ AllocateFails(t) => Turn(t, "done", FALSE)
         /\ Inserted(t) => Turn(t, "unlock", TRUE)
         /\ Unlock(t) => Turn(t, "done", th[t].ok)
         /\ GetEnd(t) /\ version[th[t].main] = th[t].ver => Turn(t, "done", th[t].ok)
<1>1. Unindex(t) \/ Unlock(t) =>
        th' = [th EXCEPT ![t].pc = IF At(t, "unindex") THEN "free" ELSE "done"]
  BY DEF Unindex, Unlock, At, Goto
<1>2. FreeBlock(t) =>
        Turn(t, IF th[t].op = "put" THEN "alloc" ELSE "unlock", TRUE)
  BY TurnFacts DEF FreeBlock
<1>3. Missing(t) => Turn(t, OnMissing[th[t].op], FALSE)
  BY TurnFacts DEF Missing
<1>4. AllocateFails(t) => Turn(t, "done", FALSE)
  BY TurnFacts DEF AllocateFails
<1>5. Inserted(t) => Turn(t, "unlock", TRUE)
  BY TurnFacts DEF Inserted
<1>6. GetEnd(t) /\ version[th[t].main] = th[t].ver => th' = [th EXCEPT ![t].pc = "done"]
  BY DEF GetEnd, Goto
<1>7. QED
  BY <1>1, <1>2, <1>3, <1>4, <1>5, <1>6, TurnFacts DEF Unindex, Unlock, At
------------------------------------------------------------------------------
(* A thread that gets keys of its own alone is in a window as long as a    *)
(* get lasts, for nobody else writes in its main bucket.                   *)
ReadsOwn == \A t \in Threads : ReadKeys[t] \subseteq WriteKeys[t]

Served(t, o, v) ==
  /\ Reads(o) =>
       /\ o.asked \in WriteKeys[t] /\ o.key = o.asked
       /\ o.pc # "begin" => o.ver = v
       /\ o.pc \notin {"end", "done"} => o.val = NoVal
  /\ o.op = "remove" => o.val = NoVal
  /\ o.op = "put" /\ o.pc = "unlock" => o.ok
  /\ o.pc = "idle" => o = NoOp

ServedInv ==
  \A t \in Threads :
    /\ Served(t, th[t], version[th[t].main])
    /\ Reads(th[t]) => Sees(th[t], call[t])

LEMMA ServedTurn ==
  ASSUME NEW t \in Threads, Served(t, th[t], version[th[t].main]), NEW pc, NEW ok,
         Turn(t, pc, ok), pc # "idle",
         Reads(th[t]) /\ pc # "begin" => th'[t].ver = version'[th'[t].main],
         Reads(th[t]) /\ pc \notin {"end", "done"} => th[t].pc \notin {"end", "done"},
         th[t].op = "put" /\ pc = "unlock" => ok
  PROVE  Served(t, th'[t], version'[th'[t].main])
BY DEF Turn, Served, Reads

LEMMA ReadVersion ==
  ASSUME LogInv, NEW t \in Threads, OpStep(t), Reads(th[t]),
         Served(t, th[t], version[th[t].main])
  PROVE  /\ th'[t].asked = th[t].asked /\ th'[t].main = th[t].main
         /\ th'[t].ver = version'[th'[t].main]
<1>1. LoopStep(t) \/ GetStep(t)
  BY ReaderSteps
<1>2. th[t].main \in Mains
  BY ThreadFacts, MainFacts DEF OpControl, Reads
<1>3. /\ th'[t].main = th[t].main /\ th'[t].asked = th[t].asked
      /\ version'[th[t].main] = version[th[t].main]
  BY <1>1, <1>2, LoopInside, GetInside DEF Inside
<1>4. CASE GetBegin(t)
  BY <1>1, <1>3, <1>4, PassStep
<1>5. CASE ~GetBegin(t)
  <2>1. th[t].pc # "begin"
    BY <1>1, <1>5
       DEF LoopStep, GetStep, RunIndexCall, Found, LoadOffset, KeyDiffers, KeyEqual, Missing,
           GetKey, GetFault, GetVal, GetEnd, At
  <2>2. th[t].ver = version[th[t].main]
    BY <2>1 DEF Served
  <2>3. QED
    BY <1>1, <1>3, <1>5, <2>2, PassStep
<1>6. QED
  BY <1>4, <1>5

LEMMA ServedBegins ==
  ASSUME LogInv, ReadsOwn, NEW t \in Threads, Invoke(t) \/ Return(t)
  PROVE  Served(t, th'[t], version'[th'[t].main])
<1>1. CASE Return(t)
  <2>1. th'[t] = NoOp
    BY <1>1, ThreadFacts DEF Return
  <2>2. QED
    BY <2>1 DEF Served, Reads, NoOp
<1>2. CASE Invoke(t)
  <2>1. PICK k, pc, op, val :
          /\ th' = [th EXCEPT ![t] = Op(pc, op, k, val)]
          /\ op = "get" => pc = "begin" /\ k \in ReadKeys[t]
          /\ op # "put" => val = NoVal
          /\ pc \notin {"unlock", "idle"}
    <3> DEFINE Begins(k, pc, op, val) ==
                 /\ th' = [th EXCEPT ![t] = Op(pc, op, k, val)]
                 /\ op = "get" => pc = "begin" /\ k \in ReadKeys[t]
                 /\ op # "put" => val = NoVal
          /\ pc \notin {"unlock", "idle"}
    <3>1. CASE \E k \in ReadKeys[t] : th' = [th EXCEPT ![t] = Op("begin", "get", k, NoVal)]
      <4>1. PICK k \in ReadKeys[t] : Begins(k, "begin", "get", NoVal)
        BY <3>1
      <4>2. QED
        BY <4>1
    <3>2. CASE \E k \in WriteKeys[t], op \in {"put", "remove"}, v \in Vals :
                 th' = [th EXCEPT ![t] = Op("lock", op, k, IF op = "put" THEN v ELSE NoVal)]
      <4>1. PICK k \in WriteKeys[t], op \in {"put", "remove"}, v \in Vals :
              Begins(k, "lock", op, IF op = "put" THEN v ELSE NoVal)
        BY <3>2
      <4>2. QED
        BY <4>1
    <3>3. QED
      BY <1>2, <3>1, <3>2 DEF Invoke
  <2>2. th'[t] = Op(pc, op, k, val)
    BY <2>1, ThreadFacts
  <2>3. /\ Op(pc, op, k, val).pc = pc /\ Op(pc, op, k, val).op = op
        /\ Op(pc, op, k, val).key = k /\ Op(pc, op, k, val).asked = k
        /\ Op(pc, op, k, val).val = val
    BY DEF Op, NoOp
  <2>4. QED
    BY <2>1, <2>2, <2>3 DEF ReadsOwn, Served, Reads
<1>3. QED
  BY <1>1, <1>2

LEMMA ServedOwn ==
  ASSUME LogInv, NEW t \in Threads, OpStep(t), Served(t, th[t], version[th[t].main]),
         Reads(th[t]) => Sees(th[t], call[t])
  PROVE  Served(t, th'[t], version'[th'[t].main])
<1>1. Reads(th[t]) => th'[t].ver = version'[th'[t].main]
  BY ReadVersion
<1>2. CASE EarlyStep(t)
  <2>1. PICK pc \in EarlyPcs : Turn(t, pc, th[t].ok)
    BY <1>2, EarlyTurns
  <2>2. th[t].pc \notin {"end", "done"} /\ pc \notin {"unlock", "idle"}
    BY <1>2, EarlyTurns DEF EarlyPcs
  <2>3. QED
    BY <1>1, <2>1, <2>2, ServedTurn
<1>3. CASE Unindex(t) \/ AllocateFails(t)
  <2>1. th[t].pc \notin {"end", "done"}
    BY <1>3 DEF Unindex, AllocateFails, At
  <2>2. \E pc \in {"free", "done"} : \E ok : Turn(t, pc, ok)
    BY <1>3, LateTurns
  <2>3. QED
    BY <1>1, <2>1, <2>2, ServedTurn
<1>4. CASE FreeBlock(t)
  <2>1. th[t].pc \notin {"end", "done"}
    BY <1>4 DEF FreeBlock, At
  <2>2. \E pc \in {"alloc", "unlock"} : Turn(t, pc, TRUE)
    BY <1>4, LateTurns
  <2>3. QED
    BY <1>1, <2>1, <2>2, ServedTurn
<1>5. CASE Missing(t)
  <2>1. th[t].pc \notin {"end", "done"}
    BY <1>5 DEF Missing, At
  <2>2. /\ th[t].op = "put" => OnMissing[th[t].op] # "unlock"
        /\ OnMissing[th[t].op] # "idle"
    <3>1. th[t].op \in {"put", "get", "remove"}
      BY <1>5, ThreadFacts, OperationFields DEF Missing, At, OpControl
    <3>2. QED
      BY <3>1 DEF OnMissing
  <2>3. Turn(t, OnMissing[th[t].op], FALSE)
    BY <1>5, LateTurns
  <2>4. QED
    BY <1>1, <2>1, <2>2, <2>3, ServedTurn
<1>6. CASE Inserted(t)
  <2>1. th[t].pc \notin {"end", "done"} /\ Turn(t, "unlock", TRUE)
    BY <1>6, LateTurns DEF Inserted, At
  <2>2. QED
    BY <1>1, <2>1, ServedTurn
<1>7. CASE Unlock(t)
  <2>1. Turn(t, "done", th[t].ok)
    BY <1>7, LateTurns
  <2>2. QED
    BY <1>1, <2>1, ServedTurn
<1>8. CASE GetEnd(t)
  <2>1. th[t].pc = "end" /\ Reads(th[t])
    BY <1>8, ThreadFacts, OperationFields
       DEF GetEnd, At, OpControl, WriterPcs, Updating, Reads
  <2>2. Turn(t, "done", th[t].ok)
    BY <1>8, <2>1, LateTurns DEF Served
  <2>3. QED
    BY <1>1, <2>2, ServedTurn
<1>9. CASE GetVal(t)
  <2>1. th[t].pc = "load_val" /\ Reads(th[t])
    BY <1>9, ThreadFacts, OperationFields
       DEF GetVal, At, OpControl, WriterPcs, Updating, Reads
  <2>2. /\ th'[t].pc = "end" /\ th'[t].op = th[t].op /\ th'[t].key = th[t].key
        /\ th'[t].asked = th[t].asked
    BY <1>9, ThreadFacts, OperationFields DEF GetVal
  <2>3. QED
    BY <1>1, <2>1, <2>2 DEF Served, Reads
<1>10. QED
  BY <1>2, <1>3, <1>4, <1>5, <1>6, <1>7, <1>8, <1>9
     DEF OpStep, WriterStep, LoopStep, GetStep, EarlyStep

(* A reader's main bucket has no writer but itself.                        *)
LEMMA ReaderApart ==
  ASSUME LogInv, BucketsApart, NEW own, PlaceInv(own), NEW t \in Threads, Writes(th[t]),
         NEW u \in Threads \ {t}, Reads(th[u]), th[u].asked \in WriteKeys[u]
  PROVE  th[u].main # th[t].main
<1>1. th[u].main = Main(th[u].asked)
  BY ThreadFacts DEF OpControl, Reads
<1>2. th[t].key \in WriteKeys[t] /\ th[t].main = Main(th[t].key)
  BY WriterFacts
<1>3. QED
  BY <1>1, <1>2 DEF BucketsApart

LEMMA ServedOther ==
  ASSUME LogInv, BucketsApart, NEW own, PlaceInv(own), ChainLaw', NEW t \in Threads,
         OpStep(t) \/ Invoke(t) \/ Return(t), Bounded(t),
         NEW u \in Threads \ {t}, NEW o, NEW c, o = th[u], c = call[u],
         Served(u, o, version[o.main]), Reads(o) => Sees(o, c)
  PROVE  Served(u, o, version'[o.main]) /\ (Reads(o) => Sees(o, c)')
<1>1. CASE ~Reads(o)
  BY <1>1 DEF Served
<1>2. CASE Reads(o)
  <2>1. Writes(th[t]) => th[t].main # o.main
    BY <1>2, ReaderApart DEF Served
  <2>2. o.main \in Mains
    BY <1>2, ThreadFacts, MainFacts DEF OpControl, Reads
  <2>3. version'[o.main] = version[o.main]
    BY <2>1, <2>2 DEF Bounded
  <2>4. Sees(o, c)'
    BY <1>2, <2>1, SeesKept
  <2>5. QED
    BY <2>3, <2>4
<1>3. QED
  BY <1>1, <1>2

LEMMA StepBounds ==
  ASSUME LogInv, LockInv, NEW t \in Threads, OpStep(t) \/ Invoke(t) \/ Return(t)
  PROVE  Bounded(t)
<1>1. CASE WriterStep(t)
  BY <1>1, LockHolds, WriterInside, InsideHolds DEF WriterStep
<1>2. CASE LoopStep(t) \/ GetStep(t)
  BY <1>2, LoopInside, GetInside, InsideHolds
<1>3. QED
  BY <1>1, <1>2, InvokeHolds DEF OpStep

LEMMA ServedStep ==
  ASSUME BucketsApart, ReadsOwn
  PROVE  LogInv /\ ChainLaw' /\ LockInv /\ PlacesInv /\ ServedInv /\ [LogNext]_logVars
           => ServedInv'
<1> SUFFICES ASSUME LogInv, ChainLaw', LockInv, PlacesInv, ServedInv, [LogNext]_logVars
             PROVE  ServedInv'
  OBVIOUS
<1>1. CASE UNCHANGED logVars
  <2>1. SameIndex /\ th' = th /\ call' = call /\ version' = version
    BY <1>1 DEF logVars, SameIndex
  <2>2. ASSUME NEW u \in Threads
        PROVE  (Served(u, th[u], version[th[u].main]) /\ (Reads(th[u]) => Sees(th[u], call[u])))'
    <3>1. PICK o, c : o = th[u] /\ c = call[u]
      OBVIOUS
    <3>2. Served(u, o, version[o.main]) /\ (Reads(o) => Sees(o, c))
      BY <3>1 DEF ServedInv
    <3>3. (Reads(o) => Sees(o, c)') /\ th'[u] = o /\ call'[u] = c
      BY <2>1, <3>1, <3>2, SameSees
    <3>4. QED
      BY <2>1, <3>2, <3>3
  <2>3. QED
    BY <2>2 DEF ServedInv
<1>2. CASE LogNext
  <2>1. PICK t \in Threads : OpStep(t) \/ Invoke(t) \/ Return(t)
    BY <1>2 DEF LogNext
  <2>2. PICK own : PlaceInv(own)
    BY DEF PlacesInv
  <2>3. Bounded(t)
    BY <2>1, StepBounds
  <2>4. ASSUME NEW u \in Threads
        PROVE  (Served(u, th[u], version[th[u].main]) /\ (Reads(th[u]) => Sees(th[u], call[u])))'
    <3>1. PICK o, c : o = th'[u] /\ c = call'[u]
      OBVIOUS
    <3>2. Served(u, o, version'[o.main]) /\ (Reads(o) => Sees(o, c)')
      <4>1. CASE u = t
        <5>1. Served(t, th[t], version[th[t].main]) /\ (Reads(th[t]) => Sees(th[t], call[t]))
          BY DEF ServedInv
        <5>2. Served(u, o, version'[o.main])
          BY <2>1, <3>1, <4>1, <5>1, ServedOwn, ServedBegins
        <5>3. ASSUME Reads(o)
              PROVE  Sees(o, c)'
          <6>1. OpStep(t) => Sees(th[t], call[t])
            BY <3>1, <4>1, <5>1, <5>3, OpKept DEF Reads
          <6>2. QED
            BY <2>1, <2>2, <3>1, <4>1, <5>3, <6>1, OwnSees
        <5>4. QED
          BY <5>2, <5>3
      <4>2. CASE u # t
        <5>1. o = th[u] /\ c = call[u]
          BY <2>1, <2>3, <3>1, <4>2, StepCalls DEF Bounded
        <5>2. QED
          BY <2>1, <2>2, <2>3, <4>2, <5>1, ServedOther DEF ServedInv
      <4>3. QED
        BY <4>1, <4>2
    <3>3. QED
      BY <3>1, <3>2
  <2>5. QED
    BY <2>4 DEF ServedInv
<1>3. QED
  BY <1>1, <1>2
------------------------------------------------------------------------------
(* The steps that change the map: they take a key from it, or publish one. *)
LEMMA KeyNowhere ==
  ASSUME LookupLaw, NEW k \in Keys, NoPlaceOf(k)
  PROVE  Lookup(k) = NoVal /\ AbsMap[k] = NoVal
<1>1. Lookup(k) = NoVal
  BY DEF LookupLaw
<1>2. QED
  BY <1>1, MapMoves

LEMMA UnindexDrops ==
  ASSUME LogInv, BucketsApart, NEW own, PlaceInv(own), LookupLaw, LookupLaw',
         NEW t \in Threads, Unindex(t)
  PROVE  /\ Writes(th[t]) /\ AbsMap[th[t].key] \in Vals
         /\ AbsMap' = [AbsMap EXCEPT ![th[t].key] = NoVal]
<1>0. PICK k : k = th[t].key
  OBVIOUS
<1>1. /\ PlaceInv(own)' /\ Writes(th[t]) /\ th'[t].pc = "free" /\ th[t].pc = "unindex"
      /\ \E b, i : Slotting(t, own, b, i) /\ OffOf(b, i) = th[t].off
  BY UnindexPlaces DEF Unindex, At
<1>2. PICK b, i : Slotting(t, own, b, i) /\ OffOf(b, i) = th[t].off
  BY <1>1
<1>3. /\ k \in Keys /\ log[th[t].off].key = k /\ call[t].at = "found"
      /\ call[t].bkt \in Buckets /\ call[t].index \in Slots
      /\ Tagged(call[t].bkt, call[t].index)
      /\ OffOf(call[t].bkt, call[t].index) = th[t].off
  <2>1. call[t].at = "found"
    BY <1>1, ThreadFacts DEF CallControl, HitPcs
  <2>2. QED
    BY <1>0, <1>1, <2>1, WriterFacts, WithinFacts, MatchTagged DEF Searching
<1>4. AbsMap[k] \in Vals
  <2>1. log[th[t].off].val \in Vals
    BY <1>3 DEF PlaceInv, SoundPlaces, SoundPlace, Complete
  <2>2. Lookup(k) = log[th[t].off].val
    BY <1>3 DEF LookupLaw, KeyOf
  <2>3. QED
    BY <1>3, <2>1, <2>2, MapMoves
<1>5. Lookup(k)' = NoVal
  <2>1. th'[t].key = k /\ th'[t].op = th[t].op
    BY <1>0, LateTurns DEF Turn
  <2>2. \A d \in Buckets, j \in Slots : Tagged(d, j)' => KeyOf(d, j)' # th'[t].key
    BY <1>1, <2>1 DEF PlaceInv, Knows, Holding, NoPlaceOf, Writes, InHands, Placed
  <2>3. NoPlaceOf(k)'
    BY <2>1, <2>2 DEF NoPlaceOf
  <2>4. QED
    BY <1>3, <2>3 DEF LookupLaw
<1>6. \A l \in Keys \ {k} : Lookup(l)' = Lookup(l)
  <2>1. KeyOf(b, i) = k
    BY <1>2, <1>3 DEF KeyOf
  <2>2. QED
    BY <1>0, <1>2, <2>1, MapAside
<1>7. QED
  BY <1>0, <1>1, <1>3, <1>4, <1>5, <1>6, MapMoves

LEMMA CallEnds ==
  ASSUME LogInv, NEW t \in Threads, RunIndexCall(t)
  PROVE  /\ call[t].at # "inserted"
         /\ call'[t].at = "inserted" <=> InsertPublish(t)
<1>1. /\ call \in [Threads -> Frames] /\ call[t].at \in SearchAts \cup InsertAts
      /\ IndexStep(t) /\ call[t] \in Frames
  BY CallAts
<1>2. CASE SlotHit(t)
  <2>1. call[t].at \in {"probe", "scan", "match"} /\ call'[t].at = OnHit[call[t].at]
    BY <1>1, <1>2 DEF SlotHit, Walking, OnHit, Frames
  <2>2. QED
    BY <2>1 DEF OnHit, InsertPublish, AtSlot
<1>3. CASE SlotMiss(t) \/ FollowLink(t)
  <2>1. call[t].at \in {"probe", "scan", "match"} /\ call'[t].at = call[t].at
    BY <1>1, <1>3 DEF SlotMiss, FollowLink, AtBucketEnd, Walking, OnHit, Frames
  <2>2. QED
    BY <2>1 DEF InsertPublish, AtSlot
<1>4. CASE ChainEnd(t)
  <2>1. call[t].at \in {"probe", "scan", "match"} /\ call'[t].at = OnEnd[call[t].at]
    BY <1>1, <1>4 DEF ChainEnd, AtBucketEnd, Walking, OnHit, Frames
  <2>2. QED
    BY <2>1 DEF OnEnd, InsertPublish, AtSlot
<1>5. CASE InsertStore(t) \/ InsertPublish(t) \/ ClaimSkip(t) \/ ClaimTake(t) \/ DeleteClear(t)
  BY <1>1, <1>5
     DEF InsertStore, InsertPublish, ClaimSkip, ClaimTake, DeleteClear, AtSlot, Frames
<1>6. CASE InsertFull(t) \/ InsertLink(t)
  BY <1>1, <1>6 DEF InsertFull, InsertLink, InsertPublish, AtSlot, Frames
<1>7. QED
  BY <1>1, <1>2, <1>3, <1>4, <1>5, <1>6 DEF IndexStep

(* An insert has no place for its key before it publishes one, and then it *)
(* has the value put.                                                      *)
LEMMA StoreKeeps ==
  ASSUME LogInv, LogInv', BucketsApart, NEW own, PlaceInv(own), LookupLaw, LookupLaw',
         NEW t \in Threads, Writes(th[t]), RunIndexCall(t), InsertStore(t) \/ InsertPublish(t)
  PROVE  /\ AbsMap[th[t].key] = NoVal /\ th[t].key \in Keys
         /\ AbsMap' = IF InsertPublish(t) THEN [AbsMap EXCEPT ![th[t].key] = th[t].val]
                      ELSE AbsMap
<1>0. PICK k, v : k = th[t].key /\ v = th[t].val
  OBVIOUS
<1>1. /\ PlaceInv(own)' /\ th' = th /\ th[t].pc = "insert"
      /\ \E b, i : Slotting(t, own, b, i) /\ ~Tagged(b, i)
  <2>1. th[t].pc = "insert" /\ th' = th
    BY CallAts DEF SearchAts, InsertStore, InsertPublish, AtSlot
  <2>2. QED
    BY <2>1, InsertStorePlaces, InsertPublishPlaces
<1>2. k \in Keys /\ NoPlaceOf(k)
  <2>1. call[t].at \in {"store", "publish"}
    BY DEF InsertStore, InsertPublish, AtSlot
  <2>2. QED
    BY <1>0, <2>1, InsertFacts, WriterFacts
<1>3. AbsMap[k] = NoVal /\ Lookup(k) = NoVal
  BY <1>2, KeyNowhere
<1>4. \A l \in Keys \ {k} : Lookup(l)' = Lookup(l)
  BY <1>0, <1>1, MapAside
<1>5. Knows(t, th[t], call[t], own)' /\ Writes(th'[t])
  BY <1>1 DEF PlaceInv
<1>6. CASE InsertPublish(t)
  <2>1. call'[t].at = "inserted"
    BY <1>6, CallEnds
  <2>2. PICK off : off = th[t].off
    OBVIOUS
  <2>3. /\ \E d \in Buckets, j \in Slots : Tagged(d, j)' /\ OffOf(d, j)' = off
        /\ log'[off].key = k /\ log'[off].val = v
    BY <1>0, <1>1, <1>5, <2>1, <2>2 DEF Knows, Holding, Inserting, Placed
  <2>4. PICK d \in Buckets, j \in Slots : Tagged(d, j)' /\ OffOf(d, j)' = off
    BY <2>3
  <2>5. KeyOf(d, j)' = k
    BY <2>3, <2>4 DEF KeyOf
  <2>6. Lookup(k)' = log'[OffOf(d, j)'].val
    BY <1>2, <2>4, <2>5 DEF LookupLaw
  <2>7. Lookup(k)' = v
    BY <2>3, <2>4, <2>6
  <2>8. QED
    BY <1>0, <1>2, <1>3, <1>4, <1>6, <2>7, MapMoves
<1>7. CASE ~InsertPublish(t)
  <2>1. call'[t].at # "inserted"
    BY <1>7, CallEnds
  <2>2. \A d \in Buckets, j \in Slots : Tagged(d, j)' => KeyOf(d, j)' # th'[t].key
    BY <1>1, <1>5, <2>1 DEF Knows, Holding, NoPlaceOf, InHands, FillPcs, Placed
  <2>3. NoPlaceOf(k)'
    BY <1>0, <1>1, <2>2 DEF NoPlaceOf
  <2>4. Lookup(k)' = NoVal
    BY <1>2, <2>3 DEF LookupLaw
  <2>5. \A l \in Keys : Lookup(l)' = Lookup(l)
    BY <1>3, <1>4, <2>4
  <2>6. QED
    BY <1>0, <1>2, <1>3, <1>7, <2>5, MapMoves
<1>8. QED
  BY <1>6, <1>7

(* Every other step leaves the map.                                        *)
LEMMA MapStays ==
  ASSUME LogInv, LogInv', BucketsApart, NEW own, PlaceInv(own), LookupLaw, LookupLaw',
         NEW t \in Threads, OpStep(t) \/ Invoke(t) \/ Return(t),
         ~Unindex(t), ~(RunIndexCall(t) /\ InsertPublish(t))
  PROVE  AbsMap' = AbsMap
<1>1. CASE ~(RunIndexCall(t) /\ th[t].pc = "insert")
  <2>1. Quiet \/ \E off : Writing(t, off)
    BY <1>1, QuietSteps
  <2>2. \A k \in Keys : Lookup(k)' = Lookup(k)
    BY <2>1, MapKept
  <2>3. QED
    BY <2>2, MapMoves
<1>2. CASE RunIndexCall(t) /\ th[t].pc = "insert"
  <2>1. Writes(th[t])
    BY <1>2, ThreadFacts, OperationFields DEF OpControl, GetPcs, Writes
  <2>2. CASE InsertStore(t)
    BY <1>2, <2>1, <2>2, StoreKeeps
  <2>3. CASE ~InsertStore(t)
    <3>1. ~DeleteClear(t) /\ IndexStep(t) /\ log' = log /\ free' = free
      BY <1>2, CallAts DEF DeleteClear, AtSlot, SearchAts, InsertAts
    <3>2. entries' = entries
      BY <1>2, <2>3, <3>1
         DEF IndexStep, SlotHit, SlotMiss, FollowLink, ChainEnd, InsertFull, InsertLink,
             ClaimSkip, ClaimTake
    <3>3. Quiet
      BY <3>1, <3>2 DEF Quiet
    <3>4. \A k \in Keys : Lookup(k)' = Lookup(k)
      BY <3>3, MapKept
    <3>5. QED
      BY <3>4, MapMoves
  <2>4. QED
    BY <2>2, <2>3
<1>3. QED
  BY <1>1, <1>2
------------------------------------------------------------------------------
(* What each step is in KvMap.                                             *)
LEMMA EarlyReply ==
  ASSUME NEW o, NEW c, o.pc \in EarlyPcs \/ (o.op = "put" /\ o.pc = "free"),
         c.at # "inserted"
  PROVE  ReplyOf(o, c) = "none"
BY DEF EarlyPcs, ReplyOf

LEMMA NotInserted ==
  ASSUME LogInv, NEW t \in Threads, th[t].pc \notin {"insert", "fault"}
  PROVE  call[t].at # "inserted"
BY ThreadFacts, NoCallFrame DEF CallControl, HitPcs, SearchAts

LEMMA Stutters ==
  ASSUME NEW t \in Threads, \A u \in Threads \ {t} : th'[u] = th[u] /\ call'[u] = call[u],
         AbsMap' = AbsMap, ReqOf(th'[t], call'[t]) = ReqOf(th[t], call[t])
  PROVE  UNCHANGED Kv!mapVars
<1>1. AbsKvReq' = AbsKvReq
  BY ReqMoves
<1>2. QED
  BY <1>1 DEF Kv!mapVars

LEMMA EarlyReq ==
  ASSUME LogInv, NEW t \in Threads, Reads(th[t]) => Sees(th[t], call[t]), EarlyStep(t),
         ~(RunIndexCall(t) /\ InsertPublish(t))
  PROVE  ReqOf(th'[t], call'[t]) = ReqOf(th[t], call[t])
<1>1. th[t].pc \in EarlyPcs /\ \E pc \in EarlyPcs : Turn(t, pc, th[t].ok)
  BY EarlyTurns
<1>2. call[t].at # "inserted"
  <2>1. CASE RunIndexCall(t)
    BY <2>1, CallEnds
  <2>2. CASE ~RunIndexCall(t)
    <3>1. th[t].pc \notin {"insert", "fault"}
      BY <2>2
         DEF EarlyStep, LockRead, LockRepeat, LockEnter, Allocate, CopyKey, CopyVal, Found,
             LoadOffset, KeyDiffers, KeyEqual, GetBegin, GetKey, GetFault, At
    <3>2. QED
      BY <3>1, NotInserted
  <2>3. QED
    BY <2>1, <2>2
<1>3. call'[t].at # "inserted"
  <2>1. CASE RunIndexCall(t)
    BY <2>1, CallEnds
  <2>2. CASE call' = call
    BY <1>2, <2>2
  <2>3. CASE LockEnter(t) \/ GetBegin(t) \/ CopyVal(t)
    BY <2>3, ThreadFacts DEF LockEnter, GetBegin, CopyVal, SearchFirst, Frame
  <2>4. CASE Found(t) \/ KeyDiffers(t)
    <3>1. call' = call \/ call' = [call EXCEPT ![t].at = "probe"]
      BY <2>4 DEF Found, KeyDiffers, SearchAgain
    <3>2. QED
      BY <2>2, <3>1, ThreadFacts DEF Frames
  <2>5. QED
    BY <2>1, <2>2, <2>3, <2>4
       DEF EarlyStep, LockRead, LockRepeat, Allocate, CopyKey, LoadOffset, KeyEqual, GetKey,
           GetFault, index
<1>4. ReplyOf(th[t], call[t]) = "none" /\ ReplyOf(th'[t], call'[t]) = "none"
  BY <1>1, <1>2, <1>3, EarlyReply DEF Turn
<1>5. QED
  BY <1>1, <1>4 DEF ReqOf, Turn

(* The steps of an operation that has replied, or has only dropped what it *)
(* will replace.                                                           *)
LEMMA LateReq ==
  ASSUME LogInv, LogInv', NoneFull, NEW t \in Threads,
         Served(t, th[t], version[th[t].main]),
         FreeBlock(t) \/ Inserted(t) \/ Unlock(t) \/ GetEnd(t)
  PROVE  ReqOf(th'[t], call'[t]) = ReqOf(th[t], call[t])
<1>1. CASE FreeBlock(t)
  <2>1. /\ th[t].pc = "free"
        /\ Turn(t, IF th[t].op = "put" THEN "alloc" ELSE "unlock", TRUE)
    BY <1>1, LateTurns DEF FreeBlock, At
  <2>2. th[t].op \in {"put", "remove"}
    BY <2>1, ThreadFacts, OperationFields DEF OpControl, GetPcs
  <2>3. call[t].at # "inserted" /\ call' = call
    BY <1>1, <2>1, NotInserted DEF FreeBlock, index
  <2>4. CASE th[t].op = "put"
    <3>1. ReplyOf(th[t], call[t]) = "none" /\ ReplyOf(th'[t], call'[t]) = "none"
      BY <2>1, <2>3, <2>4, EarlyReply DEF Turn, EarlyPcs
    <3>2. QED
      BY <2>1, <3>1 DEF ReqOf, Turn
  <2>5. CASE th[t].op = "remove"
    <3>1. ReplyOf(th[t], call[t]) = "true" /\ ReplyOf(th'[t], call'[t]) = "true"
      BY <2>1, <2>5 DEF Turn, ReplyOf
    <3>2. QED
      BY <2>1, <3>1 DEF ReqOf, Turn
  <2>6. QED
    BY <2>2, <2>4, <2>5
<1>2. CASE Inserted(t)
  <2>1. th[t].pc = "insert" /\ call[t].at = "inserted" /\ Turn(t, "unlock", TRUE)
    BY <1>2, LateTurns DEF Inserted, At, NoneFull
  <2>2. th[t].op = "put"
    BY <2>1, ThreadFacts, OperationFields DEF OpControl, GetPcs, FillPcs
  <2>3. ReplyOf(th[t], call[t]) = "true" /\ ReplyOf(th'[t], call'[t]) = "true"
    BY <2>1, <2>2 DEF Turn, ReplyOf
  <2>4. QED
    BY <2>1, <2>3 DEF ReqOf, Turn
<1>3. CASE Unlock(t)
  <2>1. th[t].pc = "unlock" /\ Turn(t, "done", th[t].ok)
    BY <1>3, LateTurns DEF Unlock, At
  <2>2. th[t].op = "put" => th[t].ok
    BY <2>1 DEF Served
  <2>3. ReplyOf(th'[t], call'[t]) = ReplyOf(th[t], call[t])
    <3>1. th[t].op # "get"
      BY <2>1, WriterAt DEF Writes
    <3>2. QED
      BY <2>1, <2>2, <3>1 DEF Turn, ReplyOf
  <2>4. QED
    BY <2>1, <2>3 DEF ReqOf, Turn
<1>4. CASE GetEnd(t)
  <2>1. th[t].pc = "end" /\ Reads(th[t])
    BY <1>4, ThreadFacts, OperationFields
       DEF GetEnd, At, OpControl, WriterPcs, Updating, Reads
  <2>2. Turn(t, "done", th[t].ok)
    BY <1>4, <2>1, LateTurns DEF Served
  <2>3. ReplyOf(th'[t], call'[t]) = ReplyOf(th[t], call[t])
    BY <2>1, <2>2 DEF Turn, ReplyOf, Reads
  <2>4. QED
    BY <2>2, <2>3 DEF ReqOf, Turn
<1>5. QED
  BY <1>1, <1>2, <1>3, <1>4

------------------------------------------------------------------------------
(* The steps at which an operation comes to its reply.                     *)
LEMMA Answers ==
  ASSUME NEW t \in Threads, \A u \in Threads \ {t} : th'[u] = th[u] /\ call'[u] = call[u],
         th'[t].op = th[t].op, th'[t].asked = th[t].asked,
         NEW r \in {"true", "false"}, ReplyOf(th'[t], call'[t]) = r, NEW v, th'[t].val = v
  PROVE  AbsKvReq' = [AbsKvReq EXCEPT ![t] = [AbsKvReq[t] EXCEPT !.reply = r, !.val = v]]
<1>1. PICK x, y : x = ReqOf(th[t], call[t]) /\ y = ReqOf(th'[t], call'[t])
  OBVIOUS
<1> DEFINE S == [op : {x.op}, key : {x.key}, reply : {x.reply, r}, val : {x.val, v}]
<1>2. x \in S
  BY <1>1 DEF ReqOf
<1>3. y \in S /\ y.op = x.op /\ y.key = x.key /\ y.reply = r /\ y.val = v
  BY <1>1 DEF ReqOf
<1>4. [x EXCEPT !.reply = r, !.val = v] = y
  BY <1>2, <1>3
<1>5. AbsKvReq[t] = x /\ AbsKvReq' = [AbsKvReq EXCEPT ![t] = y]
  BY <1>1, ReqMoves
<1>6. QED
  BY <1>4, <1>5

LEMMA Pends ==
  ASSUME NEW t \in Threads, ReplyOf(th[t], call[t]) = "none"
  PROVE  /\ Kv!Pending(t, th[t].op) /\ AbsKvReq[t].key = th[t].asked
         /\ th[t].op # "get" => AbsKvReq[t].val = th[t].val
<1>1. AbsKvReq[t] = ReqOf(th[t], call[t])
  BY ReqIs
<1>2. QED
  BY <1>1 DEF ReqOf, Kv!Pending
LEMMA UnindexMaps ==
  ASSUME LogInv, BucketsApart, NoVal \notin Vals, NEW own, PlaceInv(own),
         LookupLaw, LookupLaw', NEW t \in Threads,
         \A u \in Threads \ {t} : th'[u] = th[u] /\ call'[u] = call[u],
         Served(t, th[t], version[th[t].main]), Unindex(t)
  PROVE  Kv!Drop(t) \/ Kv!Remove(t)
<1>1. /\ Writes(th[t]) /\ AbsMap[th[t].key] # NoVal
      /\ AbsMap' = [AbsMap EXCEPT ![th[t].key] = NoVal]
  BY UnindexDrops
<1>2. th[t].pc = "unindex" /\ th[t].key = th[t].asked /\ Turn(t, "free", th[t].ok)
  BY <1>1, ThreadFacts, LateTurns DEF Unindex, At, OpControl, Writes
<1>3. ReplyOf(th[t], call[t]) = "none"
  BY <1>2, NotInserted, EarlyReply DEF EarlyPcs
<1>4. /\ Kv!Pending(t, th[t].op) /\ AbsKvReq[t].key = th[t].key
      /\ Kv!Has(AbsKvReq[t].key)
  BY <1>1, <1>2, <1>3, Pends DEF Kv!Has
<1>5. CASE th[t].op = "put"
  <2>1. call'[t].at # "inserted"
    BY ThreadFacts, NoCallFrame DEF Unindex
  <2>2. ReplyOf(th'[t], call'[t]) = "none"
    BY <1>2, <1>5, <2>1, EarlyReply DEF Turn
  <2>3. ReqOf(th'[t], call'[t]) = ReqOf(th[t], call[t])
    BY <1>2, <1>3, <2>2 DEF ReqOf, Turn
  <2>4. AbsKvReq' = AbsKvReq
    BY <2>3, ReqMoves
  <2>5. QED
    BY <1>1, <1>4, <1>5, <2>4 DEF Kv!Drop
<1>6. CASE th[t].op = "remove"
  <2>1. /\ ReplyOf(th'[t], call'[t]) = "true" /\ th'[t].val = NoVal
        /\ th'[t].op = th[t].op /\ th'[t].asked = th[t].asked
    BY <1>2, <1>6 DEF Turn, ReplyOf, Served
  <2>2. AbsKvReq' = [AbsKvReq EXCEPT ![t] =
                       [AbsKvReq[t] EXCEPT !.reply = "true", !.val = NoVal]]
    BY <2>1, Answers
  <2>3. Kv!Reply(t, Kv!Has(AbsKvReq[t].key), NoVal)
    BY <1>4, <2>2 DEF Kv!Reply
  <2>4. QED
    BY <1>1, <1>4, <1>6, <2>3 DEF Kv!Remove
<1>7. QED
  BY <1>1, <1>5, <1>6 DEF Writes

LEMMA PublishMaps ==
  ASSUME LogInv, LogInv', BucketsApart, NEW own, PlaceInv(own),
         LookupLaw, LookupLaw', NEW t \in Threads,
         \A u \in Threads \ {t} : th'[u] = th[u] /\ call'[u] = call[u],
         RunIndexCall(t), InsertPublish(t)
  PROVE  Kv!Publish(t)
<1>1. th[t].pc = "insert" /\ th' = th
  BY CallAts DEF SearchAts, InsertPublish, AtSlot
<1>2. th[t].op = "put" /\ th[t].key = th[t].asked /\ Writes(th[t])
  BY <1>1, ThreadFacts, OperationFields DEF OpControl, GetPcs, FillPcs, Writes
<1>3. /\ AbsMap[th[t].key] = NoVal
      /\ AbsMap' = [AbsMap EXCEPT ![th[t].key] = th[t].val]
  BY <1>2, StoreKeeps
<1>4. call[t].at # "inserted" /\ call'[t].at = "inserted"
  BY CallEnds
<1>5. ReplyOf(th[t], call[t]) = "none" /\ ReplyOf(th'[t], call'[t]) = "true"
  <2>1. ReplyOf(th[t], call[t]) = "none"
    BY <1>1, <1>4, EarlyReply DEF EarlyPcs
  <2>2. QED
    BY <1>1, <1>2, <1>4, <2>1 DEF ReplyOf
<1>6. /\ Kv!Pending(t, "put") /\ AbsKvReq[t].key = th[t].key
      /\ AbsKvReq[t].val = th[t].val /\ ~Kv!Has(AbsKvReq[t].key)
  BY <1>2, <1>3, <1>5, Pends DEF Kv!Has
<1>7. AbsKvReq' = [AbsKvReq EXCEPT ![t] =
                     [AbsKvReq[t] EXCEPT !.reply = "true", !.val = th[t].val]]
  BY <1>1, <1>5, Answers
<1>8. Kv!Reply(t, TRUE, AbsKvReq[t].val)
  BY <1>6, <1>7 DEF Kv!Reply
<1>9. QED
  BY <1>3, <1>6, <1>8 DEF Kv!Publish

LEMMA RefuseMaps ==
  ASSUME LogInv, NEW own, PlaceInv(own), LookupLaw, AbsMap' = AbsMap, NEW t \in Threads,
         \A u \in Threads \ {t} : th'[u] = th[u] /\ call'[u] = call[u],
         AllocateFails(t)
  PROVE  Kv!Refuse(t)
<1>1. th[t].pc = "alloc" /\ Turn(t, "done", FALSE)
  BY LateTurns DEF AllocateFails, At
<1>2. th[t].op = "put" /\ th[t].key = th[t].asked /\ Writes(th[t])
  BY <1>1, ThreadFacts, OperationFields DEF OpControl, GetPcs, Writes
<1>3. AbsMap[th[t].key] = NoVal
  <2>1. NoPlaceOf(th[t].key) /\ th[t].key \in Keys
    BY <1>1, <1>2, WriterFacts DEF Holding, Placed
  <2>2. QED
    BY <2>1, KeyNowhere
<1>4. ReplyOf(th[t], call[t]) = "none" /\ ReplyOf(th'[t], call'[t]) = "false"
  <2>1. ReplyOf(th[t], call[t]) = "none"
    BY <1>1, NotInserted, EarlyReply DEF EarlyPcs
  <2>2. QED
    BY <1>1, <1>2, <2>1 DEF Turn, ReplyOf
<1>5. /\ Kv!Pending(t, "put") /\ AbsKvReq[t].val = th[t].val
      /\ ~Kv!Has(AbsKvReq[t].key)
  BY <1>2, <1>3, <1>4, Pends DEF Kv!Has
<1>6. AbsKvReq' = [AbsKvReq EXCEPT ![t] =
                     [AbsKvReq[t] EXCEPT !.reply = "false", !.val = th[t].val]]
  <2>1. th'[t].op = th[t].op /\ th'[t].asked = th[t].asked /\ th'[t].val = th[t].val
    BY <1>1 DEF Turn
  <2>2. QED
    BY <1>4, <2>1, Answers
<1>7. Kv!Reply(t, FALSE, AbsKvReq[t].val)
  BY <1>5, <1>6 DEF Kv!Reply
<1>8. QED
  BY <1>5, <1>7 DEF Kv!Refuse

(* A search that has missed knows that its key has no place.               *)
LEMMA MissedNowhere ==
  ASSUME LogInv, NEW own, PlaceInv(own), LookupLaw, NEW t \in Threads,
         Served(t, th[t], version[th[t].main]), Reads(th[t]) => Sees(th[t], call[t]),
         Missing(t)
  PROVE  /\ th[t].key = th[t].asked /\ th[t].key \in Keys /\ AbsMap[th[t].key] = NoVal
         /\ th[t].op \in {"put", "remove", "get"}
<1>1. th[t].pc = "search" /\ call[t].at = "missing"
  BY DEF Missing, At
<1>2. th[t].op \in {"put", "remove", "get"} /\ th[t].key \in Keys
  BY <1>1, ThreadFacts, OperationFields DEF OpControl
<1>3. th[t].key = th[t].asked
  BY <1>2, ThreadFacts DEF OpControl, Served, Reads
<1>4. CASE Writes(th[t])
  <2>1. NoPlaceOf(th[t].key)
    BY <1>1, <1>4, WriterFacts DEF Searching
  <2>2. QED
    BY <1>2, <1>3, <2>1, KeyNowhere
<1>5. CASE Reads(th[t])
  <2>1. Absent(th[t].main, th[t].key) /\ th[t].main = Main(th[t].key)
    BY <1>1, <1>3, <1>5, ThreadFacts DEF Sees, OpControl
  <2>2. Lookup(th[t].key) = NoVal
    BY <1>2, <2>1, LookupMisses
  <2>3. QED
    BY <1>2, <1>3, <2>2, MapMoves
<1>6. QED
  BY <1>2, <1>4, <1>5 DEF Writes, Reads

LEMMA MissingMaps ==
  ASSUME LogInv, NEW own, PlaceInv(own), LookupLaw, AbsMap' = AbsMap, NEW t \in Threads,
         \A u \in Threads \ {t} : th'[u] = th[u] /\ call'[u] = call[u],
         Served(t, th[t], version[th[t].main]), Reads(th[t]) => Sees(th[t], call[t]),
         Missing(t)
  PROVE  Kv!Remove(t) \/ Kv!Get(t) \/ UNCHANGED Kv!mapVars
<1>1. /\ th[t].pc = "search" /\ Turn(t, OnMissing[th[t].op], FALSE)
      /\ call'[t].at = "idle"
  BY ThreadFacts, NoCallFrame, LateTurns DEF Missing, At
<1>2. /\ th[t].key = th[t].asked /\ th[t].key \in Keys /\ AbsMap[th[t].key] = NoVal
      /\ th[t].op \in {"put", "remove", "get"}
  BY MissedNowhere
<1>3. ReplyOf(th[t], call[t]) = "none"
  BY <1>1, NotInserted, EarlyReply DEF EarlyPcs
<1>4. /\ Kv!Pending(t, th[t].op) /\ AbsKvReq[t].key = th[t].key
      /\ ~Kv!Has(AbsKvReq[t].key)
  BY <1>2, <1>3, Pends DEF Kv!Has
<1>5. CASE th[t].op = "put"
  <2>1. Turn(t, "alloc", FALSE)
    <3>1. OnMissing[th[t].op] = "alloc"
      BY <1>5 DEF OnMissing
    <3>2. QED
      BY <1>1, <3>1
  <2>2. ReplyOf(th'[t], call'[t]) = "none"
    BY <1>1, <2>1, EarlyReply DEF Turn, EarlyPcs
  <2>3. ReqOf(th'[t], call'[t]) = ReqOf(th[t], call[t])
    BY <1>3, <2>1, <2>2 DEF ReqOf, Turn
  <2>4. QED
    BY <2>3, Stutters
<1>6. CASE th[t].op \in {"remove", "get"}
  <2>1. OnMissing[th[t].op] = IF th[t].op = "get" THEN "end" ELSE "unlock"
    BY <1>6 DEF OnMissing
  <2>2. /\ ReplyOf(th'[t], call'[t]) = "false" /\ th'[t].val = NoVal
        /\ th'[t].op = th[t].op /\ th'[t].asked = th[t].asked
    BY <1>1, <1>6, <2>1 DEF Turn, ReplyOf, Served, Reads
  <2>3. AbsKvReq' = [AbsKvReq EXCEPT ![t] =
                       [AbsKvReq[t] EXCEPT !.reply = "false", !.val = NoVal]]
    BY <2>2, Answers
  <2>4. Kv!Reply(t, Kv!Has(AbsKvReq[t].key), NoVal)
    BY <1>4, <2>3 DEF Kv!Reply
  <2>5. AbsMap' = [AbsMap EXCEPT ![th[t].key] = NoVal]
    BY <1>2 DEF AbsMap
  <2>6. QED
    BY <1>2, <1>4, <1>6, <2>4, <2>5 DEF Kv!Remove, Kv!Get
<1>7. QED
  BY <1>2, <1>5, <1>6

LEMMA GetMaps ==
  ASSUME LogInv, NoVal \notin Vals, NEW own, PlaceInv(own), LookupLaw, AbsMap' = AbsMap,
         NEW t \in Threads,
         \A u \in Threads \ {t} : th'[u] = th[u] /\ call'[u] = call[u],
         Served(t, th[t], version[th[t].main]), Reads(th[t]) => Sees(th[t], call[t]),
         GetVal(t)
  PROVE  Kv!Get(t)
<1>1. th[t].pc = "load_val" /\ Reads(th[t])
  BY ThreadFacts, OperationFields
     DEF GetVal, At, OpControl, WriterPcs, Updating, Reads
<1>2. PICK k, b, i : k = th[t].key /\ b = call[t].bkt /\ i = call[t].index
  OBVIOUS
<1>3. /\ k = th[t].asked /\ k \in Keys /\ b \in Buckets /\ i \in Slots /\ Tagged(b, i)
      /\ th[t].off = OffOf(b, i) /\ log[th[t].off].key = k
  <2>1. k = th[t].asked /\ k \in Keys /\ call[t].at = "found"
    BY <1>1, <1>2, ThreadFacts DEF Served, OpControl, CallControl, HitPcs
  <2>2. QED
    BY <1>1, <1>2, <2>1, ReaderFacts DEF Sees
<1>4. AbsMap[k] = log[th[t].off].val /\ AbsMap[k] # NoVal
  <2>1. log[th[t].off].val \in Vals
    BY <1>3 DEF PlaceInv, SoundPlaces, SoundPlace, Complete
  <2>2. Lookup(k) = log[th[t].off].val
    BY <1>3 DEF LookupLaw, KeyOf
  <2>3. QED
    BY <1>3, <2>1, <2>2, MapMoves
<1>5. /\ th'[t].pc = "end" /\ th'[t].op = th[t].op /\ th'[t].asked = th[t].asked
      /\ th'[t].ok = TRUE /\ th'[t].val = log[th[t].off].val
  BY ThreadFacts, OperationFields DEF GetVal
<1>6. ReplyOf(th[t], call[t]) = "none" /\ ReplyOf(th'[t], call'[t]) = "true"
  BY <1>1, <1>5 DEF ReplyOf, Reads
<1>7. Kv!Pending(t, "get") /\ AbsKvReq[t].key = k /\ Kv!Has(AbsKvReq[t].key)
  BY <1>1, <1>3, <1>4, <1>6, Pends DEF Kv!Has, Reads
<1>8. AbsKvReq' = [AbsKvReq EXCEPT ![t] =
                     [AbsKvReq[t] EXCEPT !.reply = "true", !.val = AbsMap[k]]]
  <2>1. th'[t].val = AbsMap[k]
    BY <1>4, <1>5
  <2>2. QED
    BY <1>5, <1>6, <2>1, Answers
<1>9. Kv!Reply(t, Kv!Has(AbsKvReq[t].key), AbsMap[AbsKvReq[t].key])
  BY <1>7, <1>8 DEF Kv!Reply
<1>10. QED
  BY <1>7, <1>9 DEF Kv!Get
LEMMA ReturnMaps ==
  ASSUME LogInv, AbsMap' = AbsMap, NEW t \in Threads,
         \A u \in Threads \ {t} : th'[u] = th[u] /\ call'[u] = call[u], Return(t)
  PROVE  Kv!Return(t)
<1>1. th[t].pc = "done" /\ th[t].op \in {"put", "remove", "get"}
  BY ThreadFacts, OperationFields DEF Return, At, OpControl
<1>2. ReplyOf(th[t], call[t]) # "none"
  BY <1>1 DEF ReplyOf
<1>3. AbsKvReq[t].reply # "none"
  BY <1>2, ReqIs DEF ReqOf
<1>4. th'[t] = NoOp
  BY ThreadFacts DEF Return
<1>5. ReqOf(th'[t], call'[t]) = Kv!Idle
  BY <1>4 DEF ReqOf, ReplyOf, NoOp, Kv!Idle
<1>6. AbsKvReq' = [AbsKvReq EXCEPT ![t] = Kv!Idle]
  BY <1>5, ReqMoves
<1>7. QED
  BY <1>3, <1>6 DEF Kv!Return

LEMMA InvokeMaps ==
  ASSUME LogInv, ReadsOwn, AbsMap' = AbsMap, NEW t \in Threads,
         \A u \in Threads \ {t} : th'[u] = th[u] /\ call'[u] = call[u],
         Served(t, th[t], version[th[t].main]), Invoke(t)
  PROVE  Kv!Invoke(t)
<1>1. AbsKvReq[t] = Kv!Idle
  <2>1. th[t] = NoOp
    BY DEF Invoke, At, Served
  <2>2. QED
    BY <2>1, ReqIs DEF ReqOf, ReplyOf, NoOp, Kv!Idle
<1>2. call'[t].at # "inserted"
  BY NotInserted DEF Invoke, At, index
<1> DEFINE Asks(op, k, val) == [op |-> op, key |-> k, reply |-> "none", val |-> val]
<1>3. ASSUME NEW pc \in {"lock", "begin"}, NEW op \in {"put", "remove", "get"}, NEW k,
             NEW val, th' = [th EXCEPT ![t] = Op(pc, op, k, val)],
             op = "get" => val = NoVal
      PROVE  /\ AbsKvReq' = [AbsKvReq EXCEPT ![t] = ReqOf(th'[t], call'[t])]
             /\ ReqOf(th'[t], call'[t]) = Asks(op, k, val)
  <2>1. th'[t] = Op(pc, op, k, val)
    BY <1>3, ThreadFacts
  <2>2. /\ Op(pc, op, k, val).pc = pc /\ Op(pc, op, k, val).op = op
        /\ Op(pc, op, k, val).asked = k /\ Op(pc, op, k, val).val = val
    BY DEF Op, NoOp
  <2>3. ReplyOf(th'[t], call'[t]) = "none"
    BY <1>2, <1>3, <2>1, <2>2, EarlyReply DEF EarlyPcs
  <2>4. QED
    BY <1>3, <2>1, <2>2, <2>3, ReqMoves DEF ReqOf
<1>4. ASSUME NEW op \in {"remove", "get"}, NEW k
      PROVE  [Kv!Idle EXCEPT !.op = op, !.key = k] = Asks(op, k, NoVal)
  <2>1. PICK x, y : x = Kv!Idle /\ y = Asks(op, k, NoVal)
    OBVIOUS
  <2> DEFINE S == [op : {x.op, op}, key : {x.key, k}, reply : {"none"}, val : {NoVal}]
  <2>2. x \in S /\ x.reply = "none" /\ x.val = NoVal
    BY <2>1 DEF Kv!Idle
  <2>3. y \in S /\ y.op = op /\ y.key = k /\ y.reply = "none" /\ y.val = NoVal
    BY <2>1
  <2>4. [x EXCEPT !.op = op, !.key = k] = y
    BY <2>2, <2>3
  <2>5. QED
    BY <2>1, <2>4
<1>5. ASSUME NEW k, NEW v
      PROVE  [Kv!Idle EXCEPT !.op = "put", !.key = k, !.val = v] = Asks("put", k, v)
  <2>1. PICK x, y : x = Kv!Idle /\ y = Asks("put", k, v)
    OBVIOUS
  <2> DEFINE S == [op : {x.op, "put"}, key : {x.key, k}, reply : {"none"}, val : {NoVal, v}]
  <2>2. x \in S /\ x.reply = "none"
    BY <2>1 DEF Kv!Idle
  <2>3. y \in S /\ y.op = "put" /\ y.key = k /\ y.reply = "none" /\ y.val = v
    BY <2>1
  <2>4. [x EXCEPT !.op = "put", !.key = k, !.val = v] = y
    BY <2>2, <2>3
  <2>5. QED
    BY <2>1, <2>4
<1>6. CASE \E k \in ReadKeys[t] : th' = [th EXCEPT ![t] = Op("begin", "get", k, NoVal)]
  <2>1. PICK k \in ReadKeys[t] : th' = [th EXCEPT ![t] = Op("begin", "get", k, NoVal)]
    BY <1>6
  <2>2. AbsKvReq' = [AbsKvReq EXCEPT ![t] = [Kv!Idle EXCEPT !.op = "get", !.key = k]]
    <3>1. "begin" \in {"lock", "begin"} /\ "get" \in {"put", "remove", "get"}
             /\ ("get" = "get" => NoVal = NoVal)
      OBVIOUS
    <3>2. /\ AbsKvReq' = [AbsKvReq EXCEPT ![t] = ReqOf(th'[t], call'[t])]
          /\ ReqOf(th'[t], call'[t]) = Asks("get", k, NoVal)
      BY <3>1, <1>3, <2>1
    <3>3. [Kv!Idle EXCEPT !.op = "get", !.key = k] = Asks("get", k, NoVal)
      BY <1>4
    <3> HIDE DEF Asks
    <3>4. QED
      BY <3>2, <3>3
  <2>3. k \in WriteKeys[t]
    BY DEF ReadsOwn
  <2>4. QED
    BY <1>1, <2>2, <2>3 DEF Kv!Invoke
<1>7. CASE \E k \in WriteKeys[t], v \in Vals : th' = [th EXCEPT ![t] = Op("lock", "put", k, v)]
  <2>1. PICK k \in WriteKeys[t], v \in Vals : th' = [th EXCEPT ![t] = Op("lock", "put", k, v)]
    BY <1>7
  <2>2. AbsKvReq' = [AbsKvReq EXCEPT ![t] = [Kv!Idle EXCEPT !.op = "put", !.key = k, !.val = v]]
    <3>1. "lock" \in {"lock", "begin"} /\ "put" \in {"put", "remove", "get"}
             /\ ("put" = "get" => v = NoVal)
      OBVIOUS
    <3>2. /\ AbsKvReq' = [AbsKvReq EXCEPT ![t] = ReqOf(th'[t], call'[t])]
          /\ ReqOf(th'[t], call'[t]) = Asks("put", k, v)
      BY <3>1, <1>3, <2>1
    <3>3. [Kv!Idle EXCEPT !.op = "put", !.key = k, !.val = v] = Asks("put", k, v)
      BY <1>5
    <3> HIDE DEF Asks
    <3>4. QED
      BY <3>2, <3>3
  <2>3. QED
    BY <1>1, <2>2 DEF Kv!Invoke
<1>8. CASE \E k \in WriteKeys[t] : th' = [th EXCEPT ![t] = Op("lock", "remove", k, NoVal)]
  <2>1. PICK k \in WriteKeys[t] : th' = [th EXCEPT ![t] = Op("lock", "remove", k, NoVal)]
    BY <1>8
  <2>2. AbsKvReq' = [AbsKvReq EXCEPT ![t] = [Kv!Idle EXCEPT !.op = "remove", !.key = k]]
    <3>1. "lock" \in {"lock", "begin"} /\ "remove" \in {"put", "remove", "get"}
             /\ ("remove" = "get" => NoVal = NoVal)
      OBVIOUS
    <3>2. /\ AbsKvReq' = [AbsKvReq EXCEPT ![t] = ReqOf(th'[t], call'[t])]
          /\ ReqOf(th'[t], call'[t]) = Asks("remove", k, NoVal)
      BY <3>1, <1>3, <2>1
    <3>3. [Kv!Idle EXCEPT !.op = "remove", !.key = k] = Asks("remove", k, NoVal)
      BY <1>4
    <3> HIDE DEF Asks
    <3>4. QED
      BY <3>2, <3>3
  <2>3. QED
    BY <1>1, <2>2 DEF Kv!Invoke
<1>9. QED
  BY <1>6, <1>7, <1>8 DEF Invoke

LEMMA StepMaps ==
  ASSUME LogInv, LogInv', BucketsApart, ReadsOwn, NoVal \notin Vals, NoneFull,
         LockInv, NEW own, PlaceInv(own), LookupLaw, LookupLaw', ServedInv,
         NEW t \in Threads, OpStep(t) \/ Invoke(t) \/ Return(t)
  PROVE  [Kv!Next]_(Kv!mapVars)
<1>1. \A u \in Threads \ {t} : th'[u] = th[u] /\ call'[u] = call[u]
  BY StepBounded, StepCalls
<1>2. Served(t, th[t], version[th[t].main]) /\ (Reads(th[t]) => Sees(th[t], call[t]))
  BY DEF ServedInv
<1>3. CASE Unindex(t)
  BY <1>1, <1>2, <1>3, UnindexMaps DEF Kv!Next
<1>4. CASE RunIndexCall(t) /\ InsertPublish(t)
  BY <1>1, <1>4, PublishMaps DEF Kv!Next
<1>5. CASE ~Unindex(t) /\ ~(RunIndexCall(t) /\ InsertPublish(t))
  <2>1. AbsMap' = AbsMap
    BY <1>5, MapStays
  <2>2. CASE EarlyStep(t)
    BY <1>1, <1>2, <1>5, <2>1, <2>2, EarlyReq, Stutters
  <2>3. CASE FreeBlock(t) \/ Inserted(t) \/ Unlock(t) \/ GetEnd(t)
    BY <1>1, <1>2, <2>1, <2>3, LateReq, Stutters
  <2>4. CASE AllocateFails(t)
    BY <1>1, <2>1, <2>4, RefuseMaps DEF Kv!Next
  <2>5. CASE Missing(t)
    BY <1>1, <1>2, <2>1, <2>5, MissingMaps DEF Kv!Next
  <2>6. CASE GetVal(t)
    BY <1>1, <1>2, <2>1, <2>6, GetMaps DEF Kv!Next
  <2>7. CASE Invoke(t)
    BY <1>1, <1>2, <2>1, <2>7, InvokeMaps DEF Kv!Next
  <2>8. CASE Return(t)
    BY <1>1, <2>1, <2>8, ReturnMaps DEF Kv!Next
  <2>9. QED
    BY <1>5, <2>2, <2>3, <2>4, <2>5, <2>6, <2>7, <2>8
       DEF OpStep, WriterStep, LoopStep, GetStep, EarlyStep
<1>6. QED
  BY <1>3, <1>4, <1>5

LEMMA NextMaps ==
  ASSUME BucketsApart, ReadsOwn, NoVal \notin Vals
  PROVE  LogInv /\ LogInv' /\ LockInv /\ PlacesInv /\ LookupLaw /\ LookupLaw' /\ NoneFull
           /\ ServedInv /\ [LogNext]_logVars => [Kv!Next]_(Kv!mapVars)
<1> SUFFICES ASSUME LogInv, LogInv', LockInv, PlacesInv, LookupLaw, LookupLaw', NoneFull,
                    ServedInv, [LogNext]_logVars
             PROVE  [Kv!Next]_(Kv!mapVars)
  OBVIOUS
<1>1. CASE UNCHANGED logVars
  <2>1. \A k \in Keys : Lookup(k)' = Lookup(k)
    BY <1>1
       DEF logVars, Lookup, Published, ChainFrom, next_spare_bucket, TagAt, OffsetAt
  <2>2. AbsMap' = AbsMap
    BY <2>1, MapMoves
  <2>3. AbsKvReq' = AbsKvReq
    BY <1>1, ReqIs DEF logVars
  <2>4. QED
    BY <2>2, <2>3 DEF Kv!mapVars
<1>2. CASE LogNext
  <2>1. PICK own : PlaceInv(own)
    BY DEF PlacesInv
  <2>2. PICK t \in Threads : OpStep(t) \/ Invoke(t) \/ Return(t)
    BY <1>2 DEF LogNext
  <2>3. QED
    BY <2>1, <2>2, StepMaps
<1>3. QED
  BY <1>1, <1>2

LEMMA MapBegins ==
  LogInit /\ LogInv /\ PlacesInv => Kv!Init
<1> SUFFICES ASSUME LogInit, LogInv, PlacesInv
             PROVE  Kv!Init
  OBVIOUS
<1>1. \A k : NoPlaceOf(k)
  BY DEF LogInit, Init, PoolInit, EmptyEntry, NoPlaceOf, Tagged
<1>2. AbsMap = [k \in Keys |-> NoVal]
  BY <1>1, LookupLawHolds DEF AbsMap, LookupLaw
<1>3. ASSUME NEW t \in Threads
      PROVE  ReqOf(th[t], call[t]) = Kv!Idle
  <2>1. th[t] = NoOp
    BY DEF LogInit
  <2>2. QED
    BY <2>1 DEF ReqOf, ReplyOf, NoOp, Kv!Idle
<1>4. AbsKvReq = [t \in Threads |-> Kv!Idle]
  BY <1>3, ReqIs
<1>5. QED
  BY <1>2, <1>4 DEF Kv!Init

(* put, get and remove implement the map that KvMap promises: threads that *)
(* operate on keys of main buckets of their own see every put, get and     *)
(* remove take effect at an instant of its own (a put at two), while they  *)
(* compete for the spare buckets and no insert finds the pool exhausted    *)
(* (the result of insert_index_entry is not looked at: Log_full).          *)
THEOREM LogIsAMap ==
  ASSUME BucketsApart, ReadsOwn, NoVal \notin Vals
  PROVE  LogSpec /\ []NoneFull => KvImplemented
<1>1. LogInit => ServedInv
  BY DEF LogInit, NoOp, ServedInv, Served, Reads
<1>2. LogInv /\ ChainLaw' /\ LockInv /\ PlacesInv /\ ServedInv /\ [LogNext]_logVars
        => ServedInv'
  BY ServedStep
<1>3. LogInv /\ LogInv' /\ LockInv /\ PlacesInv /\ LookupLaw /\ LookupLaw' /\ NoneFull
        /\ ServedInv /\ [LogNext]_logVars => [Kv!Next]_(Kv!mapVars)
  BY NextMaps
<1>4. LogInit /\ LogInv /\ PlacesInv => Kv!Init
  BY MapBegins
<1>5. LogSpec => [](LockInv /\ PlacesInv)
  BY PlacesInvariant
<1>6. (LogInv => ChainLaw) /\ (LogInv /\ PlacesInv => LookupLaw)
  BY ChainLawHolds, LookupLawHolds
<1>7. QED
  BY <1>1, <1>2, <1>3, <1>4, <1>5, <1>6, LogInvariant, PTL
     DEF LogSpec, KvImplemented, Kv!Spec
==============================================================================
