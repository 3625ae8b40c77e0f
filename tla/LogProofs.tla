----------------------------- MODULE LogProofs -------------------------------
(***************************************************************************)
(* Proofs about put, get and remove over the shared bucket pool, for any   *)
(* number of threads, keys, blocks and buckets.  Types need no assumption  *)
(* on who writes where; the lock needs writers on buckets of their own.    *)
(***************************************************************************)
EXTENDS CircularLog, BucketProofs, BasicLemmas

HitPcs    == {"offset", "compare", "unindex", "load_key", "load_val"}
FillPcs   == {"copy_key", "copy_val", "insert"}
HoldPcs   == {"load_key", "load_val", "unindex", "free"}
WriterPcs == Updating \cup {"lock", "cas", "done"}
GetPcs    == {"begin", "search", "offset", "compare", "load_key", "load_val", "end",
              "fault", "done"}
Pcs       == Updating \cup GetPcs \cup {"idle", "lock", "cas"}

SearchAts == {"probe", "found", "missing"}
InsertAts == {"scan", "store", "publish", "claim", "link", "inserted", "full"}

(* Where an operation can be, and what its entry and its bucket are.       *)
OpControl(o) ==
  /\ o.op = "none" <=> o.pc = "idle"
  /\ o.op = "get" => o.pc \in GetPcs
  /\ o.op \in {"put", "remove"} => o.pc \in WriterPcs /\ o.key = o.asked
  /\ o.op = "remove" => o.pc \notin FillPcs \cup {"alloc"}
  /\ o.op = "put" => o.val \in Vals
  /\ o.pc # "idle" => o.key \in Keys /\ o.asked \in Keys /\ o.main = Main(o.asked)

(* The index call that belongs to a stage of an operation.                 *)
CallControl(o, c) ==
  /\ o.pc \in HitPcs => c.at = "found"
  /\ o.pc = "search" => c.at \in SearchAts
  /\ o.pc = "insert" => c.at \in InsertAts
  /\ o.pc \notin HitPcs \cup {"search", "insert", "fault"} => c = NoCall
  /\ c.at \in {"found", "store", "publish"} => c.index \in Slots

(* A block that is filled, copied or freed is one, and in the last two     *)
(* cases it has had a key (and its key is never taken back).               *)
BlockControl(o, l) ==
  /\ o.pc \in FillPcs => o.off \in Offsets
  /\ o.pc \in HoldPcs => o.off \in Offsets /\ l[o.off].key \in Keys

LogInv ==
  /\ ChainInv /\ LogTypeOK
  /\ log[0].key = NoKey
  /\ \A t \in Threads :
       OpControl(th[t]) /\ CallControl(th[t], call[t]) /\ BlockControl(th[t], log)

------------------------------------------------------------------------------
(* Constants.                                                              *)
LEMMA ZeroNoOffset == 0 \notin Offsets
BY BucketAssumption

LEMMA KeyFacts ==
  ASSUME NEW k \in Keys
  PROVE  HashOf[k] \in Hashes /\ HashOf[k] \in Nat /\ Main(k) \in Mains
<1>1. HashOf[k] \in Hashes /\ HashOf[k] \in Nat
  BY LogAssumption, BucketAssumption
<1>2. MainSize - 1 \in Nat /\ BucketSpan \in Nat \ {0} /\ TagSpan \in Nat \ {0}
  BY HashAssumption
<1>3. bucket_hash_portion(HashOf[k]) \in Nat
  BY <1>1, <1>2 DEF bucket_hash_portion
<1>4. QED
  BY <1>1, <1>2, <1>3, BitAndRange DEF Main, MainOf, get_entry_bucket, Mains

LEMMA NoCallFrame == NoCall \in Frames /\ NoCall.at = "idle"
BY HashAssumption, BucketAssumption DEF NoCall, Frames, NULL

LEMMA NoOpTyped ==
  /\ NoOp \in Operations /\ OpControl(NoOp) /\ CallControl(NoOp, NoCall)
  /\ \A l : BlockControl(NoOp, l)
<1>1. 0 \in 0..(VersionSpan - 1)
  BY LogAssumption
<1>2. NoOp \in Operations
  BY <1>1 DEF NoOp, Operations
<1>3. OpControl(NoOp)
  BY DEF NoOp, OpControl
<1>4. CallControl(NoOp, NoCall) /\ \A l : BlockControl(NoOp, l)
  BY DEF NoOp, CallControl, BlockControl, NoCall, HitPcs, FillPcs, HoldPcs
<1>5. QED
  BY <1>2, <1>3, <1>4

(* Frames that can be put in a thread's place without harm to the chains:  *)
(* no spare is looked for or held, and the cursor is in a claimed bucket.  *)
Calm(c) ==
  /\ c \in Frames /\ c.at \notin {"claim", "link"}
  /\ c.at \in (RunningLabels \cup {"found"}) =>
       c.bkt \in Buckets /\ (c.bkt \in Spares => version[c.bkt] # 0)

LEMMA NoCallCalm == Calm(NoCall)
BY NoCallFrame DEF Calm, RunningLabels

LEMMA FrameCalm ==
  ASSUME NEW label \in {"probe", "scan"}, NEW b \in Mains, NEW h \in Hashes,
         NEW off \in Offsets \cup {0}
  PROVE  Calm(Frame(label, b, h, off)) /\ Frame(label, b, h, off).at = label
<1>1. b \notin Spares
  BY HashAssumption, BucketAssumption DEF Mains, Spares
<1>2. QED
  BY <1>1, FrameType, SpareInBuckets DEF Calm

(* What the log does to the pool beside the index calls: entries, the      *)
(* versions of main buckets, and calm frames.                              *)
LEMMA OutsideStep ==
  ASSUME ChainInv,
         entries' \in [Buckets -> [Slots -> [tag : Tags \cup {0}, offset : Offsets \cup {0}]]],
         link' = link, version' \in [Buckets -> Nat],
         \A s \in Spares : version'[s] = version[s],
         call' \in [Threads -> Frames],
         \A u \in Threads : call'[u] = call[u] \/ Calm(call'[u])
  PROVE  ChainInv'
<1> USE DEF ChainInv, ClaimInv
<1>1. TypeOK'
  BY DEF TypeOK, Calm
<1>2. ChainsDisjoint' /\ PrefixClaimed'
  BY DEF ChainsDisjoint, PrefixClaimed
<1>3. CursorPassed'
  BY DEF CursorPassed, Calm
<1>4. WalksClaimed'
  BY DEF WalksClaimed, Calm
<1>5. HandsExclusive'
  <2>1. \A u \in Threads : call'[u].at = "link" => call'[u] = call[u]
    BY DEF Calm
  <2>2. QED
    BY <2>1 DEF HandsExclusive, InHand, LinksTo
<1>6. QED
  BY <1>1, <1>2, <1>3, <1>4, <1>5

(* A step disturbs the operation of its own thread only, as long as no     *)
(* block loses its key.                                                    *)
LEMMA LogStep ==
  ASSUME LogInv, NEW t \in Threads, ChainInv',
         \A b \in Mains : version'[b] < VersionSpan,
         log' \in [Offsets \cup {0} -> LogEntries], log'[0].key = NoKey,
         \A off \in Offsets : log[off].key \in Keys => log'[off].key \in Keys,
         free' \subseteq Offsets, th' \in [Threads -> Operations],
         \A u \in Threads \ {t} : th'[u] = th[u] /\ call'[u] = call[u],
         OpControl(th'[t]), CallControl(th'[t], call'[t]), BlockControl(th'[t], log')
  PROVE  LogInv'
<1>1. LogTypeOK'
  BY DEF LogTypeOK, ChainInv
<1>2. ASSUME NEW u \in Threads
      PROVE  OpControl(th'[u]) /\ CallControl(th'[u], call'[u]) /\ BlockControl(th'[u], log')
  <2>1. CASE u # t
    <3>1. OpControl(th[u]) /\ CallControl(th[u], call[u]) /\ BlockControl(th[u], log)
      BY DEF LogInv
    <3>2. BlockControl(th[u], log')
      BY <3>1 DEF BlockControl
    <3>3. QED
      BY <2>1, <3>1, <3>2
  <2>2. QED
    BY <2>1
<1>3. QED
  BY <1>1, <1>2 DEF LogInv

(* The two cases that most steps are: only the thread's operation changes, *)
(* or its index call with it.                                              *)
LEMMA OpStepKeeps ==
  ASSUME LogInv, NEW t \in Threads, NEW f \in Operations,
         UNCHANGED <<index, log, free>>, th' = [th EXCEPT ![t] = f],
         OpControl(f), CallControl(f, call[t]), BlockControl(f, log)
  PROVE  LogInv'
<1>1. ChainInv'
  <2>1. ChainInv /\ UNCHANGED bucketVars
    BY DEF LogInv, index, bucketVars
  <2>2. QED
    BY <2>1, InvStep
<1>2. /\ th' \in [Threads -> Operations] /\ th'[t] = f
      /\ \A u \in Threads \ {t} : th'[u] = th[u]
  BY DEF LogInv, LogTypeOK
<1>3. /\ entries' = entries /\ link' = link /\ version' = version /\ call' = call
      /\ log' = log /\ free' = free
  BY DEF index
<1>4. /\ \A b \in Mains : version'[b] < VersionSpan
      /\ log' \in [Offsets \cup {0} -> LogEntries] /\ log'[0].key = NoKey
      /\ free' \subseteq Offsets
  BY <1>3 DEF LogInv, LogTypeOK
<1>5. QED
  BY <1>1, <1>2, <1>3, <1>4, LogStep

LEMMA CallStepKeeps ==
  ASSUME LogInv, NEW t \in Threads, NEW f \in Operations, NEW c, Calm(c),
         UNCHANGED <<entries, link, version, log, free>>,
         th' = [th EXCEPT ![t] = f], call' = [call EXCEPT ![t] = c],
         OpControl(f), CallControl(f, c), BlockControl(f, log)
  PROVE  LogInv'
<1>1. /\ call' \in [Threads -> Frames] /\ call'[t] = c
      /\ \A u \in Threads \ {t} : call'[u] = call[u]
  BY DEF LogInv, LogTypeOK, TypeOK, Calm
<1>2. ChainInv'
  <2>1. /\ ChainInv /\ version \in [Buckets -> Nat]
        /\ entries \in
             [Buckets -> [Slots -> [tag : Tags \cup {0}, offset : Offsets \cup {0}]]]
    BY DEF LogInv, LogTypeOK, TypeOK
  <2>2. \A u \in Threads : call'[u] = call[u] \/ Calm(call'[u])
    BY <1>1
  <2>3. QED
    BY <1>1, <2>1, <2>2, OutsideStep
<1>3. /\ th' \in [Threads -> Operations] /\ th'[t] = f
      /\ \A u \in Threads \ {t} : th'[u] = th[u]
  BY DEF LogInv, LogTypeOK
<1>4. /\ \A b \in Mains : version'[b] < VersionSpan
      /\ log' \in [Offsets \cup {0} -> LogEntries] /\ log'[0].key = NoKey
      /\ free' \subseteq Offsets
  BY DEF LogInv, LogTypeOK
<1>5. QED
  BY <1>1, <1>2, <1>3, <1>4, LogStep

------------------------------------------------------------------------------
(* What the invariant says of one thread.                                  *)
LEMMA ThreadFacts ==
  ASSUME LogInv, NEW t \in Threads
  PROVE  /\ th[t] \in Operations /\ call[t] \in Frames
         /\ OpControl(th[t]) /\ CallControl(th[t], call[t]) /\ BlockControl(th[t], log)
         /\ th \in [Threads -> Operations] /\ call \in [Threads -> Frames]
BY DEF LogInv, LogTypeOK, TypeOK

(* f is o at another place, with the same request and entry.               *)
Like(f, o) ==
  /\ f \in Operations
  /\ f.op = o.op /\ f.key = o.key /\ f.asked = o.asked /\ f.main = o.main /\ f.val = o.val

LEMMA OperationFields ==
  Operations =
    [pc : Pcs, op : {"none", "put", "get", "remove"}, key : Keys \cup {NoKey},
     val : Vals \cup {NoVal, Junk}, asked : Keys \cup {NoKey}, main : Mains \cup {NULL},
     ver : 0..(VersionSpan - 1), off : Offsets \cup {0}, ok : BOOLEAN]
<1>1. Updating \cup {"idle", "lock", "cas", "begin", "load_key", "load_val", "end",
                     "fault", "done"} = Pcs
  BY DEF Pcs, Updating, GetPcs
<1>2. QED
  BY <1>1 DEF Operations

LEMMA Moved ==
  ASSUME NEW o \in Operations, NEW pc \in Pcs
  PROVE  /\ Like([o EXCEPT !.pc = pc], o)
         /\ [o EXCEPT !.pc = pc].pc = pc /\ [o EXCEPT !.pc = pc].off = o.off
BY OperationFields DEF Like

LEMMA MovedOk ==
  ASSUME NEW o \in Operations, NEW pc \in Pcs, NEW ok \in BOOLEAN
  PROVE  /\ Like([o EXCEPT !.pc = pc, !.ok = ok], o)
         /\ [o EXCEPT !.pc = pc, !.ok = ok].pc = pc
<1> DEFINE f == [o EXCEPT !.pc = pc, !.ok = ok]
<1>1. /\ f.pc = pc /\ f.ok = ok /\ f.op = o.op /\ f.key = o.key /\ f.asked = o.asked
      /\ f.main = o.main /\ f.val = o.val
  BY OperationFields
<1>2. f \in Operations
  BY OperationFields
<1> HIDE DEF f
<1>3. QED
  BY <1>1, <1>2 DEF f, Like

LEMMA MovedVer ==
  ASSUME NEW o \in Operations, NEW pc \in Pcs, NEW ver \in 0..(VersionSpan - 1)
  PROVE  /\ Like([o EXCEPT !.pc = pc, !.ver = ver], o)
         /\ [o EXCEPT !.pc = pc, !.ver = ver].pc = pc
         /\ [o EXCEPT !.pc = pc, !.ver = ver].ver = ver
<1> DEFINE f == [o EXCEPT !.pc = pc, !.ver = ver]
<1>1. /\ f.pc = pc /\ f.ver = ver /\ f.op = o.op /\ f.key = o.key /\ f.asked = o.asked
      /\ f.main = o.main /\ f.val = o.val
  BY OperationFields
<1>2. f \in Operations
  BY OperationFields
<1> HIDE DEF f
<1>3. QED
  BY <1>1, <1>2 DEF f, Like

LEMMA MovedOff ==
  ASSUME NEW o \in Operations, NEW pc \in Pcs, NEW off \in Offsets \cup {0}
  PROVE  /\ Like([o EXCEPT !.pc = pc, !.off = off], o)
         /\ [o EXCEPT !.pc = pc, !.off = off].pc = pc
         /\ [o EXCEPT !.pc = pc, !.off = off].off = off
<1> DEFINE f == [o EXCEPT !.pc = pc, !.off = off]
<1>1. /\ f.pc = pc /\ f.off = off /\ f.op = o.op /\ f.key = o.key /\ f.asked = o.asked
      /\ f.main = o.main /\ f.val = o.val
  BY OperationFields
<1>2. f \in Operations
  BY OperationFields
<1> HIDE DEF f
<1>3. QED
  BY <1>1, <1>2 DEF f, Like

LEMMA PcsKnown ==
  /\ WriterPcs \subseteq Pcs /\ GetPcs \subseteq Pcs /\ HitPcs \subseteq Pcs
  /\ FillPcs \subseteq Pcs /\ HoldPcs \subseteq Pcs /\ Updating \subseteq Pcs
  /\ "idle" \in Pcs
BY DEF WriterPcs, GetPcs, HitPcs, FillPcs, HoldPcs, Updating, Pcs

(* The versions that the lock reads and writes keep to their width.        *)
LEMMA VersionFacts ==
  ASSUME NEW n \in Nat, n < VersionSpan
  PROVE  /\ 2 * (n \div 2) \in 0..(VersionSpan - 1)
         /\ 2 * (n \div 2) + 1 \in Nat /\ 2 * (n \div 2) + 1 < VersionSpan
         /\ (n + 1) % VersionSpan \in Nat /\ (n + 1) % VersionSpan < VersionSpan
         /\ n \in 0..(VersionSpan - 1)
<1>1. VersionSpan \in Nat \ {0} /\ VersionSpan % 2 = 0
  BY LogAssumption
<1>2. n \div 2 \in Nat /\ 2 * (n \div 2) <= n
  OBVIOUS
<1>3. VersionSpan = 2 * (VersionSpan \div 2) /\ VersionSpan \div 2 \in Nat
  BY <1>1
<1>4. 2 * (n \div 2) + 1 < VersionSpan
  BY <1>2, <1>3
<1>5. (n + 1) % VersionSpan \in 0..(VersionSpan - 1)
  <2>1. n + 1 \in Int
    OBVIOUS
  <2>2. QED
    BY <1>1, <2>1, ModRange
<1>6. QED
  BY <1>1, <1>2, <1>4, <1>5

(* A thread is at work in a main bucket, whose version has its width.      *)
LEMMA MainFacts ==
  ASSUME LogInv, NEW t \in Threads, th[t].pc # "idle"
  PROVE  /\ th[t].main \in Mains /\ th[t].main \in Buckets
         /\ version[th[t].main] \in Nat /\ version[th[t].main] < VersionSpan
         /\ th[t].ver \in Nat /\ th[t].ver < VersionSpan
         /\ th[t].key \in Keys /\ HashOf[th[t].key] \in Hashes
<1>1. th[t].main \in Mains /\ th[t].key \in Keys
  BY ThreadFacts, KeyFacts DEF OpControl
<1>2. th[t].ver \in Nat /\ th[t].ver < VersionSpan
  <2>1. th[t].ver \in 0..(VersionSpan - 1)
    BY ThreadFacts DEF Operations
  <2>2. QED
    BY <2>1, LogAssumption
<1>3. QED
  BY <1>1, <1>2, KeyFacts, SpareInBuckets DEF LogInv, LogTypeOK, TypeOK

------------------------------------------------------------------------------
(* One lemma a step: it keeps the invariant.                               *)
LEMMA InvokeKeeps ==
  ASSUME LogInv, NEW t \in Threads, Invoke(t)
  PROVE  LogInv'
<1>1. PICK pc \in {"lock", "begin"}, op \in {"put", "remove", "get"}, k \in Keys,
           val \in Vals \cup {NoVal} :
        /\ th' = [th EXCEPT ![t] = Op(pc, op, k, val)]
        /\ op = "get" <=> pc = "begin"
        /\ op = "put" => val \in Vals
  BY LogAssumption DEF Invoke
<1> DEFINE f == Op(pc, op, k, val)
<1>2. /\ f.pc = pc /\ f.op = op /\ f.key = k /\ f.asked = k /\ f.val = val
      /\ f.main = Main(k)
  BY DEF Op, NoOp
<1>3. f \in Operations
  BY NoOpTyped, KeyFacts DEF Op, Operations
<1>4. th[t].pc = "idle" /\ UNCHANGED <<index, log, free>>
  BY DEF Invoke, At
<1>5. th' = [th EXCEPT ![t] = f]
  BY <1>1
<1> HIDE DEF f
<1>6. OpControl(f)
  BY <1>1, <1>2 DEF OpControl, WriterPcs, GetPcs, FillPcs
<1>7. CallControl(f, call[t])
  BY <1>1, <1>2, <1>4, ThreadFacts DEF CallControl, HitPcs
<1>8. BlockControl(f, log)
  BY <1>1, <1>2 DEF BlockControl, FillPcs, HoldPcs
<1>9. QED
  BY <1>3, <1>4, <1>5, <1>6, <1>7, <1>8, OpStepKeeps

LEMMA ReturnKeeps ==
  ASSUME LogInv, NEW t \in Threads, Return(t)
  PROVE  LogInv'
<1> DEFINE f == NoOp
<1>1. /\ th[t].pc = "done" /\ UNCHANGED <<index, log, free>>
      /\ th' = [th EXCEPT ![t] = f]
  BY DEF Return, At
<1>2. f \in Operations /\ OpControl(f) /\ CallControl(f, NoCall) /\ BlockControl(f, log)
  BY NoOpTyped
<1> HIDE DEF f
<1>3. call[t] = NoCall
  BY <1>1, ThreadFacts DEF CallControl, HitPcs
<1>4. QED
  BY <1>1, <1>2, <1>3, OpStepKeeps

LEMMA LockReadKeeps ==
  ASSUME LogInv, NEW t \in Threads, LockRead(t)
  PROVE  LogInv'
<1> DEFINE ver == 2 * (version[th[t].main] \div 2)
           f   == [th[t] EXCEPT !.pc = "cas", !.ver = ver]
<1>1. /\ th[t].pc = "lock" /\ UNCHANGED <<index, log, free>>
      /\ th' = [th EXCEPT ![t] = f]
  BY DEF LockRead, At
<1>2. ver \in 0..(VersionSpan - 1)
  BY <1>1, MainFacts, VersionFacts
<1> HIDE DEF ver
<1>3. Like(f, th[t]) /\ f.pc = "cas"
  BY <1>2, ThreadFacts, MovedVer, PcsKnown DEF WriterPcs
<1> HIDE DEF f
<1>4. OpControl(f) /\ CallControl(f, call[t]) /\ BlockControl(f, log)
  <2>1. OpControl(f)
    BY <1>1, <1>3, ThreadFacts DEF OpControl, Like, WriterPcs, GetPcs, FillPcs, Updating
  <2>2. CallControl(f, call[t])
    BY <1>1, <1>3, ThreadFacts DEF CallControl, HitPcs
  <2>3. BlockControl(f, log)
    BY <1>3 DEF BlockControl, FillPcs, HoldPcs
  <2>4. QED
    BY <2>1, <2>2, <2>3
<1>5. QED
  BY <1>1, <1>3, <1>4, OpStepKeeps DEF Like

LEMMA LoadOffsetKeeps ==
  ASSUME LogInv, NEW t \in Threads, LoadOffset(t)
  PROVE  LogInv'
<1> DEFINE off == Entry(t).offset
           f   == [th[t] EXCEPT !.pc = "compare", !.off = off]
<1>1. /\ th[t].pc = "offset" /\ UNCHANGED <<index, log, free>>
      /\ th' = [th EXCEPT ![t] = f]
  BY DEF LoadOffset, At
<1>2. off \in Offsets \cup {0}
  <2>1. call[t].at = "found" /\ call[t].index \in Slots /\ call[t].bkt \in Buckets
    BY <1>1, ThreadFacts DEF CallControl, HitPcs, LogInv, LogTypeOK, TypeOK
  <2>2. Entry(t) \in [tag : Tags \cup {0}, offset : Offsets \cup {0}]
    BY <2>1 DEF Entry, LogInv, LogTypeOK, TypeOK
  <2>3. QED
    BY <2>2
<1> HIDE DEF off
<1>3. Like(f, th[t]) /\ f.pc = "compare"
  <2>1. "compare" \in Pcs
    BY PcsKnown DEF HitPcs
  <2>2. Like(f, th[t])
    BY <1>2, <2>1, ThreadFacts, MovedOff
  <2>3. f.pc = "compare"
    BY ThreadFacts, OperationFields
  <2>4. QED
    BY <2>2, <2>3
<1> HIDE DEF f
<1>4. OpControl(f)
  BY <1>1, <1>3, ThreadFacts DEF OpControl, Like, WriterPcs, GetPcs, FillPcs, Updating
<1>5. CallControl(f, call[t])
  BY <1>1, <1>3, ThreadFacts DEF CallControl, HitPcs
<1>6. BlockControl(f, log)
  BY <1>3 DEF BlockControl, FillPcs, HoldPcs
<1>7. QED
  BY <1>1, <1>3, <1>4, <1>5, <1>6, OpStepKeeps DEF Like

LEMMA KeyEqualKeeps ==
  ASSUME LogInv, NEW t \in Threads, KeyEqual(t)
  PROVE  LogInv'
<1> DEFINE pc == IF th[t].op = "get" THEN "load_key" ELSE "unindex"
           f  == [th[t] EXCEPT !.pc = pc]
<1>1. /\ th[t].pc = "compare" /\ UNCHANGED <<index, log, free>>
      /\ th' = [th EXCEPT ![t] = f]
      /\ log[th[t].off].key = th[t].key
  BY DEF KeyEqual, At, Goto
<1>2. pc \in {"load_key", "unindex"} /\ (pc = "load_key" <=> th[t].op = "get")
  OBVIOUS
<1> HIDE DEF pc
<1>3. Like(f, th[t]) /\ f.pc = pc /\ f.off = th[t].off
  BY <1>2, ThreadFacts, Moved, PcsKnown DEF HitPcs
<1> HIDE DEF f
<1>4. OpControl(f)
  BY <1>1, <1>2, <1>3, ThreadFacts
     DEF OpControl, Like, WriterPcs, GetPcs, FillPcs, Updating
<1>5. CallControl(f, call[t])
  BY <1>1, <1>2, <1>3, ThreadFacts DEF CallControl, HitPcs
<1>6. BlockControl(f, log)
  <2>1. th[t].key \in Keys /\ th[t].off \in Offsets \cup {0}
    BY <1>1, ThreadFacts, MainFacts DEF Operations
  <2>2. th[t].off # 0
    BY <1>1, <2>1, LogAssumption DEF LogInv
  <2>3. QED
    BY <1>1, <1>2, <1>3, <2>1, <2>2 DEF BlockControl, FillPcs
<1>7. QED
  BY <1>1, <1>3, <1>4, <1>5, <1>6, OpStepKeeps DEF Like

LEMMA AllocateFailsKeeps ==
  ASSUME LogInv, NEW t \in Threads, AllocateFails(t)
  PROVE  LogInv'
<1> DEFINE f == [th[t] EXCEPT !.pc = "done", !.ok = FALSE]
<1>1. /\ th[t].pc = "alloc" /\ UNCHANGED <<index, log, free>>
      /\ th' = [th EXCEPT ![t] = f]
  BY DEF AllocateFails, At
<1>2. Like(f, th[t]) /\ f.pc = "done"
  BY ThreadFacts, MovedOk, PcsKnown DEF WriterPcs
<1> HIDE DEF f
<1>3. OpControl(f)
  BY <1>1, <1>2, ThreadFacts DEF OpControl, Like, WriterPcs, GetPcs, FillPcs, Updating
<1>4. CallControl(f, call[t])
  BY <1>1, <1>2, ThreadFacts DEF CallControl, HitPcs
<1>5. BlockControl(f, log)
  BY <1>2 DEF BlockControl, FillPcs, HoldPcs
<1>6. QED
  BY <1>1, <1>2, <1>3, <1>4, <1>5, OpStepKeeps DEF Like

LEMMA GetKeyKeeps ==
  ASSUME LogInv, NEW t \in Threads, GetKey(t)
  PROVE  LogInv'
<1> DEFINE key == log[th[t].off].key
           f   == [th[t] EXCEPT !.pc = "load_val", !.key = key]
<1>1. /\ th[t].pc = "load_key" /\ UNCHANGED <<index, log, free>>
      /\ th' = [th EXCEPT ![t] = f]
  BY DEF GetKey, At
<1>2. key \in Keys /\ th[t].off \in Offsets
  BY <1>1, ThreadFacts DEF BlockControl, HoldPcs
<1>3. key = log[th[t].off].key
  OBVIOUS
<1> HIDE DEF key
<1>4. /\ f \in Operations /\ f.pc = "load_val" /\ f.key = key /\ f.off = th[t].off
      /\ f.op = th[t].op /\ f.asked = th[t].asked /\ f.main = th[t].main
      /\ f.val = th[t].val
  BY <1>2, ThreadFacts DEF Operations
<1> HIDE DEF f
<1>5. OpControl(f)
  BY <1>1, <1>2, <1>4, ThreadFacts DEF OpControl, WriterPcs, GetPcs, FillPcs, Updating
<1>6. CallControl(f, call[t])
  BY <1>1, <1>4, ThreadFacts DEF CallControl, HitPcs
<1>7. BlockControl(f, log)
  BY <1>2, <1>3, <1>4 DEF BlockControl, FillPcs
<1>8. QED
  BY <1>1, <1>4, <1>5, <1>6, <1>7, OpStepKeeps

LEMMA GetFaultKeeps ==
  ASSUME LogInv, NEW t \in Threads, GetFault(t)
  PROVE  LogInv'
<1> DEFINE f == [th[t] EXCEPT !.pc = "fault"]
<1>1. /\ th[t].pc = "load_key" /\ UNCHANGED <<index, log, free>>
      /\ th' = [th EXCEPT ![t] = f]
  BY DEF GetFault, At, Goto
<1>2. Like(f, th[t]) /\ f.pc = "fault"
  BY ThreadFacts, Moved, PcsKnown DEF GetPcs
<1> HIDE DEF f
<1>3. OpControl(f)
  BY <1>1, <1>2, ThreadFacts DEF OpControl, Like, WriterPcs, GetPcs, FillPcs, Updating
<1>4. CallControl(f, call[t])
  BY <1>1, <1>2, ThreadFacts DEF CallControl, HitPcs
<1>5. BlockControl(f, log)
  BY <1>2 DEF BlockControl, FillPcs, HoldPcs
<1>6. QED
  BY <1>1, <1>2, <1>3, <1>4, <1>5, OpStepKeeps DEF Like

LEMMA GetEndKeeps ==
  ASSUME LogInv, NEW t \in Threads, GetEnd(t)
  PROVE  LogInv'
<1> DEFINE pc == IF version[th[t].main] = th[t].ver THEN "done" ELSE "begin"
           f  == [th[t] EXCEPT !.pc = pc]
<1>1. /\ th[t].pc = "end" /\ UNCHANGED <<index, log, free>>
      /\ th' = [th EXCEPT ![t] = f]
  BY DEF GetEnd, At, Goto
<1>2. pc \in {"done", "begin"}
  OBVIOUS
<1> HIDE DEF pc
<1>3. Like(f, th[t]) /\ f.pc = pc
  BY <1>2, ThreadFacts, Moved, PcsKnown DEF GetPcs
<1> HIDE DEF f
<1>4. OpControl(f)
  BY <1>1, <1>2, <1>3, ThreadFacts DEF OpControl, Like, WriterPcs, GetPcs, FillPcs, Updating
<1>5. CallControl(f, call[t])
  BY <1>1, <1>2, <1>3, ThreadFacts DEF CallControl, HitPcs
<1>6. BlockControl(f, log)
  BY <1>2, <1>3 DEF BlockControl, FillPcs, HoldPcs
<1>7. QED
  BY <1>1, <1>3, <1>4, <1>5, <1>6, OpStepKeeps DEF Like

------------------------------------------------------------------------------
(* The searches start in the main bucket, or go on where the last ended.   *)
LEMMA FirstCalm ==
  ASSUME LogInv, NEW t \in Threads, th[t].pc # "idle", SearchFirst(t)
  PROVE  \E c : Calm(c) /\ c.at = "probe" /\ call' = [call EXCEPT ![t] = c]
<1> DEFINE c == Frame("probe", th[t].main, HashOf[th[t].key], 0)
<1>1. Calm(c) /\ c.at = "probe"
  BY MainFacts, FrameCalm
<1>2. call' = [call EXCEPT ![t] = c]
  BY DEF SearchFirst
<1> HIDE DEF c
<1>3. QED
  BY <1>1, <1>2

LEMMA AgainCalm ==
  ASSUME LogInv, NEW t \in Threads, call[t].at = "found", SearchAgain(t)
  PROVE  \E c : Calm(c) /\ c.at = "probe" /\ call' = [call EXCEPT ![t] = c]
<1> DEFINE c == [call[t] EXCEPT !.at = "probe"]
<1>1. c \in Frames /\ c.at = "probe" /\ c.bkt = call[t].bkt
  BY ThreadFacts DEF Frames, RunningLabels
<1>2. call' = [call EXCEPT ![t] = c]
  BY DEF SearchAgain
<1> HIDE DEF c
<1>3. call[t].bkt \in Buckets /\ (call[t].bkt \in Spares => version[call[t].bkt] # 0)
  BY DEF LogInv, ChainInv, ClaimInv, TypeOK, WalksClaimed
<1>4. Calm(c)
  BY <1>1, <1>3 DEF Calm
<1>5. QED
  BY <1>1, <1>2, <1>4

LEMMA LockEnterKeeps ==
  ASSUME LogInv, NEW t \in Threads, LockEnter(t)
  PROVE  LogInv'
<1> DEFINE f == [th[t] EXCEPT !.pc = "search"]
<1>1. /\ th[t].pc = "cas" /\ UNCHANGED <<entries, link, version, log, free>>
      /\ th' = [th EXCEPT ![t] = f]
  BY DEF LockEnter, At, Goto
<1>2. PICK c : Calm(c) /\ c.at = "probe" /\ call' = [call EXCEPT ![t] = c]
  BY <1>1, FirstCalm DEF LockEnter
<1>3. Like(f, th[t]) /\ f.pc = "search"
  BY ThreadFacts, Moved, PcsKnown DEF Updating
<1> HIDE DEF f
<1>4. OpControl(f)
  BY <1>1, <1>3, ThreadFacts DEF OpControl, Like, WriterPcs, GetPcs, FillPcs, Updating
<1>5. CallControl(f, c)
  BY <1>2, <1>3 DEF CallControl, HitPcs, SearchAts
<1>6. BlockControl(f, log)
  BY <1>3 DEF BlockControl, FillPcs, HoldPcs
<1>7. QED
  BY <1>1, <1>2, <1>3, <1>4, <1>5, <1>6, CallStepKeeps DEF Like

LEMMA GetBeginKeeps ==
  ASSUME LogInv, NEW t \in Threads, GetBegin(t)
  PROVE  LogInv'
<1> DEFINE ver == version[th[t].main]
           f == [th[t] EXCEPT !.pc = "search", !.ver = ver]
<1>1. /\ th[t].pc = "begin" /\ UNCHANGED <<entries, link, version, log, free>>
      /\ th' = [th EXCEPT ![t] = f]
  BY DEF GetBegin, At
<1>2. PICK c : Calm(c) /\ c.at = "probe" /\ call' = [call EXCEPT ![t] = c]
  BY <1>1, FirstCalm DEF GetBegin
<1>3. ver \in 0..(VersionSpan - 1)
  BY <1>1, MainFacts, VersionFacts
<1> HIDE DEF ver
<1>4. Like(f, th[t]) /\ f.pc = "search"
  BY <1>3, ThreadFacts, MovedVer, PcsKnown DEF Updating
<1> HIDE DEF f
<1>5. OpControl(f)
  BY <1>1, <1>4, ThreadFacts DEF OpControl, Like, WriterPcs, GetPcs, FillPcs, Updating
<1>6. CallControl(f, c)
  BY <1>2, <1>4 DEF CallControl, HitPcs, SearchAts
<1>7. BlockControl(f, log)
  BY <1>4 DEF BlockControl, FillPcs, HoldPcs
<1>8. QED
  BY <1>1, <1>2, <1>4, <1>5, <1>6, <1>7, CallStepKeeps DEF Like

LEMMA FoundKeeps ==
  ASSUME LogInv, NEW t \in Threads, Found(t)
  PROVE  LogInv'
<1>1. /\ th[t].pc = "search" /\ call[t].at = "found"
      /\ UNCHANGED <<entries, link, version, log, free>>
  BY DEF Found, At
<1>2. CASE Goto(t, "offset") /\ UNCHANGED call
  <2> DEFINE f == [th[t] EXCEPT !.pc = "offset"]
  <2>1. th' = [th EXCEPT ![t] = f] /\ UNCHANGED <<index, log, free>>
    BY <1>1, <1>2 DEF Goto, index
  <2>2. Like(f, th[t]) /\ f.pc = "offset"
    BY ThreadFacts, Moved, PcsKnown DEF Updating
  <2> HIDE DEF f
  <2>3. OpControl(f)
    BY <1>1, <2>2, ThreadFacts DEF OpControl, Like, WriterPcs, GetPcs, FillPcs, Updating
  <2>4. CallControl(f, call[t])
    BY <1>1, <2>2, ThreadFacts DEF CallControl, HitPcs
  <2>5. BlockControl(f, log)
    BY <2>2 DEF BlockControl, FillPcs, HoldPcs
  <2>6. QED
    BY <2>1, <2>2, <2>3, <2>4, <2>5, OpStepKeeps DEF Like
<1>3. CASE SearchAgain(t) /\ UNCHANGED th
  <2>1. PICK c : Calm(c) /\ c.at = "probe" /\ call' = [call EXCEPT ![t] = c]
    BY <1>1, <1>3, AgainCalm
  <2> DEFINE f == th[t]
  <2>2. th' = [th EXCEPT ![t] = f] /\ f.pc = "search"
    BY <1>1, <1>3, ThreadFacts
  <2>3. f \in Operations /\ OpControl(f) /\ BlockControl(f, log)
    BY ThreadFacts
  <2> HIDE DEF f
  <2>4. CallControl(f, c)
    BY <2>1, <2>2 DEF CallControl, HitPcs, SearchAts
  <2>5. QED
    BY <1>1, <2>1, <2>2, <2>3, <2>4, CallStepKeeps
<1>4. QED
  BY <1>2, <1>3 DEF Found

LEMMA KeyDiffersKeeps ==
  ASSUME LogInv, NEW t \in Threads, KeyDiffers(t)
  PROVE  LogInv'
<1> DEFINE f == [th[t] EXCEPT !.pc = "search"]
<1>1. /\ th[t].pc = "compare" /\ UNCHANGED <<entries, link, version, log, free>>
      /\ th' = [th EXCEPT ![t] = f]
  BY DEF KeyDiffers, At, Goto
<1>2. PICK c : Calm(c) /\ c.at = "probe" /\ call' = [call EXCEPT ![t] = c]
  <2>1. call[t].at = "found"
    BY <1>1, ThreadFacts DEF CallControl, HitPcs
  <2>2. QED
    BY <2>1, AgainCalm DEF KeyDiffers
<1>3. Like(f, th[t]) /\ f.pc = "search"
  BY ThreadFacts, Moved, PcsKnown DEF Updating
<1> HIDE DEF f
<1>4. OpControl(f)
  BY <1>1, <1>3, ThreadFacts DEF OpControl, Like, WriterPcs, GetPcs, FillPcs, Updating
<1>5. CallControl(f, c)
  BY <1>2, <1>3 DEF CallControl, HitPcs, SearchAts
<1>6. BlockControl(f, log)
  BY <1>3 DEF BlockControl, FillPcs, HoldPcs
<1>7. QED
  BY <1>1, <1>2, <1>3, <1>4, <1>5, <1>6, CallStepKeeps DEF Like

(* The steps that end an index call.                                       *)
LEMMA MissingKeeps ==
  ASSUME LogInv, NEW t \in Threads, Missing(t)
  PROVE  LogInv'
<1> DEFINE pc == OnMissing[th[t].op]
           f  == [th[t] EXCEPT !.pc = pc, !.ok = FALSE]
<1>1. /\ th[t].pc = "search" /\ UNCHANGED <<entries, link, version, log, free>>
      /\ th' = [th EXCEPT ![t] = f] /\ call' = [call EXCEPT ![t] = NoCall]
  BY DEF Missing, At
<1>2. /\ th[t].op \in {"get", "remove", "put"}
      /\ th[t].op = "get" => pc = "end"
      /\ th[t].op = "remove" => pc = "unlock"
      /\ th[t].op = "put" => pc = "alloc"
  <2>1. th[t].op \in {"get", "remove", "put"}
    BY <1>1, ThreadFacts DEF OpControl, Operations
  <2>2. QED
    BY <2>1 DEF OnMissing
<1> HIDE DEF pc
<1>3. pc \in Pcs
  BY <1>2 DEF Pcs, Updating, GetPcs
<1>4. Like(f, th[t]) /\ f.pc = pc
  BY <1>3, ThreadFacts, MovedOk
<1> HIDE DEF f
<1>5. OpControl(f)
  BY <1>1, <1>2, <1>4, ThreadFacts DEF OpControl, Like, WriterPcs, GetPcs, FillPcs, Updating
<1>6. CallControl(f, NoCall)
  BY <1>2, <1>4 DEF CallControl, HitPcs, NoCall
<1>7. BlockControl(f, log)
  BY <1>2, <1>4 DEF BlockControl, FillPcs, HoldPcs
<1>8. QED
  BY <1>1, <1>4, <1>5, <1>6, <1>7, NoCallCalm, CallStepKeeps DEF Like

LEMMA InsertedKeeps ==
  ASSUME LogInv, NEW t \in Threads, Inserted(t)
  PROVE  LogInv'
<1> DEFINE f == [th[t] EXCEPT !.pc = "unlock", !.ok = TRUE]
<1>1. /\ th[t].pc = "insert" /\ UNCHANGED <<entries, link, version, log, free>>
      /\ th' = [th EXCEPT ![t] = f] /\ call' = [call EXCEPT ![t] = NoCall]
  BY DEF Inserted, At
<1>2. Like(f, th[t]) /\ f.pc = "unlock"
  BY ThreadFacts, MovedOk, PcsKnown DEF Updating
<1> HIDE DEF f
<1>3. OpControl(f)
  BY <1>1, <1>2, ThreadFacts DEF OpControl, Like, WriterPcs, GetPcs, FillPcs, Updating
<1>4. CallControl(f, NoCall)
  BY <1>2 DEF CallControl, HitPcs, NoCall
<1>5. BlockControl(f, log)
  BY <1>2 DEF BlockControl, FillPcs, HoldPcs
<1>6. QED
  BY <1>1, <1>2, <1>3, <1>4, <1>5, NoCallCalm, CallStepKeeps DEF Like

LEMMA GetValKeeps ==
  ASSUME LogInv, NEW t \in Threads, GetVal(t)
  PROVE  LogInv'
<1> DEFINE val == log[th[t].off].val
           f   == [th[t] EXCEPT !.pc = "end", !.val = val, !.ok = TRUE]
<1>1. /\ th[t].pc = "load_val" /\ UNCHANGED <<entries, link, version, log, free>>
      /\ th' = [th EXCEPT ![t] = f] /\ call' = [call EXCEPT ![t] = NoCall]
  BY DEF GetVal, At
<1>2. val \in Vals \cup {Junk}
  <2>1. th[t].off \in Offsets
    BY <1>1, ThreadFacts DEF BlockControl, HoldPcs
  <2>2. log[th[t].off] \in LogEntries
    BY <2>1 DEF LogInv, LogTypeOK
  <2>3. QED
    BY <2>2 DEF LogEntries
<1> HIDE DEF val
<1>3. /\ f.pc = "end" /\ f.op = th[t].op /\ f.key = th[t].key /\ f.asked = th[t].asked
      /\ f.main = th[t].main
  BY ThreadFacts DEF Operations
<1>4. f \in Operations
  BY <1>2, ThreadFacts DEF Operations
<1> HIDE DEF f
<1>5. OpControl(f)
  BY <1>1, <1>3, ThreadFacts DEF OpControl, WriterPcs, GetPcs, FillPcs, Updating
<1>6. CallControl(f, NoCall)
  BY <1>3 DEF CallControl, HitPcs, NoCall
<1>7. BlockControl(f, log)
  BY <1>3 DEF BlockControl, FillPcs, HoldPcs
<1>8. QED
  BY <1>1, <1>4, <1>5, <1>6, <1>7, NoCallCalm, CallStepKeeps

------------------------------------------------------------------------------
(* The steps that change the version of a main bucket.                     *)
LEMMA VersionStepKeeps ==
  ASSUME LogInv, NEW t \in Threads, th[t].pc # "idle", NEW f \in Operations,
         NEW n \in Nat, n < VersionSpan,
         version' = [version EXCEPT ![th[t].main] = n],
         UNCHANGED <<entries, link, call, log, free>>, th' = [th EXCEPT ![t] = f],
         OpControl(f), CallControl(f, call[t]), BlockControl(f, log)
  PROVE  LogInv'
<1>1. /\ th[t].main \in Mains /\ th[t].main \in Buckets /\ th[t].main \notin Spares
  BY MainFacts, HashAssumption, BucketAssumption DEF Mains, Spares
<1>2. /\ version' \in [Buckets -> Nat]
      /\ \A s \in Spares : version'[s] = version[s]
      /\ \A b \in Mains : version'[b] < VersionSpan
  BY <1>1, SpareInBuckets DEF LogInv, LogTypeOK, TypeOK
<1>3. ChainInv'
  <2>1. /\ ChainInv /\ call' \in [Threads -> Frames]
        /\ entries' \in
             [Buckets -> [Slots -> [tag : Tags \cup {0}, offset : Offsets \cup {0}]]]
    BY DEF LogInv, LogTypeOK, TypeOK
  <2>2. QED
    BY <1>2, <2>1, OutsideStep
<1>4. /\ th' \in [Threads -> Operations] /\ th'[t] = f
      /\ \A u \in Threads \ {t} : th'[u] = th[u]
  BY DEF LogInv, LogTypeOK
<1>5. /\ log' \in [Offsets \cup {0} -> LogEntries] /\ log'[0].key = NoKey
      /\ free' \subseteq Offsets
  BY DEF LogInv, LogTypeOK
<1>6. QED
  BY <1>2, <1>3, <1>4, <1>5, LogStep

LEMMA LockRepeatKeeps ==
  ASSUME LogInv, NEW t \in Threads, LockRepeat(t)
  PROVE  LogInv'
<1> DEFINE n == 2 * (th[t].ver \div 2) + 1
           f == [th[t] EXCEPT !.pc = "lock"]
<1>1. /\ th[t].pc = "cas" /\ UNCHANGED <<entries, link, call, log, free>>
      /\ th' = [th EXCEPT ![t] = f] /\ version' = [version EXCEPT ![th[t].main] = n]
  BY DEF LockRepeat, At, Goto
<1>2. n \in Nat /\ n < VersionSpan
  BY <1>1, MainFacts, VersionFacts
<1>3. Like(f, th[t]) /\ f.pc = "lock"
  BY ThreadFacts, Moved, PcsKnown DEF WriterPcs
<1> HIDE DEF n, f
<1>4. OpControl(f)
  BY <1>1, <1>3, ThreadFacts DEF OpControl, Like, WriterPcs, GetPcs, FillPcs, Updating
<1>5. CallControl(f, call[t])
  BY <1>1, <1>3, ThreadFacts DEF CallControl, HitPcs
<1>6. BlockControl(f, log)
  BY <1>3 DEF BlockControl, FillPcs, HoldPcs
<1>7. QED
  BY <1>1, <1>2, <1>3, <1>4, <1>5, <1>6, VersionStepKeeps DEF Like

LEMMA UnlockKeeps ==
  ASSUME LogInv, NEW t \in Threads, Unlock(t)
  PROVE  LogInv'
<1> DEFINE n == (version[th[t].main] + 1) % VersionSpan
           f == [th[t] EXCEPT !.pc = "done"]
<1>1. /\ th[t].pc = "unlock" /\ UNCHANGED <<entries, link, call, log, free>>
      /\ th' = [th EXCEPT ![t] = f] /\ version' = [version EXCEPT ![th[t].main] = n]
  BY DEF Unlock, At, Goto
<1>2. n \in Nat /\ n < VersionSpan
  BY <1>1, MainFacts, VersionFacts
<1>3. Like(f, th[t]) /\ f.pc = "done"
  BY ThreadFacts, Moved, PcsKnown DEF WriterPcs
<1> HIDE DEF n, f
<1>4. OpControl(f)
  BY <1>1, <1>3, ThreadFacts DEF OpControl, Like, WriterPcs, GetPcs, FillPcs, Updating
<1>5. CallControl(f, call[t])
  BY <1>1, <1>3, ThreadFacts DEF CallControl, HitPcs
<1>6. BlockControl(f, log)
  BY <1>3 DEF BlockControl, FillPcs, HoldPcs
<1>7. QED
  BY <1>1, <1>2, <1>3, <1>4, <1>5, <1>6, VersionStepKeeps DEF Like

------------------------------------------------------------------------------
(* The steps that take, fill and give back a block.                        *)
LEMMA AllocateKeeps ==
  ASSUME LogInv, NEW t \in Threads, Allocate(t)
  PROVE  LogInv'
<1>1. PICK off \in Offsets \cup {0} :
        /\ off \in Offsets
        /\ free' = free \ {off}
        /\ th' = [th EXCEPT ![t] = [th[t] EXCEPT !.pc = "copy_key", !.off = off]]
  BY DEF Allocate, LogInv, LogTypeOK
<1>2. /\ th[t].pc = "alloc" /\ UNCHANGED <<index, log>>
  BY DEF Allocate, At
<1>3. ASSUME NEW o \in Operations, NEW f, f = [o EXCEPT !.pc = "copy_key", !.off = off]
      PROVE  Like(f, o) /\ f.pc = "copy_key" /\ f.off = off
  <2>1. "copy_key" \in Pcs
    BY PcsKnown DEF FillPcs
  <2>2. Like(f, o)
    BY <1>3, <2>1, MovedOff
  <2>3. f.pc = "copy_key" /\ f.off = off
    BY <1>3, OperationFields
  <2>4. QED
    BY <2>2, <2>3
<1>4. \E f : /\ th' = [th EXCEPT ![t] = f]
             /\ Like(f, th[t]) /\ f.pc = "copy_key" /\ f.off = off
  BY <1>1, <1>3, ThreadFacts
<1>5. PICK f : /\ th' = [th EXCEPT ![t] = f]
               /\ Like(f, th[t]) /\ f.pc = "copy_key" /\ f.off = off
  BY <1>4
<1>6. OpControl(f)
  BY <1>2, <1>5, ThreadFacts DEF OpControl, Like, WriterPcs, GetPcs, FillPcs, Updating
<1>7. CallControl(f, call[t])
  BY <1>2, <1>5, ThreadFacts DEF CallControl, HitPcs
<1>8. BlockControl(f, log)
  BY <1>1, <1>5 DEF BlockControl, HoldPcs
<1>9. ChainInv'
  BY <1>2, InvStep DEF LogInv, index, bucketVars
<1>10. /\ th' \in [Threads -> Operations] /\ th'[t] = f
       /\ \A u \in Threads \ {t} : th'[u] = th[u]
  BY <1>5 DEF LogInv, LogTypeOK, Like
<1>11. /\ \A b \in Mains : version'[b] < VersionSpan
       /\ log' = log /\ log \in [Offsets \cup {0} -> LogEntries] /\ log[0].key = NoKey
       /\ free' \subseteq Offsets /\ call' = call
  BY <1>1, <1>2 DEF LogInv, LogTypeOK, index
<1>12. QED
  BY <1>6, <1>7, <1>8, <1>9, <1>10, <1>11, LogStep

(* A block that keeps its key, or gets one.                                *)
LEMMA BlockWritten ==
  ASSUME LogInv, NEW off \in Offsets, NEW e \in LogEntries,
         log' = [log EXCEPT ![off] = e], log[off].key \in Keys => e.key \in Keys
  PROVE  /\ log' \in [Offsets \cup {0} -> LogEntries] /\ log'[0].key = NoKey
         /\ log'[off] = e
         /\ \A o \in Offsets : log[o].key \in Keys => log'[o].key \in Keys
BY ZeroNoOffset DEF LogInv, LogTypeOK

LEMMA CopyKeyKeeps ==
  ASSUME LogInv, NEW t \in Threads, CopyKey(t)
  PROVE  LogInv'
<1> DEFINE off == th[t].off
           e   == [log[off] EXCEPT !.size = "size", !.key = th[t].key]
           f   == [th[t] EXCEPT !.pc = "copy_val"]
<1>1. /\ th[t].pc = "copy_key" /\ UNCHANGED <<index, free>>
      /\ th' = [th EXCEPT ![t] = f]
  BY DEF CopyKey, At, Goto
<1>2. off \in Offsets /\ th[t].key \in Keys
  BY <1>1, ThreadFacts, MainFacts DEF BlockControl, FillPcs
<1>3. log[off] \in LogEntries
  BY <1>2 DEF LogInv, LogTypeOK
<1>4. e \in LogEntries /\ e.key \in Keys
  BY <1>2, <1>3 DEF LogEntries
<1>5. log' = [log EXCEPT ![off] = e]
  BY <1>2 DEF CopyKey, LogInv, LogTypeOK
<1> HIDE DEF e
<1>6. /\ log' \in [Offsets \cup {0} -> LogEntries] /\ log'[0].key = NoKey
      /\ \A o \in Offsets : log[o].key \in Keys => log'[o].key \in Keys
  BY <1>2, <1>4, <1>5, BlockWritten
<1>7. Like(f, th[t]) /\ f.pc = "copy_val" /\ f.off = off
  BY ThreadFacts, Moved, PcsKnown DEF FillPcs
<1> HIDE DEF f
<1>8. OpControl(f)
  BY <1>1, <1>7, ThreadFacts DEF OpControl, Like, WriterPcs, GetPcs, FillPcs, Updating
<1>9. CallControl(f, call[t])
  BY <1>1, <1>7, ThreadFacts DEF CallControl, HitPcs
<1>10. BlockControl(f, log')
  BY <1>2, <1>7 DEF BlockControl, HoldPcs
<1>11. ChainInv'
  BY <1>1, InvStep DEF LogInv, index, bucketVars
<1>12. /\ th' \in [Threads -> Operations] /\ th'[t] = f
       /\ \A u \in Threads \ {t} : th'[u] = th[u]
  BY <1>1, <1>7 DEF LogInv, LogTypeOK, Like
<1>13. /\ \A b \in Mains : version'[b] < VersionSpan
       /\ free' \subseteq Offsets /\ call' = call
  BY <1>1 DEF LogInv, LogTypeOK, index
<1>14. QED
  BY <1>6, <1>8, <1>9, <1>10, <1>11, <1>12, <1>13, LogStep

LEMMA CopyValKeeps ==
  ASSUME LogInv, NEW t \in Threads, CopyVal(t)
  PROVE  LogInv'
<1> DEFINE off == th[t].off
           e   == [log[off] EXCEPT !.val = th[t].val]
           f   == [th[t] EXCEPT !.pc = "insert"]
           c   == Frame("scan", th[t].main, HashOf[th[t].key], th[t].off)
<1>1. /\ th[t].pc = "copy_val" /\ UNCHANGED <<entries, link, version, free>>
      /\ th' = [th EXCEPT ![t] = f] /\ call' = [call EXCEPT ![t] = c]
  BY DEF CopyVal, At, Goto
<1>2. off \in Offsets /\ th[t].val \in Vals
  BY <1>1, ThreadFacts
     DEF BlockControl, FillPcs, OpControl, Operations, GetPcs, WriterPcs, Updating
<1>3. log[off] \in LogEntries
  BY <1>2 DEF LogInv, LogTypeOK
<1>4. e \in LogEntries /\ e.key = log[off].key
  BY <1>2, <1>3 DEF LogEntries
<1>5. log' = [log EXCEPT ![off] = e]
  BY <1>2 DEF CopyVal, LogInv, LogTypeOK
<1> HIDE DEF e
<1>6. /\ log' \in [Offsets \cup {0} -> LogEntries] /\ log'[0].key = NoKey
      /\ \A o \in Offsets : log[o].key \in Keys => log'[o].key \in Keys
  BY <1>2, <1>4, <1>5, BlockWritten
<1>7. Like(f, th[t]) /\ f.pc = "insert" /\ f.off = off
  BY ThreadFacts, Moved, PcsKnown DEF FillPcs
<1>8. Calm(c) /\ c.at = "scan"
  BY <1>1, <1>2, MainFacts, FrameCalm
<1> HIDE DEF f, c
<1>9. OpControl(f)
  BY <1>1, <1>7, ThreadFacts DEF OpControl, Like, WriterPcs, GetPcs, FillPcs, Updating
<1>10. CallControl(f, c)
  BY <1>7, <1>8 DEF CallControl, HitPcs, InsertAts
<1>11. BlockControl(f, log')
  BY <1>2, <1>7 DEF BlockControl, HoldPcs
<1>12. /\ call' \in [Threads -> Frames] /\ call'[t] = c
       /\ \A u \in Threads \ {t} : call'[u] = call[u]
  BY <1>1, <1>8 DEF LogInv, LogTypeOK, TypeOK, Calm
<1>13. ChainInv'
  <2>1. /\ ChainInv /\ version \in [Buckets -> Nat]
        /\ entries \in
             [Buckets -> [Slots -> [tag : Tags \cup {0}, offset : Offsets \cup {0}]]]
    BY DEF LogInv, LogTypeOK, TypeOK
  <2>2. \A u \in Threads : call'[u] = call[u] \/ Calm(call'[u])
    BY <1>8, <1>12
  <2>3. QED
    BY <1>1, <1>12, <2>1, <2>2, OutsideStep
<1>14. /\ th' \in [Threads -> Operations] /\ th'[t] = f
       /\ \A u \in Threads \ {t} : th'[u] = th[u]
  BY <1>1, <1>7 DEF LogInv, LogTypeOK, Like
<1>15. (\A b \in Mains : version'[b] < VersionSpan) /\ free' \subseteq Offsets
  BY <1>1 DEF LogInv, LogTypeOK
<1>16. QED
  BY <1>6, <1>9, <1>10, <1>11, <1>12, <1>13, <1>14, <1>15, LogStep

(* What a free leaves is an entry still, with its key.                     *)
LEMMA RemainsTyped ==
  ASSUME NEW e \in LogEntries, NEW d \in Remains(e)
  PROVE  d \in LogEntries /\ d.key = e.key
<1>1. d = e \/ d = [e EXCEPT !.size = "next"] \/ d = [e EXCEPT !.val = Junk]
  <2>1. Scars \subseteq {"none", "size", "val"}
    BY LogAssumption
  <2>2. QED
    BY <2>1 DEF Remains
<1>2. QED
  BY <1>1 DEF LogEntries

LEMMA FreeBlockKeeps ==
  ASSUME LogInv, NEW t \in Threads, FreeBlock(t)
  PROVE  LogInv'
<1> DEFINE off == th[t].off
           pc  == IF th[t].op = "put" THEN "alloc" ELSE "unlock"
           f   == [th[t] EXCEPT !.pc = pc, !.off = 0, !.ok = TRUE]
<1>1. PICK e \in Remains(log[off]) : log' = [log EXCEPT ![off] = e]
  BY DEF FreeBlock
<1>2. /\ th[t].pc = "free" /\ UNCHANGED index /\ free' = free \cup {off}
      /\ th' = [th EXCEPT ![t] = f]
  BY DEF FreeBlock, At
<1>3. off \in Offsets
  BY <1>2, ThreadFacts DEF BlockControl, HoldPcs
<1>4. log[off] \in LogEntries
  BY <1>3 DEF LogInv, LogTypeOK
<1>5. /\ log' \in [Offsets \cup {0} -> LogEntries] /\ log'[0].key = NoKey
      /\ \A o \in Offsets : log[o].key \in Keys => log'[o].key \in Keys
  BY <1>1, <1>3, <1>4, RemainsTyped, BlockWritten
<1>6. pc \in {"alloc", "unlock"} /\ (th[t].op # "put" => pc = "unlock")
  OBVIOUS
<1> HIDE DEF pc
<1>7. /\ f.pc = pc /\ f.op = th[t].op /\ f.key = th[t].key /\ f.asked = th[t].asked
      /\ f.main = th[t].main /\ f.val = th[t].val
  BY ThreadFacts DEF Operations
<1>8. f \in Operations
  <2>1. pc \in Pcs
    BY <1>6 DEF Pcs, Updating
  <2>2. QED
    BY <2>1, ThreadFacts, OperationFields
<1> HIDE DEF f
<1>9. OpControl(f)
  BY <1>2, <1>6, <1>7, ThreadFacts DEF OpControl, WriterPcs, GetPcs, FillPcs, Updating
<1>10. CallControl(f, call[t])
  BY <1>2, <1>6, <1>7, ThreadFacts DEF CallControl, HitPcs
<1>11. BlockControl(f, log')
  BY <1>6, <1>7 DEF BlockControl, FillPcs, HoldPcs
<1>12. ChainInv'
  BY <1>2, InvStep DEF LogInv, index, bucketVars
<1>13. /\ th' \in [Threads -> Operations] /\ th'[t] = f
       /\ \A u \in Threads \ {t} : th'[u] = th[u]
  BY <1>2, <1>8 DEF LogInv, LogTypeOK
<1>14. /\ \A b \in Mains : version'[b] < VersionSpan
       /\ free' \subseteq Offsets /\ call' = call
  BY <1>2, <1>3 DEF LogInv, LogTypeOK, index
<1>15. QED
  BY <1>5, <1>9, <1>10, <1>11, <1>12, <1>13, <1>14, LogStep

LEMMA UnindexKeeps ==
  ASSUME LogInv, NEW t \in Threads, Unindex(t)
  PROVE  LogInv'
<1> DEFINE b == call[t].bkt
           i == call[t].index
           f == [th[t] EXCEPT !.pc = "free"]
<1>1. /\ th[t].pc = "unindex" /\ UNCHANGED <<link, version, log, free>>
      /\ th' = [th EXCEPT ![t] = f] /\ call' = [call EXCEPT ![t] = NoCall]
      /\ entries' = [entries EXCEPT ![b][i] = EmptyEntry]
  BY DEF Unindex, At, Goto
<1>2. /\ ChainInv /\ version \in [Buckets -> Nat]
      /\ entries \in
           [Buckets -> [Slots -> [tag : Tags \cup {0}, offset : Offsets \cup {0}]]]
  BY DEF LogInv, LogTypeOK, TypeOK
<1>3. entries' \in
        [Buckets -> [Slots -> [tag : Tags \cup {0}, offset : Offsets \cup {0}]]]
  <2>1. EmptyEntry \in [tag : Tags \cup {0}, offset : Offsets \cup {0}]
    BY DEF EmptyEntry
  <2>2. QED
    BY <1>1, <1>2, <2>1
<1>4. /\ call' \in [Threads -> Frames] /\ call'[t] = NoCall
      /\ \A u \in Threads \ {t} : call'[u] = call[u]
  BY <1>1, NoCallFrame DEF LogInv, LogTypeOK, TypeOK
<1>5. ChainInv'
  <2>1. \A u \in Threads : call'[u] = call[u] \/ Calm(call'[u])
    BY <1>4, NoCallCalm
  <2>2. QED
    BY <1>1, <1>2, <1>3, <1>4, <2>1, OutsideStep
<1>6. Like(f, th[t]) /\ f.pc = "free" /\ f.off = th[t].off
  BY ThreadFacts, Moved, PcsKnown DEF HoldPcs
<1> HIDE DEF f
<1>7. OpControl(f)
  BY <1>1, <1>6, ThreadFacts DEF OpControl, Like, WriterPcs, GetPcs, FillPcs, Updating
<1>8. CallControl(f, NoCall)
  BY <1>6 DEF CallControl, HitPcs, NoCall
<1>9. BlockControl(f, log')
  BY <1>1, <1>6, ThreadFacts DEF BlockControl, FillPcs, HoldPcs
<1>10. /\ th' \in [Threads -> Operations] /\ th'[t] = f
       /\ \A u \in Threads \ {t} : th'[u] = th[u]
  BY <1>1, <1>6 DEF LogInv, LogTypeOK, Like
<1>11. /\ \A m \in Mains : version'[m] < VersionSpan
       /\ log' = log /\ log \in [Offsets \cup {0} -> LogEntries] /\ log[0].key = NoKey
       /\ free' \subseteq Offsets
  BY <1>1 DEF LogInv, LogTypeOK
<1>12. QED
  BY <1>4, <1>5, <1>7, <1>8, <1>9, <1>10, <1>11, LogStep

------------------------------------------------------------------------------
(* The steps inside an index call: a search stays a search, an insert an   *)
(* insert, and both are at a slot where they say so.                       *)
Stays(c, d) ==
  /\ c.at \in SearchAts => d.at \in SearchAts
  /\ c.at \in InsertAts => d.at \in InsertAts
  /\ d.at \in {"found", "store", "publish"} => d.index \in Slots

LEMMA WalkStays ==
  ASSUME TypeOK, NEW t \in Threads,
         SlotHit(t) \/ SlotMiss(t) \/ FollowLink(t) \/ ChainEnd(t)
  PROVE  Stays(call[t], call'[t])
<1>1. call[t] \in Frames /\ call \in [Threads -> Frames]
  BY DEF TypeOK
<1>2. call[t].at \in {"probe", "scan", "match"}
  BY DEF SlotHit, SlotMiss, FollowLink, ChainEnd, AtBucketEnd, Walking, OnHit
<1>3. CASE SlotHit(t)
  <2>1. /\ call[t].index \in Slots /\ call'[t].index = call[t].index
        /\ call'[t].at = OnHit[call[t].at]
    BY <1>1, <1>3 DEF SlotHit, Frames
  <2>2. QED
    BY <1>2, <2>1 DEF Stays, SearchAts, InsertAts, OnHit
<1>4. CASE SlotMiss(t)
  <2>1. call'[t].at = call[t].at
    BY <1>1, <1>4 DEF SlotMiss, Frames
  <2>2. QED
    BY <1>2, <2>1 DEF Stays
<1>5. CASE FollowLink(t)
  <2>1. call'[t].at = call[t].at
    BY <1>1, <1>5 DEF FollowLink, Frames
  <2>2. QED
    BY <1>2, <2>1 DEF Stays
<1>6. CASE ChainEnd(t)
  <2>1. call'[t].at = OnEnd[call[t].at]
    BY <1>1, <1>6 DEF ChainEnd, Frames
  <2>2. QED
    BY <1>2, <2>1 DEF Stays, SearchAts, InsertAts, OnEnd
<1>7. QED
  BY <1>3, <1>4, <1>5, <1>6

LEMMA InsertStays ==
  ASSUME TypeOK, NEW t \in Threads,
         \/ InsertStore(t) \/ InsertPublish(t) \/ InsertFull(t) \/ InsertLink(t)
         \/ ClaimSkip(t) \/ ClaimTake(t) \/ DeleteClear(t)
  PROVE  Stays(call[t], call'[t])
<1>1. call[t] \in Frames /\ call \in [Threads -> Frames]
  BY DEF TypeOK
<1>2. CASE InsertStore(t)
  <2>1. /\ call[t].at = "store" /\ call[t].index \in Slots
        /\ call'[t].at = "publish" /\ call'[t].index = call[t].index
    BY <1>1, <1>2 DEF InsertStore, AtSlot, Frames
  <2>2. QED
    BY <2>1 DEF Stays, SearchAts, InsertAts
<1>3. CASE InsertPublish(t)
  <2>1. call[t].at = "publish" /\ call'[t].at = "inserted"
    BY <1>1, <1>3 DEF InsertPublish, AtSlot, Frames
  <2>2. QED
    BY <2>1 DEF Stays, SearchAts, InsertAts
<1>4. CASE InsertFull(t)
  <2>1. call[t].at = "claim" /\ call'[t].at = "full"
    BY <1>1, <1>4 DEF InsertFull, Frames
  <2>2. QED
    BY <2>1 DEF Stays, SearchAts, InsertAts
<1>5. CASE InsertLink(t)
  <2>1. call[t].at = "link" /\ call'[t].at = "scan"
    BY <1>1, <1>5 DEF InsertLink, Frames
  <2>2. QED
    BY <2>1 DEF Stays, SearchAts, InsertAts
<1>6. CASE ClaimSkip(t)
  <2>1. call[t].at = "claim" /\ call'[t].at = "claim"
    BY <1>1, <1>6 DEF ClaimSkip, Frames
  <2>2. QED
    BY <2>1 DEF Stays, SearchAts, InsertAts
<1>7. CASE ClaimTake(t)
  <2>1. call[t].at = "claim" /\ call'[t].at = "link"
    BY <1>1, <1>7 DEF ClaimTake, Frames
  <2>2. QED
    BY <2>1 DEF Stays, SearchAts, InsertAts
<1>8. CASE DeleteClear(t)
  <2>1. call[t].at = "clear" /\ call'[t].at = "deleted"
    BY <1>1, <1>8 DEF DeleteClear, AtSlot, Frames
  <2>2. QED
    BY <2>1 DEF Stays, SearchAts, InsertAts
<1>9. QED
  BY <1>2, <1>3, <1>4, <1>5, <1>6, <1>7, <1>8

(* It is the thread's own call, and no main bucket's version changes.      *)
LEMMA IndexStepFrame ==
  ASSUME TypeOK, NEW t \in Threads, IndexStep(t)
  PROVE  /\ \A u \in Threads \ {t} : call'[u] = call[u]
         /\ \A b \in Mains : version'[b] = version[b]
<1>1. \A u \in Threads \ {t} : call'[u] = call[u]
  BY DEF TypeOK, IndexStep, SlotHit, SlotMiss, FollowLink, ChainEnd, InsertStore,
         InsertPublish, InsertFull, InsertLink, ClaimSkip, ClaimTake, DeleteClear
<1>2. CASE ClaimTake(t)
  <2>1. \A b \in Mains : b \notin Spares
    BY HashAssumption, BucketAssumption DEF Mains, Spares
  <2>2. \A b \in Mains : version'[b] = version[b]
    BY <1>2, <2>1, SpareInBuckets DEF ClaimTake, TypeOK
  <2>3. QED
    BY <1>1, <2>2
<1>3. CASE ~ClaimTake(t)
  <2>1. version' = version
    BY <1>3 DEF IndexStep, SlotHit, SlotMiss, FollowLink, ChainEnd, InsertStore,
         InsertPublish, InsertFull, InsertLink, ClaimSkip, DeleteClear
  <2>2. QED
    BY <1>1, <2>1
<1>4. QED
  BY <1>2, <1>3

LEMMA RunIndexCallKeeps ==
  ASSUME LogInv, NEW t \in Threads, RunIndexCall(t)
  PROVE  LogInv'
<1>1. /\ th[t].pc \in {"search", "insert"} /\ IndexStep(t)
      /\ log' = log /\ free' = free /\ th' = th
  BY DEF RunIndexCall
<1>2. TypeOK /\ ChainInv
  BY DEF LogInv, LogTypeOK
<1>3. ChainInv'
  BY <1>1, <1>2, InvStep DEF Next
<1>4. Stays(call[t], call'[t])
  BY <1>1, <1>2, WalkStays, InsertStays DEF IndexStep
<1>5. /\ \A u \in Threads \ {t} : call'[u] = call[u]
      /\ \A b \in Mains : version'[b] = version[b]
  BY <1>1, <1>2, IndexStepFrame
<1>6. CallControl(th[t], call'[t])
  BY <1>1, <1>4, ThreadFacts DEF CallControl, Stays, HitPcs
<1>7. /\ OpControl(th[t]) /\ BlockControl(th[t], log) /\ th \in [Threads -> Operations]
  BY ThreadFacts
<1>8. /\ \A b \in Mains : version'[b] < VersionSpan
      /\ log \in [Offsets \cup {0} -> LogEntries] /\ log[0].key = NoKey
      /\ free' \subseteq Offsets
  BY <1>1, <1>5 DEF LogInv, LogTypeOK
<1>9. QED
  BY <1>1, <1>3, <1>5, <1>6, <1>7, <1>8, LogStep

------------------------------------------------------------------------------
LEMMA LogInitInv == LogInit => LogInv
<1> SUFFICES ASSUME LogInit
             PROVE  LogInv
  OBVIOUS
<1>1. ChainInv
  BY InitInv DEF LogInit
<1>2. \A b \in Mains : version[b] = 0
  BY SpareInBuckets DEF LogInit, Init, PoolInit
<1>3. 0 < VersionSpan
  BY LogAssumption
<1>4. log \in [Offsets \cup {0} -> LogEntries] /\ log[0].key = NoKey
  BY DEF LogInit, LogEntries
<1>5. LogTypeOK
  <2>1. TypeOK
    BY <1>1 DEF ChainInv, ClaimInv
  <2>2. QED
    BY <1>2, <1>3, <1>4, <2>1, NoOpTyped DEF LogInit, LogTypeOK
<1>6. \A t \in Threads : th[t] = NoOp /\ call[t] = NoCall
  BY DEF LogInit, Init
<1>7. QED
  BY <1>1, <1>4, <1>5, <1>6, NoOpTyped DEF LogInv

LEMMA LogInvStep == LogInv /\ [LogNext]_logVars => LogInv'
<1> SUFFICES ASSUME LogInv, [LogNext]_logVars
             PROVE  LogInv'
  OBVIOUS
<1>1. CASE UNCHANGED logVars
  <2>1. /\ UNCHANGED bucketVars /\ log' = log /\ free' = free /\ th' = th
        /\ call' = call /\ version' = version
    BY <1>1 DEF logVars, bucketVars
  <2>2. ChainInv'
    BY <2>1, InvStep DEF LogInv
  <2>3. LogTypeOK'
    BY <2>1, <2>2 DEF LogInv, LogTypeOK, ChainInv, ClaimInv
  <2>4. QED
    BY <2>1, <2>2, <2>3 DEF LogInv
<1>2. ASSUME NEW t \in Threads, WriterStep(t)
      PROVE  LogInv'
  BY <1>2, LockReadKeeps, LockRepeatKeeps, LockEnterKeeps, UnindexKeeps, FreeBlockKeeps,
     AllocateKeeps, AllocateFailsKeeps, CopyKeyKeeps, CopyValKeeps, InsertedKeeps,
     UnlockKeeps DEF WriterStep
<1>3. ASSUME NEW t \in Threads, LoopStep(t)
      PROVE  LogInv'
  BY <1>3, RunIndexCallKeeps, FoundKeeps, LoadOffsetKeeps, KeyDiffersKeeps, KeyEqualKeeps,
     MissingKeeps DEF LoopStep
<1>4. ASSUME NEW t \in Threads, GetStep(t)
      PROVE  LogInv'
  BY <1>4, GetBeginKeeps, GetKeyKeeps, GetFaultKeeps, GetValKeeps, GetEndKeeps DEF GetStep
<1>5. QED
  BY <1>1, <1>2, <1>3, <1>4, InvokeKeeps, ReturnKeeps DEF LogNext, OpStep

(* Every step of every operation keeps the invariant: chains, types, and   *)
(* where a thread is in its operation, its index call and its block.       *)
THEOREM LogInvariant == LogSpec => []LogInv
<1>1. QED
  BY LogInitInv, LogInvStep, PTL DEF LogSpec

(* put, get and remove keep every variable in its type: an offset that a   *)
(* thread holds is a block, a version is below its span.                   *)
THEOREM LogTyped == LogSpec => []LogTypeOK
<1>1. LogInv => LogTypeOK
  BY DEF LogInv
<1>2. QED
  BY <1>1, LogInvariant, PTL

==============================================================================
