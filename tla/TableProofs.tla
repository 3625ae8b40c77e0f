---------------------------- MODULE TableProofs ------------------------------
(***************************************************************************)
(* Proofs about the life of tables, for any number of tables, partitions   *)
(* and sizes: what a process holds is a function of the stage it is in.    *)
(***************************************************************************)
EXTENDS KvTable, BasicLemmas, FiniteSetTheorems

(* The stages between the opening of the log's file and the end of the     *)
(* logs, and those of them that make one.                                  *)
MakeStages == {"malloc_log", "malloc_fits", "reclass"}
LogStages  == MakeStages \cup {"live", "destroy_logs"}
FileStages == {"open", "mmap", "malloc_map", "destroy_map"}

Opened == {"mmap", "malloc_map", "destroy_map"}
Mapped == {"malloc_map", "destroy_map"}

(* How many heap objects a stage has made and not yet freed.               *)
HeapExact(t) ==
  LET pc == frame[t].pc
      i  == frame[t].i
  IN  /\ heap[t]["kv_table"] = IF pc \in {"idle", "malloc_table"} THEN 0 ELSE 1
      /\ heap[t]["bucket_pool"] =
           IF pc \in {"idle", "malloc_table", "malloc_pool", "free_table"} THEN 0 ELSE 1
      /\ heap[t]["circular_log"] =
           IF pc \in {"malloc_fits", "reclass"} THEN i + 1
           ELSE IF pc \in LogStages THEN i ELSE 0
      /\ heap[t]["segregated_fits"] =
           IF pc = "reclass" THEN i + 1 ELSE IF pc \in LogStages THEN i ELSE 0

(* The logs made are the first ones.                                       *)
LogsPrefix(t) ==
  LET pc == frame[t].pc
      i  == frame[t].i
  IN  /\ pc \in MakeStages => i < Threads
      /\ pc \notin {"destroy_map", "free_pool", "free_table"} =>
           \A j \in Parts : frame[t].log[j] = IF j < i THEN "made" ELSE "null"
      /\ pc \in {"idle", "malloc_table", "malloc_pool", "open", "mmap", "malloc_map", "zero"}
           => i = 0

(* The file in hand, and what is open and mapped.                          *)
FilesHeld(t) ==
  LET pc   == frame[t].pc
      file == frame[t].file
  IN  /\ pc \in LogStages => file = "log"
      /\ pc \notin LogStages \cup FileStages => file = "pool"
      /\ (fds[t]["log"] # None) <=> (pc \in LogStages \/ (file = "log" /\ pc \in Opened))
      /\ (maps[t]["log"] # None) <=> (pc \in LogStages \/ (file = "log" /\ pc \in Mapped))
      /\ (fds[t]["pool"] # None) <=> (file = "log" \/ pc \in Opened \cup {"zero"})
      /\ (maps[t]["pool"] # None) <=> (file = "log" \/ pc \in Mapped \cup {"zero"})

StageInv == \A t \in Tables : HeapExact(t) /\ LogsPrefix(t) /\ FilesHeld(t)

(* Every inode in use was made under the name it is used for.              *)
NamesKept ==
  /\ \A name \in Names : files[name] # None => files[name][1] = name
  /\ \A t \in Tables, f \in Files :
       /\ fds[t][f] # None => fds[t][f][1] = FileName(t, f)
       /\ maps[t][f] # None => maps[t][f] = fds[t][f]

TableInv == TableTypeOK /\ StageInv /\ NamesKept

------------------------------------------------------------------------------
(* None is no inode.                                                       *)
LEMMA NoneNoInode == None \notin Inodes
BY DEF None, Inodes

(* Names that are equal with a suffix are equal without it.                *)
LEMMA AppendCancels ==
  ASSUME NEW S, NEW s \in Seq(S), NEW r \in Seq(S), NEW e, Append(s, e) = Append(r, e)
  PROVE  s = r
<1> DEFINE T == S \cup {e}
<1>1. s \in Seq(T) /\ r \in Seq(T) /\ e \in T
  OBVIOUS
<1> HIDE DEF T
<1>2. \A x \in Seq(T) : Len(Append(x, e)) = Len(x) + 1
  BY <1>1
<1>3. \A x \in Seq(T) : \A j \in 1..Len(x) : Append(x, e)[j] = x[j]
  BY <1>1
<1>4. Len(s) = Len(r) /\ Len(s) \in Nat
  BY <1>1, <1>2
<1>5. \A j \in 1..Len(s) : s[j] = r[j]
  BY <1>1, <1>3, <1>4
<1>6. QED
  BY <1>1, <1>4, <1>5

(* No two files of the tables have one name.                               *)
LEMMA FileNamesApart ==
  ASSUME NEW t \in Tables, NEW u \in Tables, NEW f \in Files, NEW g \in Files,
         FileName(t, f) = FileName(u, g)
  PROVE  t = u /\ f = g
<1>1. NameOf[t] \in Seq(STRING) /\ NameOf[u] \in Seq(STRING)
  BY TableAssumption
<1>2. Append(NameOf[t], "_bucket") = Append(NameOf[u], "_bucket") => NameOf[t] = NameOf[u]
  BY <1>1, AppendCancels
<1>3. QED
  BY <1>2, TableAssumption DEF FileName, Files

(* A name without a file has an inode to make one with: whatever is made   *)
(* under a name and still open is open as the file of that name.           *)
LEMMA UnusedInode ==
  ASSUME TableTypeOK, NamesKept, NEW t \in Tables, NEW f \in Files,
         fds[t][f] = None, files[FileName(t, f)] = None
  PROVE  \E n \in Unused : n[1] = FileName(t, f)
<1>1. PICK g \in Generations : TRUE
  BY TableAssumption
<1>2. DEFINE n == <<FileName(t, f), g>>
<1>3. FileName(t, f) \in Names
  BY DEF Names
<1>4. n \in Inodes /\ n[1] = FileName(t, f)
  BY <1>3 DEF Inodes
<1>5. \A name \in Names : files[name] # n
  BY <1>4, NoneNoInode DEF NamesKept
<1>6. ASSUME NEW u \in Tables, NEW h \in Files PROVE fds[u][h] # n
  BY <1>4, <1>6, FileNamesApart, NoneNoInode DEF NamesKept
<1>7. ASSUME NEW u \in Tables, NEW h \in Files PROVE maps[u][h] # n
  BY <1>4, <1>6, NoneNoInode DEF NamesKept
<1>8. QED
  BY <1>4, <1>5, <1>6, <1>7 DEF Unused

(* The logs of a prefix of the partitions are as many as its length.       *)
LEMMA PrefixCounted ==
  ASSUME TableTypeOK, NEW t \in Tables, LogsPrefix(t), frame[t].pc = "destroy_logs"
  PROVE  Cardinality({j \in Parts : frame[t].log[j] # "null"}) = frame[t].i
<1>1. frame[t].i \in 0..Threads /\ Threads \in Nat \ {0}
  BY TableAssumption DEF TableTypeOK, Frames
<1>2. {j \in Parts : frame[t].log[j] # "null"} = 0..(frame[t].i - 1)
  BY <1>1 DEF LogsPrefix, Parts
<1>3. Cardinality(0..(frame[t].i - 1)) = frame[t].i
  <2>1. 0 \in Int /\ frame[t].i - 1 \in Int
    BY <1>1
  <2>2. Cardinality(0..(frame[t].i - 1)) =
          IF 0 > frame[t].i - 1 THEN 0 ELSE (frame[t].i - 1) - 0 + 1
    BY <2>1, FS_Interval, Zenon
  <2>3. QED
    BY <1>1, <2>2
<1>4. QED
  BY <1>2, <1>3, Zenon
------------------------------------------------------------------------------
(* The stages an action may go to, and the values of frames.               *)
LEMMA LabelsKnown ==
  /\ {"idle", "live", "malloc_table", "malloc_pool", "open", "mmap", "malloc_map", "zero",
      "malloc_log", "malloc_fits", "reclass", "destroy_logs", "destroy_map", "free_pool",
      "free_table"} \subseteq Labels
  /\ {"pool", "log"} \subseteq Files
BY DEF Labels, Stages, Files

LEMMA IdleFrame ==
  /\ Idle \in Frames
  /\ \A size \in Sizes : [Idle EXCEPT !.pc = "malloc_table", !.main = size.main,
                                       !.spare = size.spare] \in Frames
<1>1. [i \in Parts |-> "null"] \in Logs /\ 0 \in 0..Threads
  BY TableAssumption DEF Logs
<1>2. \A size \in Sizes : size.main \in Nat /\ size.spare \in Nat
  BY TableAssumption
<1>3. QED
  BY <1>1, <1>2, LabelsKnown DEF Idle, Frames

(* Replacing the frame of a table, or its stage, by another of its type.   *)
LEMMA FrameReplaced ==
  ASSUME TableTypeOK, NEW t \in Tables, NEW f \in Frames, Become(t, f)
  PROVE  frame' \in [Tables -> Frames]
BY DEF TableTypeOK, Become

LEMMA FrameMoved ==
  ASSUME TableTypeOK, NEW t \in Tables, NEW label \in Labels, Goto(t, label)
  PROVE  frame' \in [Tables -> Frames]
<1>1. [frame[t] EXCEPT !.pc = label] \in Frames
  BY DEF TableTypeOK, Frames
<1>2. QED
  BY <1>1, FrameReplaced DEF Goto

LEMMA FrameTurned ==
  ASSUME TableTypeOK, NEW t \in Tables, NEW label \in Labels, NEW f \in Files,
         Become(t, [frame[t] EXCEPT !.pc = label, !.file = f])
  PROVE  frame' \in [Tables -> Frames]
<1>1. [frame[t] EXCEPT !.pc = label, !.file = f] \in Frames
  BY DEF TableTypeOK, Frames
<1>2. QED
  BY <1>1, FrameReplaced

LEMMA FrameMade ==
  ASSUME TableTypeOK, NEW t \in Tables, NEW label \in Labels,
         Become(t, [frame[t] EXCEPT !.pc = label, !.log = [i \in Parts |-> "null"]])
  PROVE  frame' \in [Tables -> Frames]
<1>1. [frame[t] EXCEPT !.pc = label, !.log = [i \in Parts |-> "null"]] \in Frames
  BY DEF TableTypeOK, Frames, Logs
<1>2. QED
  BY <1>1, FrameReplaced

LEMMA FrameUndone ==
  ASSUME TableTypeOK, NEW t \in Tables, Undo(t)
  PROVE  frame' \in [Tables -> Frames]
BY FrameMoved, FrameTurned, LabelsKnown DEF Undo

LEMMA UndoneFields ==
  ASSUME TableTypeOK, NEW t \in Tables, Undo(t)
  PROVE  /\ frame'[t].log = frame[t].log /\ frame'[t].i = frame[t].i
         /\ frame'[t].file = "pool"
         /\ frame'[t].pc = IF frame[t].file = "log" THEN "destroy_map" ELSE "free_pool"
<1>1. CASE frame[t].file = "log"
  <2> DEFINE f == [frame[t] EXCEPT !.pc = "destroy_map", !.file = "pool"]
  <2>1. f.log = frame[t].log /\ f.i = frame[t].i /\ f.file = "pool" /\ f.pc = "destroy_map"
    BY DEF TableTypeOK, Frames
  <2>2. frame'[t] = f
    BY <1>1 DEF Undo, Become, TableTypeOK
  <2> HIDE DEF f
  <2>3. QED
    BY <1>1, <2>1, <2>2
<1>2. CASE frame[t].file = "pool"
  BY <1>2 DEF Undo, Goto, Become, TableTypeOK, Frames
<1>3. QED
  BY <1>1, <1>2 DEF TableTypeOK, Frames, Files

(* At first nothing is held.                                               *)
LEMMA TableInitInv == TableInit => TableInv
<1>1. SUFFICES ASSUME TableInit PROVE TableInv
  OBVIOUS
<1>2. TableTypeOK
  BY <1>1, IdleFrame DEF TableInit, TableTypeOK, NoFiles, Contents
<1>3. StageInv
  BY <1>1, TableAssumption DEF TableInit, StageInv, HeapExact, LogsPrefix, FilesHeld, Idle,
     NoFiles, Kinds, Files, Parts, MakeStages, LogStages, FileStages, Opened, Mapped
<1>4. NamesKept
  BY <1>1 DEF TableInit, NamesKept, NoFiles
<1>5. QED
  BY <1>2, <1>3, <1>4 DEF TableInv

(* Heap objects are counted.                                               *)
LEMMA KindsKnown ==
  {"kv_table", "bucket_pool", "mem_allocator", "circular_log", "segregated_fits"} \subseteq Kinds
BY DEF Kinds

LEMMA HeapMade ==
  ASSUME TableTypeOK, NEW t \in Tables, NEW kind \in Kinds, Malloc(t, kind)
  PROVE  heap' \in [Tables -> [Kinds -> Nat]]
BY DEF TableTypeOK, Malloc

LEMMA HeapFreed ==
  ASSUME TableTypeOK, NEW t \in Tables, NEW kind \in Kinds, Free(t, kind), heap[t][kind] # 0
  PROVE  heap' \in [Tables -> [Kinds -> Nat]]
<1>1. heap[t][kind] - 1 \in Nat
  BY DEF TableTypeOK
<1>2. QED
  BY <1>1 DEF TableTypeOK, Free

(* The file in hand is one; before it is opened, its descriptor is free.   *)
LEMMA HandKnown ==
  ASSUME TableTypeOK, NEW t \in Tables
  PROVE  frame[t] \in Frames /\ frame[t].file \in Files /\ frame[t].pc \in Labels
BY DEF TableTypeOK, Frames

LEMMA FileFree ==
  ASSUME TableTypeOK, NEW t \in Tables, FilesHeld(t), At(t, "open")
  PROVE  fds[t][frame[t].file] = None
BY HandKnown DEF FilesHeld, At, LogStages, MakeStages, Opened, Files

(* OpenFile opens one inode, the file of the name, and zeroes it if new.   *)
Opens(t, n) ==
  LET f == frame[t].file IN
  /\ n \in Inodes /\ n[1] = FileName(t, f)
  /\ fds' = [fds EXCEPT ![t][f] = n]
  /\ files' = [files EXCEPT ![FileName(t, f)] = n]
  /\ files[FileName(t, f)] \in {n, None}
  /\ \/ UNCHANGED disk
     \/ n \in Unused /\ disk' = [disk EXCEPT ![n] = [i \in Parts |-> "zero"]]

LEMMA OpenedInode ==
  ASSUME TableTypeOK, NamesKept, NEW t \in Tables, FilesHeld(t), OpenFile(t)
  PROVE  \E n \in Inodes : Opens(t, n)
<1> DEFINE name == FileName(t, frame[t].file)
           n == CHOOSE n \in Unused : n[1] = name
<1>1. frame[t].file \in Files /\ name \in Names
  BY HandKnown DEF Names
<1>2. CASE files[name] # None
  <2>1. files[name] \in Inodes /\ files[name][1] = name
    BY <1>1, <1>2 DEF TableTypeOK, NamesKept
  <2>2. files = [files EXCEPT ![name] = files[name]]
    BY <1>1 DEF TableTypeOK
  <2>3. fds' = [fds EXCEPT ![t][frame[t].file] = files[name]] /\ UNCHANGED <<files, disk>>
    BY <1>2 DEF OpenFile
  <2>4. QED
    BY <2>1, <2>2, <2>3 DEF Opens
<1>3. CASE files[name] = None
  <2>1. n \in Unused /\ n[1] = name
    BY <1>1, <1>3, FileFree, UnusedInode DEF OpenFile
  <2>2. n \in Inodes
    BY <2>1 DEF Unused
  <2>3. /\ fds' = [fds EXCEPT ![t][frame[t].file] = n]
        /\ files' = [files EXCEPT ![name] = n]
        /\ disk' = [disk EXCEPT ![n] = [i \in Parts |-> "zero"]]
    BY <1>3 DEF OpenFile
  <2>4. QED
    BY <1>3, <2>1, <2>2, <2>3 DEF Opens
<1>4. QED
  BY <1>2, <1>3

(* Every step keeps the types.                                             *)
LEMMA TableTypeStep ==
  ASSUME TableInv, NEW t \in Tables, TableStep(t)
  PROVE  TableTypeOK'
<1>1. TableTypeOK /\ HeapExact(t) /\ LogsPrefix(t) /\ FilesHeld(t) /\ NamesKept
  BY DEF TableInv, StageInv
<1>2. CASE CreateCall(t)
  BY <1>1, <1>2, IdleFrame, FrameReplaced DEF TableTypeOK, CreateCall
<1>3. CASE MallocTable(t)
  BY <1>1, <1>3, FrameMade, LabelsKnown, HeapMade, KindsKnown DEF TableTypeOK, MallocTable
<1>4. CASE MallocPool(t)
  BY <1>1, <1>4, FrameMoved, LabelsKnown, HeapMade, KindsKnown DEF TableTypeOK, MallocPool
<1>5. CASE MallocFails(t)
  BY <1>1, <1>5, IdleFrame, FrameReplaced, FrameMoved, LabelsKnown DEF TableTypeOK,
     MallocFails
<1>6. CASE OpenFile(t)
  <2>1. PICK n \in Inodes : Opens(t, n)
    BY <1>1, <1>6, OpenedInode
  <2>2. [i \in Parts |-> "zero"] \in Contents
    BY DEF Contents
  <2>3. frame' \in [Tables -> Frames]
    BY <1>1, <1>6, FrameMoved, LabelsKnown DEF OpenFile
  <2>4. QED
    BY <1>1, <1>6, <2>1, <2>2, <2>3 DEF TableTypeOK, OpenFile, Opens
<1>7. CASE OpenFails(t)
  BY <1>1, <1>7, FrameUndone DEF TableTypeOK, OpenFails
<1>8. CASE MapFile(t)
  BY <1>1, <1>8, FrameMoved, LabelsKnown, HandKnown DEF TableTypeOK, MapFile
<1>9. CASE MapFails(t)
  BY <1>1, <1>9, FrameUndone DEF TableTypeOK, MapFails
<1>10. CASE MallocMap(t)
  BY <1>1, <1>10, FrameMoved, LabelsKnown, HeapMade, KindsKnown DEF TableTypeOK, MallocMap
<1>11. CASE MallocMapFails(t)
  BY <1>1, <1>11, FrameUndone DEF TableTypeOK, MallocMapFails
<1>12. CASE ZeroPool(t)
  BY <1>1, <1>12, FrameTurned, LabelsKnown DEF TableTypeOK, ZeroPool, Contents
<1>13. CASE MallocLog(t)
  BY <1>1, <1>13, FrameMoved, LabelsKnown, HeapMade, KindsKnown DEF TableTypeOK, MallocLog
<1>14. CASE MallocLogFails(t)
  BY <1>1, <1>14, FrameMoved, LabelsKnown DEF TableTypeOK, MallocLogFails
<1>15. CASE MallocFits(t)
  BY <1>1, <1>15, FrameMoved, LabelsKnown, HeapMade, KindsKnown DEF TableTypeOK, MallocFits
<1>16. CASE MallocFitsFails(t)
  <2>1. heap[t]["circular_log"] # 0
    BY <1>1, <1>16 DEF MallocFitsFails, At, HeapExact, TableTypeOK, Frames
  <2>2. QED
    BY <1>1, <1>16, <2>1, FrameMoved, LabelsKnown, HeapFreed, KindsKnown DEF
       TableTypeOK, MallocFitsFails
<1>17. CASE ReclassLog(t)
  <2>1. frame[t].i \in Nat /\ frame[t].i + 1 \in 0..Threads
    BY <1>1, <1>17, TableAssumption DEF ReclassLog, At, LogsPrefix, MakeStages, TableTypeOK,
       Frames
  <2> DEFINE f == [frame[t] EXCEPT !.log = [@ EXCEPT ![frame[t].i] = "made"],
                                  !.i = frame[t].i + 1, !.pc = frame'[t].pc]
  <2>2. frame'[t].pc \in {"malloc_log", "live"} /\ Become(t, f)
    BY <1>1, <1>17 DEF TableTypeOK, ReclassLog, Become
  <2>3. f \in Frames
    <3>1. [frame[t].log EXCEPT ![frame[t].i] = "made"] \in Logs
      BY <1>1, HandKnown DEF Logs, Frames
    <3>2. QED
      BY <1>1, <2>1, <2>2, <3>1, HandKnown, LabelsKnown DEF Frames
  <2> HIDE DEF f
  <2>4. QED
    BY <1>1, <1>17, <2>2, <2>3, FrameReplaced DEF TableTypeOK, ReclassLog, Contents
<1>18. CASE UseTable(t)
  <2>1. PICK i \in Parts :
          disk' = LET pooled == [disk EXCEPT ![maps[t]["pool"]][0] = "used"]
                  IN  [pooled EXCEPT ![maps[t]["log"]][i] = "used"]
    BY <1>18 DEF UseTable
  <2>2. disk' \in [Inodes -> Contents]
    BY <1>1, <2>1 DEF TableTypeOK, Contents
  <2>3. QED
    BY <1>1, <1>18, <2>2 DEF TableTypeOK, UseTable
<1>19. CASE DestroyCall(t)
  BY <1>1, <1>19, FrameMoved, LabelsKnown DEF TableTypeOK, DestroyCall
<1>20. CASE DestroyLogs(t)
  <2>1. /\ heap[t]["circular_log"] = frame[t].i /\ heap[t]["segregated_fits"] = frame[t].i
        /\ frame[t].i \in Nat
    BY <1>1, <1>20 DEF DestroyLogs, At, HeapExact, LogStages, MakeStages, TableTypeOK,
       Frames
  <2>2. Cardinality({j \in Parts : frame[t].log[j] # "null"}) = frame[t].i
    BY <1>1, <1>20, PrefixCounted DEF DestroyLogs, At
  <2>3. heap' \in [Tables -> [Kinds -> Nat]]
    <3> DEFINE h == [heap[t] EXCEPT !["circular_log"] = @ - frame[t].i,
                                    !["segregated_fits"] = @ - frame[t].i]
    <3>1. heap' = [heap EXCEPT ![t] = h]
      BY <1>20, <2>2 DEF DestroyLogs
    <3>2. h \in [Kinds -> Nat]
      <4>1. \A kind \in Kinds : h[kind] \in {heap[t][kind], 0}
        BY <1>1, <2>1, KindsKnown DEF TableTypeOK
      <4>2. h = [kind \in Kinds |-> h[kind]]
        BY <1>1 DEF TableTypeOK
      <4> HIDE DEF h
      <4>3. QED
        BY <1>1, <4>1, <4>2 DEF TableTypeOK
    <3> HIDE DEF h
    <3>3. QED
      BY <1>1, <3>1, <3>2 DEF TableTypeOK
  <2>4. QED
    BY <1>1, <1>20, <2>3, FrameTurned, LabelsKnown DEF TableTypeOK, DestroyLogs
<1>21. CASE DestroyMap(t)
  BY <1>1, <1>21, FrameUndone DEF TableTypeOK, DestroyMap, Reclaimed, Contents
<1>22. CASE FreePool(t)
  <2>1. heap[t]["bucket_pool"] # 0
    BY <1>1, <1>22 DEF FreePool, At, HeapExact
  <2>2. QED
    BY <1>1, <1>22, <2>1, FrameMoved, LabelsKnown, HeapFreed, KindsKnown DEF
       TableTypeOK, FreePool
<1>23. CASE FreeTable(t)
  <2>1. heap[t]["kv_table"] # 0
    BY <1>1, <1>23 DEF FreeTable, At, HeapExact
  <2>2. QED
    BY <1>1, <1>23, <2>1, IdleFrame, FrameReplaced, HeapFreed, KindsKnown DEF
       TableTypeOK, FreeTable
<1>24. CASE Crash(t)
  BY <1>1, <1>24, IdleFrame, FrameReplaced DEF TableTypeOK, Crash, NoFiles
<1>25. QED
  BY <1>2, <1>3, <1>4, <1>5, <1>6, <1>7, <1>8, <1>9, <1>10, <1>11, <1>12, <1>13, <1>14,
     <1>15, <1>16, <1>17, <1>18, <1>19, <1>20, <1>21, <1>22, <1>23, <1>24 DEF TableStep,
     StageStep, UndoStep

(* A step disturbs the stage of its own table only.                        *)
LEMMA OthersStay ==
  ASSUME TableInv, NEW t \in Tables, TableStep(t), NEW u \in Tables \ {t}
  PROVE  UNCHANGED <<frame[u], heap[u], maps[u], fds[u]>>
<1> USE DEF TableInv, TableTypeOK, Goto, Become, Malloc, Free, Undo
<1>1. CASE CreateCall(t)
  BY <1>1 DEF CreateCall
<1>2. CASE MallocTable(t)
  BY <1>2 DEF MallocTable
<1>3. CASE MallocPool(t)
  BY <1>3 DEF MallocPool
<1>4. CASE MallocFails(t)
  BY <1>4 DEF MallocFails
<1>5. CASE OpenFile(t)
  BY <1>5 DEF OpenFile
<1>6. CASE OpenFails(t)
  BY <1>6 DEF OpenFails
<1>7. CASE MapFile(t)
  BY <1>7 DEF MapFile
<1>8. CASE MapFails(t)
  BY <1>8 DEF MapFails
<1>9. CASE MallocMap(t)
  BY <1>9 DEF MallocMap
<1>10. CASE MallocMapFails(t)
  BY <1>10 DEF MallocMapFails
<1>11. CASE ZeroPool(t)
  BY <1>11 DEF ZeroPool
<1>12. CASE MallocLog(t)
  BY <1>12 DEF MallocLog
<1>13. CASE MallocLogFails(t)
  BY <1>13 DEF MallocLogFails
<1>14. CASE MallocFits(t)
  BY <1>14 DEF MallocFits
<1>15. CASE MallocFitsFails(t)
  BY <1>15 DEF MallocFitsFails
<1>16. CASE ReclassLog(t)
  BY <1>16 DEF ReclassLog
<1>17. CASE UseTable(t)
  BY <1>17 DEF UseTable
<1>18. CASE DestroyCall(t)
  BY <1>18 DEF DestroyCall
<1>19. CASE DestroyLogs(t)
  BY <1>19 DEF DestroyLogs
<1>20. CASE DestroyMap(t)
  BY <1>20 DEF DestroyMap
<1>21. CASE FreePool(t)
  BY <1>21 DEF FreePool
<1>22. CASE FreeTable(t)
  BY <1>22 DEF FreeTable
<1>23. CASE Crash(t)
  BY <1>23 DEF Crash
<1>24. QED
  BY <1>1, <1>2, <1>3, <1>4, <1>5, <1>6, <1>7, <1>8, <1>9, <1>10, <1>11, <1>12, <1>13,
     <1>14, <1>15, <1>16, <1>17, <1>18, <1>19, <1>20, <1>21, <1>22, <1>23 DEF TableStep,
     StageStep, UndoStep

LEMMA StageLocal ==
  ASSUME TableInv, NEW t \in Tables, TableStep(t),
         HeapExact(t)', LogsPrefix(t)', FilesHeld(t)'
  PROVE  StageInv'
<1>1. ASSUME NEW u \in Tables \ {t} PROVE HeapExact(u)' /\ LogsPrefix(u)' /\ FilesHeld(u)'
  <2>1. UNCHANGED <<frame[u], heap[u], maps[u], fds[u]>>
    BY OthersStay
  <2>2. HeapExact(u) /\ LogsPrefix(u) /\ FilesHeld(u)
    BY DEF TableInv, StageInv
  <2>3. HeapExact(u)'
    BY <2>1, <2>2 DEF HeapExact
  <2>4. LogsPrefix(u)'
    BY <2>1, <2>2 DEF LogsPrefix
  <2>5. FilesHeld(u)'
    BY <2>1, <2>2 DEF FilesHeld
  <2>6. QED
    BY <2>3, <2>4, <2>5
<1>2. QED
  BY <1>1 DEF StageInv

(* What the stage of the table says of it is so after the step as well.     *)
LEMMA StageOwn ==
  ASSUME TableInv, NEW t \in Tables, TableStep(t)
  PROVE  HeapExact(t)' /\ LogsPrefix(t)' /\ FilesHeld(t)'
<1> USE DEF At, Become, Goto, MakeStages, LogStages, FileStages, Opened, Mapped
<1>1. /\ TableTypeOK /\ HeapExact(t) /\ LogsPrefix(t) /\ FilesHeld(t)
      /\ frame \in [Tables -> Frames] /\ heap \in [Tables -> [Kinds -> Nat]]
      /\ maps \in [Tables -> [Files -> Inodes \cup {None}]]
      /\ fds \in [Tables -> [Files -> Inodes \cup {None}]]
  BY DEF TableInv, StageInv, TableTypeOK
<1>2. CASE CreateCall(t)
  <2>1. HeapExact(t)'
    BY <1>1, <1>2 DEF HeapExact, Frames, Kinds, CreateCall, Idle
  <2>2. LogsPrefix(t)'
    BY <1>1, <1>2, TableAssumption DEF LogsPrefix, Frames, Parts, CreateCall, Idle
  <2>3. FilesHeld(t)'
    BY <1>1, <1>2 DEF FilesHeld, Frames, Files, CreateCall, Idle
  <2>4. QED
    BY <2>1, <2>2, <2>3
<1>3. CASE MallocTable(t)
  <2>1. HeapExact(t)'
    BY <1>1, <1>3 DEF HeapExact, Frames, Kinds, MallocTable, Malloc
  <2>2. LogsPrefix(t)'
    BY <1>1, <1>3, TableAssumption DEF LogsPrefix, Frames, Parts, MallocTable, Malloc
  <2>3. FilesHeld(t)'
    BY <1>1, <1>3 DEF FilesHeld, Frames, Files, MallocTable, Malloc
  <2>4. QED
    BY <2>1, <2>2, <2>3
<1>4. CASE MallocPool(t)
  <2>1. HeapExact(t)'
    BY <1>1, <1>4 DEF HeapExact, Frames, Kinds, MallocPool, Malloc
  <2>2. LogsPrefix(t)'
    BY <1>1, <1>4 DEF LogsPrefix, Frames, MallocPool, Malloc
  <2>3. FilesHeld(t)'
    BY <1>1, <1>4 DEF FilesHeld, Frames, Files, MallocPool, Malloc
  <2>4. QED
    BY <2>1, <2>2, <2>3
<1>5. CASE MallocFails(t)
  <2>1. HeapExact(t)'
    BY <1>1, <1>5 DEF HeapExact, Frames, Kinds, MallocFails, Idle
  <2>2. LogsPrefix(t)'
    BY <1>1, <1>5, TableAssumption DEF LogsPrefix, Frames, Parts, MallocFails, Idle
  <2>3. FilesHeld(t)'
    BY <1>1, <1>5 DEF FilesHeld, Frames, Files, MallocFails, Idle
  <2>4. QED
    BY <2>1, <2>2, <2>3
<1>6. CASE OpenFile(t)
  <2>1. HeapExact(t)'
    BY <1>1, <1>6 DEF HeapExact, Frames, Kinds, OpenFile
  <2>2. LogsPrefix(t)'
    BY <1>1, <1>6 DEF LogsPrefix, Frames, OpenFile
  <2>3. FilesHeld(t)'
    <3>1. fds'[t][frame[t].file] # None
      <4>1. PICK n \in Inodes : Opens(t, n)
        BY <1>1, <1>6, OpenedInode DEF TableInv
      <4>2. QED
        BY <1>1, <4>1, NoneNoInode, HandKnown DEF TableInv, Opens
    <3>2. \A f \in Files \ {frame[t].file} : fds'[t][f] = fds[t][f]
      BY <1>1, <1>6 DEF OpenFile
    <3>3. QED
      BY <1>1, <1>6, <3>1, <3>2 DEF FilesHeld, Frames, Files, OpenFile
  <2>4. QED
    BY <2>1, <2>2, <2>3
<1>7. CASE OpenFails(t)
  <2>1. /\ frame'[t].log = frame[t].log /\ frame'[t].i = frame[t].i
        /\ frame'[t].file = "pool"
        /\ frame'[t].pc = IF frame[t].file = "log" THEN "destroy_map" ELSE "free_pool"
        /\ frame[t].file \in Files
    BY <1>1, <1>7, UndoneFields, HandKnown DEF OpenFails
  <2>2. HeapExact(t)'
    BY <1>1, <1>7, <2>1 DEF HeapExact, FilesHeld, Files, OpenFails
  <2>3. LogsPrefix(t)'
    BY <1>1, <1>7, <2>1 DEF LogsPrefix, FilesHeld, Files, OpenFails
  <2>4. FilesHeld(t)'
    BY <1>1, <1>7, <2>1 DEF FilesHeld, Files, OpenFails
  <2>5. QED
    BY <2>2, <2>3, <2>4
<1>8. CASE MapFile(t)
  <2>1. HeapExact(t)'
    BY <1>1, <1>8 DEF HeapExact, Frames, Kinds, MapFile
  <2>2. LogsPrefix(t)'
    BY <1>1, <1>8 DEF LogsPrefix, Frames, MapFile
  <2>3. FilesHeld(t)'
    BY <1>1, <1>8 DEF FilesHeld, Frames, Files, MapFile
  <2>4. QED
    BY <2>1, <2>2, <2>3
<1>9. CASE MapFails(t)
  <2>1. /\ frame'[t].log = frame[t].log /\ frame'[t].i = frame[t].i
        /\ frame'[t].file = "pool"
        /\ frame'[t].pc = IF frame[t].file = "log" THEN "destroy_map" ELSE "free_pool"
        /\ frame[t].file \in Files
    BY <1>1, <1>9, UndoneFields, HandKnown DEF MapFails
  <2>2. HeapExact(t)'
    BY <1>1, <1>9, <2>1 DEF HeapExact, FilesHeld, Files, MapFails
  <2>3. LogsPrefix(t)'
    BY <1>1, <1>9, <2>1 DEF LogsPrefix, FilesHeld, Files, MapFails
  <2>4. FilesHeld(t)'
    BY <1>1, <1>9, <2>1 DEF FilesHeld, Files, MapFails
  <2>5. QED
    BY <2>2, <2>3, <2>4
<1>10. CASE MallocMap(t)
  <2>1. /\ frame'[t].log = frame[t].log /\ frame'[t].i = frame[t].i
        /\ frame'[t].file = frame[t].file
        /\ frame'[t].pc = IF frame[t].file = "pool" THEN "zero" ELSE "malloc_log"
    BY <1>1, <1>10 DEF MallocMap, Frames
  <2>2. \A kind \in Kinds \ {"mem_allocator"} : heap'[t][kind] = heap[t][kind]
    BY <1>1, <1>10 DEF MallocMap, Malloc
  <2>3. HeapExact(t)'
    <3>1. frame[t].pc = "malloc_map" /\ frame[t].i = 0
      BY <1>1, <1>10 DEF LogsPrefix, MallocMap
    <3>2. /\ heap[t]["kv_table"] = 1 /\ heap[t]["bucket_pool"] = 1
          /\ heap[t]["circular_log"] = 0 /\ heap[t]["segregated_fits"] = 0
      BY <1>1, <3>1 DEF HeapExact
    <3>3. QED
      BY <2>1, <2>2, <3>1, <3>2 DEF HeapExact, Kinds
  <2>4. LogsPrefix(t)'
    BY <1>1, <1>10, <2>1, TableAssumption DEF LogsPrefix, MallocMap
  <2>5. FilesHeld(t)'
    BY <1>1, <1>10, <2>1, HandKnown DEF FilesHeld, Files, MallocMap
  <2>6. QED
    BY <2>3, <2>4, <2>5
<1>11. CASE MallocMapFails(t)
  <2>1. /\ frame'[t].log = frame[t].log /\ frame'[t].i = frame[t].i
        /\ frame'[t].file = "pool"
        /\ frame'[t].pc = IF frame[t].file = "log" THEN "destroy_map" ELSE "free_pool"
        /\ frame[t].file \in Files
    BY <1>1, <1>11, UndoneFields, HandKnown DEF MallocMapFails
  <2>2. HeapExact(t)'
    BY <1>1, <1>11, <2>1 DEF HeapExact, FilesHeld, Files, MallocMapFails
  <2>3. LogsPrefix(t)'
    BY <1>1, <1>11, <2>1 DEF LogsPrefix, FilesHeld, Files, MallocMapFails
  <2>4. FilesHeld(t)'
    BY <1>1, <1>11, <2>1 DEF FilesHeld, Files, MallocMapFails
  <2>5. QED
    BY <2>2, <2>3, <2>4
<1>12. CASE ZeroPool(t)
  <2>1. HeapExact(t)'
    BY <1>1, <1>12 DEF HeapExact, Frames, Kinds, ZeroPool
  <2>2. LogsPrefix(t)'
    BY <1>1, <1>12 DEF LogsPrefix, Frames, ZeroPool
  <2>3. FilesHeld(t)'
    BY <1>1, <1>12 DEF FilesHeld, Frames, Files, ZeroPool
  <2>4. QED
    BY <2>1, <2>2, <2>3
<1>13. CASE MallocLog(t)
  <2>1. HeapExact(t)'
    BY <1>1, <1>13 DEF HeapExact, Frames, Kinds, MallocLog, Malloc
  <2>2. LogsPrefix(t)'
    BY <1>1, <1>13 DEF LogsPrefix, Frames, MallocLog, Malloc
  <2>3. FilesHeld(t)'
    BY <1>1, <1>13 DEF FilesHeld, Frames, Files, MallocLog, Malloc
  <2>4. QED
    BY <2>1, <2>2, <2>3
<1>14. CASE MallocLogFails(t)
  <2>1. HeapExact(t)'
    BY <1>1, <1>14 DEF HeapExact, Frames, Kinds, MallocLogFails
  <2>2. LogsPrefix(t)'
    BY <1>1, <1>14 DEF LogsPrefix, Frames, MallocLogFails
  <2>3. FilesHeld(t)'
    BY <1>1, <1>14 DEF FilesHeld, Frames, Files, MallocLogFails
  <2>4. QED
    BY <2>1, <2>2, <2>3
<1>15. CASE MallocFits(t)
  <2>1. HeapExact(t)'
    BY <1>1, <1>15 DEF HeapExact, Frames, Kinds, MallocFits, Malloc
  <2>2. LogsPrefix(t)'
    BY <1>1, <1>15 DEF LogsPrefix, Frames, MallocFits, Malloc
  <2>3. FilesHeld(t)'
    BY <1>1, <1>15 DEF FilesHeld, Frames, Files, MallocFits, Malloc
  <2>4. QED
    BY <2>1, <2>2, <2>3
<1>16. CASE MallocFitsFails(t)
  <2>1. HeapExact(t)'
    BY <1>1, <1>16 DEF HeapExact, Frames, Kinds, MallocFitsFails, Free
  <2>2. LogsPrefix(t)'
    BY <1>1, <1>16 DEF LogsPrefix, Frames, MallocFitsFails, Free
  <2>3. FilesHeld(t)'
    BY <1>1, <1>16 DEF FilesHeld, Frames, Files, MallocFitsFails, Free
  <2>4. QED
    BY <2>1, <2>2, <2>3
<1>17. CASE ReclassLog(t)
  <2>1. HeapExact(t)'
    BY <1>1, <1>17 DEF HeapExact, Frames, Kinds, ReclassLog
  <2>2. LogsPrefix(t)'
    BY <1>1, <1>17, TableAssumption DEF LogsPrefix, Frames, Logs, Parts, ReclassLog
  <2>3. FilesHeld(t)'
    BY <1>1, <1>17 DEF FilesHeld, Frames, Files, ReclassLog
  <2>4. QED
    BY <2>1, <2>2, <2>3
<1>18. CASE UseTable(t)
  <2>1. HeapExact(t)'
    BY <1>1, <1>18 DEF HeapExact, Frames, Kinds, UseTable
  <2>2. LogsPrefix(t)'
    BY <1>1, <1>18 DEF LogsPrefix, Frames, UseTable
  <2>3. FilesHeld(t)'
    BY <1>1, <1>18 DEF FilesHeld, Frames, Files, UseTable
  <2>4. QED
    BY <2>1, <2>2, <2>3
<1>19. CASE DestroyCall(t)
  <2>1. HeapExact(t)'
    BY <1>1, <1>19 DEF HeapExact, Frames, Kinds, DestroyCall
  <2>2. LogsPrefix(t)'
    BY <1>1, <1>19 DEF LogsPrefix, Frames, DestroyCall
  <2>3. FilesHeld(t)'
    BY <1>1, <1>19 DEF FilesHeld, Frames, Files, DestroyCall
  <2>4. QED
    BY <2>1, <2>2, <2>3
<1>20. CASE DestroyLogs(t)
  <2>1. HeapExact(t)'
    <3>1. Cardinality({j \in Parts : frame[t].log[j] # "null"}) = frame[t].i
      BY <1>1, <1>20, PrefixCounted DEF TableInv, DestroyLogs
    <3>2. /\ heap' = [heap EXCEPT ![t] = [heap[t] EXCEPT !["circular_log"] = @ - frame[t].i,
                                                         !["segregated_fits"] = @ - frame[t].i]]
          /\ frame' = [frame EXCEPT ![t] = [frame[t] EXCEPT !.pc = "destroy_map", !.file = "log"]]
          /\ frame[t].pc = "destroy_logs"
      BY <1>20, <3>1 DEF DestroyLogs
    <3>3. QED
      BY <1>1, <3>2 DEF HeapExact, Frames, Kinds
  <2>2. LogsPrefix(t)'
    BY <1>1, <1>20 DEF LogsPrefix, Frames, DestroyLogs
  <2>3. FilesHeld(t)'
    BY <1>1, <1>20 DEF FilesHeld, Frames, Files, DestroyLogs
  <2>4. QED
    BY <2>1, <2>2, <2>3
<1>21. CASE DestroyMap(t)
  <2>1. /\ frame'[t].log = frame[t].log /\ frame'[t].i = frame[t].i
        /\ frame'[t].file = "pool"
        /\ frame'[t].pc = IF frame[t].file = "log" THEN "destroy_map" ELSE "free_pool"
        /\ frame[t].file \in Files
    BY <1>1, <1>21, UndoneFields, HandKnown DEF DestroyMap
  <2>2. HeapExact(t)'
    BY <1>1, <1>21, <2>1 DEF HeapExact, FilesHeld, Files, DestroyMap
  <2>3. LogsPrefix(t)'
    BY <1>1, <1>21, <2>1 DEF LogsPrefix, FilesHeld, Files, DestroyMap
  <2>4. FilesHeld(t)'
    BY <1>1, <1>21, <2>1 DEF FilesHeld, Files, DestroyMap
  <2>5. QED
    BY <2>2, <2>3, <2>4
<1>22. CASE FreePool(t)
  <2>1. HeapExact(t)'
    BY <1>1, <1>22 DEF HeapExact, Frames, Kinds, FreePool, Free
  <2>2. LogsPrefix(t)'
    BY <1>1, <1>22 DEF LogsPrefix, Frames, FreePool, Free
  <2>3. FilesHeld(t)'
    BY <1>1, <1>22 DEF FilesHeld, Frames, Files, FreePool, Free
  <2>4. QED
    BY <2>1, <2>2, <2>3
<1>23. CASE FreeTable(t)
  <2>1. HeapExact(t)'
    BY <1>1, <1>23 DEF HeapExact, Frames, Kinds, FreeTable, Free, Idle
  <2>2. LogsPrefix(t)'
    BY <1>1, <1>23, TableAssumption DEF LogsPrefix, Frames, Parts, FreeTable, Free, Idle
  <2>3. FilesHeld(t)'
    BY <1>1, <1>23 DEF FilesHeld, Frames, Files, FreeTable, Free, Idle
  <2>4. QED
    BY <2>1, <2>2, <2>3
<1>24. CASE Crash(t)
  <2>1. HeapExact(t)'
    BY <1>1, <1>24 DEF HeapExact, Frames, Kinds, Crash, Idle, NoFiles
  <2>2. LogsPrefix(t)'
    BY <1>1, <1>24, TableAssumption DEF LogsPrefix, Frames, Parts, Crash, Idle, NoFiles
  <2>3. FilesHeld(t)'
    BY <1>1, <1>24 DEF FilesHeld, Frames, Files, Crash, Idle, NoFiles
  <2>4. QED
    BY <2>1, <2>2, <2>3
<1>25. QED
  BY <1>2, <1>3, <1>4, <1>5, <1>6, <1>7, <1>8, <1>9, <1>10, <1>11, <1>12, <1>13, <1>14,
     <1>15, <1>16, <1>17, <1>18, <1>19, <1>20, <1>21, <1>22, <1>23, <1>24 DEF TableStep,
     StageStep, UndoStep

(* Inodes stay under the names they were made under.                     *)
LEMMA NamesStep ==
  ASSUME TableInv, NEW t \in Tables, TableStep(t)
  PROVE  NamesKept'
<1>1. /\ TableTypeOK /\ NamesKept /\ FilesHeld(t)
      /\ frame[t].file \in Files /\ FileName(t, frame[t].file) \in Names
  BY HandKnown DEF TableInv, StageInv, Names
<1>2. CASE OpenFile(t)
  <2>1. PICK n \in Inodes : Opens(t, n)
    BY <1>1, <1>2, OpenedInode
  <2>2. maps[t][frame[t].file] = None /\ UNCHANGED maps
    BY <1>1, <1>2 DEF OpenFile, At, FilesHeld, LogStages, MakeStages, Mapped, Files
  <2>3. \A name \in Names : files'[name] # None => files'[name][1] = name
    BY <1>1, <2>1 DEF TableTypeOK, NamesKept, Opens
  <2>4. \A u \in Tables, f \in Files : fds'[u][f] # None => fds'[u][f][1] = FileName(u, f)
    BY <1>1, <2>1 DEF TableTypeOK, NamesKept, Opens
  <2>5. \A u \in Tables, f \in Files : maps'[u][f] # None => maps'[u][f] = fds'[u][f]
    BY <1>1, <2>1, <2>2 DEF TableTypeOK, NamesKept, Opens
  <2>6. QED
    BY <2>3, <2>4, <2>5 DEF NamesKept
<1>3. CASE MapFile(t)
  BY <1>1, <1>3 DEF TableTypeOK, NamesKept, MapFile
<1>4. CASE MapFails(t)
  <2>1. maps[t][frame[t].file] = None
    BY <1>1, <1>4 DEF MapFails, At, FilesHeld, LogStages, MakeStages, Mapped, Files
  <2>2. QED
    BY <1>1, <1>4, <2>1 DEF TableTypeOK, NamesKept, MapFails
<1>5. CASE MallocMapFails(t)
  BY <1>1, <1>5 DEF TableTypeOK, NamesKept, MallocMapFails
<1>6. CASE DestroyMap(t)
  BY <1>1, <1>6 DEF TableTypeOK, NamesKept, DestroyMap
<1>7. CASE Crash(t)
  BY <1>1, <1>7 DEF TableTypeOK, NamesKept, Crash, NoFiles
<1>8. CASE UNCHANGED <<maps, fds, files>>
  BY <1>1, <1>8 DEF NamesKept
<1>9. QED
  BY <1>2, <1>3, <1>4, <1>5, <1>6, <1>7, <1>8
     DEF TableStep, StageStep, UndoStep, CreateCall, MallocTable, MallocPool, MallocFails,
         OpenFails, MallocMap, ZeroPool, MallocLog, MallocLogFails, MallocFits,
         MallocFitsFails, ReclassLog, UseTable, DestroyCall, DestroyLogs, FreePool, FreeTable

(* The invariant is inductive.                                             *)
LEMMA TableStepInv == TableInv /\ [TableNext]_tableVars => TableInv'
<1>1. SUFFICES ASSUME TableInv, [TableNext]_tableVars PROVE TableInv'
  OBVIOUS
<1>2. CASE UNCHANGED tableVars
  BY <1>1, <1>2 DEF tableVars, TableInv, TableTypeOK, StageInv, HeapExact, LogsPrefix,
     FilesHeld, NamesKept
<1>3. CASE TableNext
  <2>1. PICK t \in Tables : TableStep(t)
    BY <1>3 DEF TableNext
  <2>2. TableTypeOK' /\ StageInv' /\ NamesKept'
    BY <1>1, <2>1, TableTypeStep, StageOwn, StageLocal, NamesStep
  <2>3. QED
    BY <2>2 DEF TableInv
<1>4. QED
  BY <1>1, <1>2, <1>3

------------------------------------------------------------------------------
(* The strengthened invariant of tables: the stage of a process tells what *)
(* it has allocated, opened and mapped, and every inode is in use under    *)
(* the name that it was made under only.                                   *)
THEOREM TableInvariant == TableSpec => []TableInv
BY TableInitInv, TableStepInv, PTL DEF TableSpec

(* Every variable keeps its type; as heap objects are counted in Nat, none *)
(* is freed that is not there (destroy_kv_table, error0 to error3).        *)
THEOREM TableTypeCorrect == TableSpec => []TableTypeOK
<1>1. TableInv => TableTypeOK
  BY DEF TableInv
<1>2. QED
  BY <1>1, TableInvariant, PTL

(* However many partitions a table has and whichever stage of its creation *)
(* fails, the process is left with no file, mapping or heap object of it   *)
(* but the structs that destroy_mem_allocator forgets.                     *)
THEOREM NothingLeftHeld == TableSpec => []NothingHeld
<1>1. TableInv => NothingHeld
  <2>1. SUFFICES ASSUME TableInv, NEW t \in Tables, At(t, "idle")
                 PROVE  /\ maps[t] = NoFiles /\ fds[t] = NoFiles
                        /\ \A kind \in Kinds \ {"mem_allocator"} : heap[t][kind] = 0
    BY DEF NothingHeld
  <2>2. TableTypeOK /\ HeapExact(t) /\ LogsPrefix(t) /\ FilesHeld(t) /\ frame[t].pc = "idle"
    BY <2>1 DEF TableInv, StageInv, At
  <2>3. maps[t] = NoFiles /\ fds[t] = NoFiles
    BY <2>2 DEF FilesHeld, TableTypeOK, NoFiles, Files, LogStages, MakeStages, FileStages,
       Opened, Mapped
  <2>4. \A kind \in Kinds \ {"mem_allocator"} : heap[t][kind] = 0
    BY <2>2 DEF HeapExact, Kinds, LogStages, MakeStages
  <2>5. QED
    BY <2>3, <2>4
<1>2. QED
  BY <1>1, TableInvariant, PTL

(* Whatever files crashes and failed creations leave behind, no two        *)
(* mappings of any tables are of one file, as long as the names that       *)
(* callers choose are apart, "_bucket" included.                           *)
THEOREM FilesStayApart == TableSpec => []FilesApart
<1>1. TableInv => FilesApart
  <2>1. SUFFICES ASSUME TableInv, NEW t \in Tables, NEW u \in Tables, NEW f \in Files,
                        NEW g \in Files, maps[t][f] # None, maps[t][f] = maps[u][g]
                 PROVE  t = u /\ f = g
    BY DEF FilesApart
  <2>2. maps[t][f][1] = FileName(t, f) /\ maps[u][g][1] = FileName(u, g)
    BY <2>1 DEF TableInv, NamesKept
  <2>3. QED
    BY <2>1, <2>2, FileNamesApart
<1>2. QED
  BY <1>1, TableInvariant, PTL

------------------------------------------------------------------------------
(* What is in the files of a table, by its stage.                            *)
MakingLog(t) ==
  \/ frame[t].file = "log" /\ frame[t].pc \in FileStages \ {"destroy_map"}
  \/ frame[t].pc \in MakeStages

IsFresh(t) == Pool(t) = "zero" /\ \A j \in Parts : Part(t, j) = "tagged"

IsUsed(t) == Pool(t) = "used" /\ \A j \in Parts : Part(t, j) # "zero"

FilledBy(t) ==
  /\ MakingLog(t) => Pool(t) = "zero"
  /\ frame[t].pc \in MakeStages =>
       \A j \in Parts : j < frame[t].i => Part(t, j) = "tagged"
  /\ frame[t].pc = "live" => IsFresh(t) \/ IsUsed(t)

ContentInv == TableInv /\ \A t \in Tables : FilledBy(t)

(* A step touches no file that another table has mapped: it writes to a    *)
(* mapping of its own, or makes a file of an inode that nobody uses.       *)
LEMMA OthersContents ==
  ASSUME TableInv, NEW t \in Tables, TableStep(t), NEW u \in Tables \ {t}, NEW g \in Files,
         maps[u][g] # None
  PROVE  disk'[maps[u][g]] = disk[maps[u][g]]
<1>1. TableTypeOK /\ NamesKept /\ FilesHeld(t) /\ maps[u][g] \in Inodes
  BY DEF TableInv, StageInv, TableTypeOK
<1>2. \A f \in Files : maps[t][f] # maps[u][g]
  BY <1>1, FileNamesApart DEF NamesKept
<1>3. CASE OpenFile(t)
  <2>1. PICK n \in Inodes : Opens(t, n)
    BY <1>1, <1>3, OpenedInode
  <2>2. n \in Unused => n # maps[u][g]
    BY DEF Unused
  <2>3. QED
    BY <1>1, <2>1, <2>2 DEF Opens, TableTypeOK
<1>4. CASE DestroyMap(t)
  <2>1. frame[t].file \in Files
    BY <1>1, HandKnown
  <2>2. QED
    BY <1>1, <1>2, <1>4, <2>1 DEF DestroyMap, Reclaimed, TableTypeOK
<1>5. CASE ZeroPool(t)
  BY <1>1, <1>2, <1>5 DEF ZeroPool, TableTypeOK, Files
<1>6. CASE ReclassLog(t)
  BY <1>1, <1>2, <1>6 DEF ReclassLog, TableTypeOK, Files
<1>7. CASE UseTable(t)
  BY <1>1, <1>2, <1>7 DEF UseTable, TableTypeOK, Files
<1>8. CASE UNCHANGED disk
  BY <1>8
<1>9. QED
  BY <1>3, <1>4, <1>5, <1>6, <1>7, <1>8
     DEF TableStep, StageStep, UndoStep, CreateCall, MallocTable, MallocPool, MallocFails,
         OpenFails, MapFile, MapFails, MallocMap, MallocMapFails, MallocLog, MallocLogFails,
         MallocFits, MallocFitsFails, DestroyCall, DestroyLogs, FreePool, FreeTable, Crash

(* Hence another table is what it was.                                     *)
LEMMA OthersFilled ==
  ASSUME TableInv, NEW t \in Tables, TableStep(t), NEW u \in Tables \ {t}
  PROVE  /\ FilledBy(u) => FilledBy(u)'
         /\ frame[u].pc = "live" => (IsFresh(u)' <=> IsFresh(u)) /\ (IsUsed(u)' <=> IsUsed(u))
<1>1. UNCHANGED <<frame[u], maps[u]>>
  BY OthersStay
<1>2. FilesHeld(u)
  BY DEF TableInv, StageInv
<1>3. maps[u]["pool"] # None => Pool(u)' = Pool(u)
  BY <1>1, OthersContents DEF Pool, Files
<1>4. maps[u]["log"] # None => \A j \in Parts : Part(u, j)' = Part(u, j)
  BY <1>1, OthersContents DEF Part, Files
<1>5. (MakingLog(u) \/ frame[u].pc = "live") => maps[u]["pool"] # None
  BY <1>2 DEF FilesHeld, MakingLog, LogStages
<1>6. (frame[u].pc \in MakeStages \/ frame[u].pc = "live") => maps[u]["log"] # None
  BY <1>2 DEF FilesHeld, LogStages
<1>7. MakingLog(u)' <=> MakingLog(u)
  BY <1>1 DEF MakingLog
<1>8. frame[u].pc = "live" => (IsFresh(u)' <=> IsFresh(u)) /\ (IsUsed(u)' <=> IsUsed(u))
  BY <1>3, <1>4, <1>5, <1>6 DEF IsFresh, IsUsed
<1>9. QED
  BY <1>1, <1>3, <1>4, <1>5, <1>6, <1>7, <1>8 DEF FilledBy

(* Pool and log of a table are two files.                                  *)
LEMMA TwoMappings ==
  ASSUME TableInv, NEW t \in Tables, frame[t].pc \in LogStages
  PROVE  /\ maps[t]["pool"] \in Inodes /\ maps[t]["log"] \in Inodes
         /\ maps[t]["pool"] # maps[t]["log"]
<1>1. TableTypeOK /\ NamesKept /\ FilesHeld(t) /\ {"pool", "log"} \subseteq Files
  BY DEF TableInv, StageInv, Files
<1>2. maps[t]["pool"] \in Inodes /\ maps[t]["log"] \in Inodes
  BY <1>1 DEF FilesHeld, TableTypeOK
<1>3. maps[t]["pool"][1] = FileName(t, "pool") /\ maps[t]["log"][1] = FileName(t, "log")
  BY <1>1, <1>2, NoneNoInode DEF NamesKept
<1>4. QED
  BY <1>1, <1>2, <1>3, FileNamesApart

(* The reclassing of the last partition makes a fresh table.               *)
LEMMA ReclassFills ==
  ASSUME TableInv, NEW t \in Tables, FilledBy(t), ReclassLog(t)
  PROVE  /\ Pool(t)' = "zero"
         /\ \A j \in Parts : j < frame'[t].i => Part(t, j)' = "tagged"
         /\ frame'[t].pc = "live" => IsFresh(t)'
<1> USE DEF At, Become, MakeStages
<1>1. /\ TableTypeOK /\ LogsPrefix(t) /\ frame \in [Tables -> Frames]
  BY DEF TableInv, StageInv, TableTypeOK
<1>2. 0 \in Parts /\ Threads \in Nat
  BY TableAssumption DEF Parts
<1> DEFINE i == frame[t].i
<1>3. /\ frame'[t].i = i + 1 /\ frame'[t].file = frame[t].file
      /\ frame'[t].pc = IF i + 1 < Threads THEN "malloc_log" ELSE "live"
      /\ frame[t].pc = "reclass" /\ UNCHANGED maps
      /\ disk' = [disk EXCEPT ![maps[t]["log"]][i] = "tagged"]
  BY <1>1 DEF ReclassLog, Frames
<1>4. i \in Nat /\ i \in Parts
  BY <1>1, <1>2, <1>3 DEF LogsPrefix, Frames, Parts
<1>5. /\ maps[t]["pool"] \in Inodes /\ maps[t]["log"] \in Inodes
      /\ maps[t]["pool"] # maps[t]["log"]
  BY <1>1, <1>3, TwoMappings DEF LogStages, TableInv
<1>6. Pool(t)' = Pool(t) /\ Pool(t) = "zero"
  BY <1>1, <1>3, <1>5 DEF Pool, FilledBy, MakingLog, TableTypeOK
<1>7. \A j \in Parts : Part(t, j)' = IF j = i THEN "tagged" ELSE Part(t, j)
  BY <1>1, <1>3, <1>4, <1>5 DEF Part, TableTypeOK, Contents
<1>8. \A j \in Parts : j < i + 1 => Part(t, j)' = "tagged"
  <2>1. \A j \in Parts : j < i + 1 => j = i \/ j < i
    BY <1>2, <1>4 DEF Parts
  <2>2. QED
    BY <1>3, <1>7, <2>1 DEF FilledBy
<1>9. i + 1 < Threads \/ \A j \in Parts : j < i + 1
  BY <1>2, <1>4 DEF Parts
<1> HIDE DEF i
<1>10. QED
  BY <1>3, <1>6, <1>8, <1>9 DEF FilledBy, IsFresh

(* A put makes a used one.                                                 *)
LEMMA UseFills ==
  ASSUME TableInv, NEW t \in Tables, FilledBy(t), UseTable(t)
  PROVE  IsUsed(t)'
<1> USE DEF At
<1>1. TableTypeOK
  BY DEF TableInv
<1>2. 0 \in Parts
  BY TableAssumption DEF Parts
<1>3. PICK i \in Parts :
        disk' = LET pooled == [disk EXCEPT ![maps[t]["pool"]][0] = "used"]
                IN  [pooled EXCEPT ![maps[t]["log"]][i] = "used"]
  BY DEF UseTable
<1>4. frame[t].pc = "live" /\ UNCHANGED <<frame, maps>>
  BY DEF UseTable
<1>5. /\ maps[t]["pool"] \in Inodes /\ maps[t]["log"] \in Inodes
      /\ maps[t]["pool"] # maps[t]["log"]
  BY <1>1, <1>4, TwoMappings DEF LogStages, TableInv
<1>6. Pool(t)' = "used"
  BY <1>1, <1>2, <1>3, <1>4, <1>5 DEF Pool, TableTypeOK, Contents
<1>7. \A j \in Parts : Part(t, j)' = IF j = i THEN "used" ELSE Part(t, j)
  BY <1>1, <1>3, <1>4, <1>5 DEF Part, TableTypeOK, Contents
<1>8. \A j \in Parts : Part(t, j) # "zero"
  BY <1>4 DEF FilledBy, IsFresh, IsUsed
<1>9. QED
  BY <1>6, <1>7, <1>8 DEF IsUsed

(* The files of the table itself are filled stage by stage.                *)
LEMMA OwnFilled ==
  ASSUME TableInv, NEW t \in Tables, FilledBy(t), TableStep(t)
  PROVE  FilledBy(t)'
<1> USE DEF At, Become, Goto, MakeStages, FileStages
<1>1. /\ TableTypeOK /\ NamesKept /\ FilesHeld(t) /\ LogsPrefix(t)
      /\ frame \in [Tables -> Frames] /\ frame[t].file \in Files
  BY HandKnown DEF TableInv, StageInv, TableTypeOK
<1>2. 0 \in Parts /\ Threads \in Nat
  BY TableAssumption DEF Parts
<1>3. CASE CreateCall(t)
  BY <1>1, <1>3 DEF FilledBy, MakingLog, IsFresh, IsUsed, Pool, Part, Frames,
     CreateCall, Idle
<1>4. CASE MallocTable(t)
  BY <1>1, <1>4 DEF FilledBy, MakingLog, IsFresh, IsUsed, Pool, Part, Frames, MallocTable
<1>5. CASE MallocPool(t)
  <2>1. frame[t].file = "pool"
    BY <1>1, <1>5 DEF FilesHeld, LogStages, MallocPool
  <2>2. QED
    BY <1>1, <1>5, <2>1 DEF FilledBy, MakingLog, Frames, MallocPool
<1>6. CASE MallocFails(t)
  BY <1>1, <1>6 DEF FilledBy, MakingLog, IsFresh, IsUsed, Pool, Part, Frames,
     MallocFails, Idle
<1>7. CASE OpenFile(t)
  <2>1. PICK n \in Inodes : Opens(t, n)
    BY <1>1, <1>7, OpenedInode
  <2>2. frame'[t].file = frame[t].file /\ frame'[t].pc = "mmap" /\ UNCHANGED maps
    BY <1>1, <1>7 DEF OpenFile, Frames
  <2>3. CASE frame[t].file = "log"
    <3>1. maps[t]["pool"] \in Inodes /\ maps[t]["pool"] \notin Unused
      BY <1>1, <2>3 DEF FilesHeld, TableTypeOK, Files, Unused
    <3>2. Pool(t)' = Pool(t)
      BY <1>1, <2>1, <2>2, <3>1 DEF Opens, Pool, TableTypeOK
    <3>3. MakingLog(t)
      BY <1>7, <2>3 DEF OpenFile, MakingLog
    <3>4. QED
      BY <2>2, <3>2, <3>3 DEF FilledBy
  <2>4. CASE frame[t].file # "log"
    BY <2>2, <2>4 DEF FilledBy, MakingLog
  <2>5. QED
    BY <2>3, <2>4
<1>8. CASE OpenFails(t)
  BY <1>1, <1>8, UndoneFields DEF FilledBy, MakingLog, OpenFails
<1>9. CASE MapFile(t)
  BY <1>1, <1>9 DEF FilledBy, MakingLog, IsFresh, IsUsed, Pool, Part, Frames, MapFile
<1>10. CASE MapFails(t)
  BY <1>1, <1>10, UndoneFields DEF FilledBy, MakingLog, MapFails
<1>11. CASE MallocMap(t)
  <2>1. /\ frame'[t].file = frame[t].file /\ frame'[t].i = frame[t].i
        /\ frame'[t].pc = IF frame[t].file = "pool" THEN "zero" ELSE "malloc_log"
        /\ frame[t].pc = "malloc_map" /\ UNCHANGED <<maps, disk>>
    BY <1>1, <1>11 DEF MallocMap, Frames
  <2>2. frame[t].i = 0
    BY <1>1, <2>1 DEF LogsPrefix
  <2>3. \A j \in Parts : ~(j < 0)
    BY <1>2 DEF Parts
  <2>4. MakingLog(t)' => Pool(t)' = "zero"
    BY <1>1, <2>1 DEF FilledBy, MakingLog, Pool, Files
  <2>5. QED
    BY <2>1, <2>2, <2>3, <2>4 DEF FilledBy
<1>12. CASE MallocMapFails(t)
  BY <1>1, <1>12, UndoneFields DEF FilledBy, MakingLog, MallocMapFails
<1>13. CASE ZeroPool(t)
  <2>1. /\ disk' = [disk EXCEPT ![maps[t]["pool"]] = [i \in Parts |-> "zero"]]
        /\ frame'[t].pc = "open" /\ UNCHANGED maps
    BY <1>1, <1>13 DEF ZeroPool, Frames
  <2>2. maps[t]["pool"] \in Inodes
    BY <1>1, <1>13 DEF ZeroPool, FilesHeld, TableTypeOK, Files
  <2>3. Pool(t)' = "zero"
    BY <1>1, <1>2, <2>1, <2>2 DEF Pool, TableTypeOK
  <2>4. QED
    BY <2>1, <2>3 DEF FilledBy
<1>14. CASE MallocLog(t)
  BY <1>1, <1>14 DEF FilledBy, MakingLog, IsFresh, IsUsed, Pool, Part, Frames, MallocLog
<1>15. CASE MallocLogFails(t)
  BY <1>1, <1>15 DEF FilledBy, MakingLog, IsFresh, IsUsed, Pool, Part, Frames,
     MallocLogFails
<1>16. CASE MallocFits(t)
  BY <1>1, <1>16 DEF FilledBy, MakingLog, IsFresh, IsUsed, Pool, Part, Frames, MallocFits
<1>17. CASE MallocFitsFails(t)
  BY <1>1, <1>17 DEF FilledBy, MakingLog, IsFresh, IsUsed, Pool, Part, Frames,
     MallocFitsFails
<1>18. CASE ReclassLog(t)
  <2>1. frame'[t].pc \in {"malloc_log", "live"}
    BY <1>1, <1>18 DEF ReclassLog, Frames
  <2>2. QED
    BY <1>18, <2>1, ReclassFills DEF FilledBy
<1>19. CASE UseTable(t)
  <2>1. frame[t].pc = "live" /\ UNCHANGED frame
    BY <1>19 DEF UseTable
  <2>2. QED
    BY <1>19, <2>1, UseFills DEF FilledBy, MakingLog
<1>20. CASE DestroyCall(t)
  BY <1>1, <1>20 DEF FilledBy, MakingLog, IsFresh, IsUsed, Pool, Part, Frames, DestroyCall
<1>21. CASE DestroyLogs(t)
  BY <1>1, <1>21 DEF FilledBy, MakingLog, IsFresh, IsUsed, Pool, Part, Frames, DestroyLogs
<1>22. CASE DestroyMap(t)
  BY <1>1, <1>22, UndoneFields DEF FilledBy, MakingLog, DestroyMap
<1>23. CASE FreePool(t)
  BY <1>1, <1>23 DEF FilledBy, MakingLog, IsFresh, IsUsed, Pool, Part, Frames, FreePool
<1>24. CASE FreeTable(t)
  BY <1>1, <1>24 DEF FilledBy, MakingLog, IsFresh, IsUsed, Pool, Part, Frames,
     FreeTable, Idle
<1>25. CASE Crash(t)
  BY <1>1, <1>25 DEF FilledBy, MakingLog, IsFresh, IsUsed, Pool, Part, Frames, Crash, Idle
<1>26. QED
  BY <1>3, <1>4, <1>5, <1>6, <1>7, <1>8, <1>9, <1>10, <1>11, <1>12, <1>13, <1>14, <1>15,
     <1>16, <1>17, <1>18, <1>19, <1>20, <1>21, <1>22, <1>23, <1>24, <1>25 DEF TableStep,
     StageStep, UndoStep

(* The contents of files keep with the stages.                             *)
LEMMA ContentInit == TableInit => ContentInv
<1>1. SUFFICES ASSUME TableInit PROVE ContentInv
  OBVIOUS
<1>2. ASSUME NEW t \in Tables PROVE FilledBy(t)
  BY <1>1 DEF TableInit, FilledBy, MakingLog, FileStages, MakeStages, Idle
<1>3. QED
  BY <1>1, <1>2, TableInitInv DEF ContentInv

LEMMA ContentStep == ContentInv /\ [TableNext]_tableVars => ContentInv'
<1>1. SUFFICES ASSUME ContentInv, [TableNext]_tableVars PROVE ContentInv'
  OBVIOUS
<1>2. TableInv'
  BY <1>1, TableStepInv DEF ContentInv
<1>3. CASE UNCHANGED tableVars
  BY <1>1, <1>2, <1>3 DEF tableVars, ContentInv, FilledBy, MakingLog, IsFresh, IsUsed,
     Pool, Part
<1>4. CASE TableNext
  <2>1. PICK t \in Tables : TableStep(t)
    BY <1>4 DEF TableNext
  <2>2. ASSUME NEW u \in Tables PROVE FilledBy(u)'
    BY <1>1, <2>1, <2>2, OthersFilled, OwnFilled DEF ContentInv
  <2>3. QED
    BY <1>2, <2>2 DEF ContentInv
<1>5. QED
  BY <1>1, <1>3, <1>4

(* A table comes to live by the end of its creation only.                  *)
LEMMA LiveBy ==
  ASSUME TableInv, NEW t \in Tables, TableStep(t), frame'[t].pc = "live"
  PROVE  ReclassLog(t) \/ UseTable(t)
<1> USE DEF Become, Goto
<1>1. TableTypeOK /\ frame[t] \in Frames /\ frame \in [Tables -> Frames]
  BY HandKnown DEF TableInv, TableTypeOK
<1>2. ~CreateCall(t) /\ ~MallocTable(t) /\ ~MallocPool(t) /\ ~MallocFails(t)
  <2>1. ~CreateCall(t)
    BY <1>1 DEF CreateCall, Idle
  <2>2. ~MallocTable(t) /\ ~MallocPool(t)
    BY <1>1 DEF MallocTable, MallocPool, Frames
  <2>3. ~MallocFails(t)
    BY <1>1 DEF MallocFails, Idle, Frames
  <2>4. QED
    BY <2>1, <2>2, <2>3
<1>3. ~OpenFile(t) /\ ~MapFile(t)
  BY <1>1 DEF OpenFile, MapFile, Frames
<1>4. ~OpenFails(t) /\ ~MapFails(t) /\ ~MallocMapFails(t) /\ ~DestroyMap(t)
  BY <1>1, UndoneFields DEF OpenFails, MapFails, MallocMapFails, DestroyMap
<1>5. ~MallocMap(t)
  BY <1>1 DEF MallocMap, Frames
<1>6. ~ZeroPool(t) /\ ~MallocLog(t) /\ ~MallocLogFails(t)
  BY <1>1 DEF ZeroPool, MallocLog, MallocLogFails, Frames
<1>7. ~MallocFits(t) /\ ~MallocFitsFails(t)
  BY <1>1 DEF MallocFits, MallocFitsFails, Frames
<1>8. ~DestroyCall(t) /\ ~DestroyLogs(t) /\ ~FreePool(t) /\ ~FreeTable(t) /\ ~Crash(t)
  <2>1. ~DestroyCall(t) /\ ~DestroyLogs(t)
    BY <1>1 DEF DestroyCall, DestroyLogs, Frames
  <2>2. ~FreePool(t)
    BY <1>1 DEF FreePool, Frames
  <2>3. ~FreeTable(t) /\ ~Crash(t)
    BY <1>1 DEF FreeTable, Crash, Idle
  <2>4. QED
    BY <2>1, <2>2, <2>3
<1>9. QED
  BY <1>2, <1>3, <1>4, <1>5, <1>6, <1>7, <1>8 DEF TableStep, StageStep, UndoStep

(* The store of a table, by its invariant.                                 *)
LEMMA StoreOf ==
  ASSUME ContentInv, NEW t \in Tables
  PROVE  /\ frame[t].pc # "live" => Store[t] = "absent"
         /\ frame[t].pc = "live" => Store[t] = IF IsFresh(t) THEN "fresh" ELSE "used"
         /\ IsUsed(t) => ~IsFresh(t)
<1>1. FilledBy(t)
  BY DEF ContentInv
<1>2. QED
  BY <1>1 DEF Store, FilledBy, IsFresh, IsUsed, At

LEMMA StoreNext ==
  ASSUME ContentInv', NEW t \in Tables
  PROVE  /\ frame'[t].pc # "live" => Store'[t] = "absent"
         /\ frame'[t].pc = "live" => Store'[t] = IF IsFresh(t)' THEN "fresh" ELSE "used"
         /\ IsUsed(t)' => ~IsFresh(t)'
<1>1. FilledBy(t)'
  BY DEF ContentInv
<1>2. QED
  BY <1>1 DEF Store, FilledBy, IsFresh, IsUsed, At

(* Every step of the tables is one that a caller expects, or none.         *)
LEMMA LifeStep ==
  ASSUME ContentInv, ContentInv', [TableNext]_tableVars
  PROVE  [Life!Next]_Store
<1>1. CASE UNCHANGED tableVars
  BY <1>1 DEF tableVars, Store, At, Pool, Part
<1>2. CASE TableNext
  <2>1. PICK t \in Tables : TableStep(t)
    BY <1>2 DEF TableNext
  <2>2. TableInv /\ FilledBy(t)
    BY <2>1 DEF ContentInv
  <2>3. Store = [u \in Tables |-> Store[u]] /\ Store' = [u \in Tables |-> Store'[u]]
    BY DEF Store
  <2>4. \A u \in Tables \ {t} : Store'[u] = Store[u]
    <3>1. ASSUME NEW u \in Tables \ {t} PROVE Store'[u] = Store[u]
      <4>1. frame'[u] = frame[u]
        BY <2>1, <2>2, OthersStay
      <4>2. frame[u].pc = "live" => (IsFresh(u)' <=> IsFresh(u))
        BY <2>1, <2>2, OthersFilled
      <4>3. /\ frame[u].pc # "live" => Store[u] = "absent"
            /\ frame[u].pc = "live" => Store[u] = IF IsFresh(u) THEN "fresh" ELSE "used"
        BY StoreOf
      <4>4. /\ frame'[u].pc # "live" => Store'[u] = "absent"
            /\ frame'[u].pc = "live" => Store'[u] = IF IsFresh(u)' THEN "fresh" ELSE "used"
        BY StoreNext
      <4>5. QED
        BY <4>1, <4>2, <4>3, <4>4
    <3>2. QED
      BY <3>1
  <2>5. /\ frame[t].pc # "live" => Store[t] = "absent"
        /\ frame[t].pc = "live" => Store[t] \in {"fresh", "used"}
    BY StoreOf
  <2>6. /\ frame'[t].pc # "live" => Store'[t] = "absent"
        /\ frame'[t].pc = "live" => Store'[t] = IF IsFresh(t)' THEN "fresh" ELSE "used"
        /\ IsUsed(t)' => ~IsFresh(t)'
    BY StoreNext
  <2>7. CASE frame'[t].pc # "live"
    BY <2>1, <2>3, <2>4, <2>5, <2>6, <2>7 DEF Life!Next, Life!Lose
  <2>8. CASE ReclassLog(t) /\ frame'[t].pc = "live"
    <3>1. frame[t].pc # "live" /\ IsFresh(t)'
      BY <2>2, <2>8, ReclassFills DEF ReclassLog, At
    <3>2. Store[t] = "absent" /\ Store'[t] = "fresh"
      BY <2>5, <2>6, <2>8, <3>1
    <3>3. Life!Create(t)
      BY <2>3, <2>4, <3>2 DEF Life!Create
    <3>4. QED
      BY <3>3 DEF Life!Next
  <2>9. CASE UseTable(t) /\ frame'[t].pc = "live"
    <3>1. frame[t].pc = "live" /\ IsUsed(t)'
      BY <2>2, <2>9, UseFills DEF UseTable, At
    <3>2. Store[t] # "absent" /\ Store'[t] = "used"
      BY <2>5, <2>6, <2>9, <3>1
    <3>3. Life!Use(t)
      BY <2>3, <2>4, <3>2 DEF Life!Use
    <3>4. QED
      BY <3>3 DEF Life!Next
  <2>10. QED
    BY <2>1, <2>2, <2>7, <2>8, <2>9, LiveBy
<1>3. QED
  BY <1>1, <1>2

(* Tables are independent of each other and always begin empty: TableSpec  *)
(* implements TableLife, with any number of tables, partitions, crashes    *)
(* and failed creations, and whatever their files held before.             *)
THEOREM TablesLive == TableSpec => TableImplemented
<1>1. TableInit => Life!Init
  BY DEF TableInit, Life!Init, Store, At, Idle
<1>2. TableSpec => []ContentInv
  BY ContentInit, ContentStep, PTL DEF TableSpec
<1>3. ContentInv /\ ContentInv' /\ [TableNext]_tableVars => [Life!Next]_Store
  BY LifeStep
<1>4. QED
  BY <1>1, <1>2, <1>3, PTL DEF TableSpec, TableImplemented, Life!Spec
==============================================================================
