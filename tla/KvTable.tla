------------------------------- MODULE KvTable -------------------------------
(***************************************************************************)
(* The life of key-value tables: create_kv_table with every stage that can *)
(* fail and its unwinding, destroy_kv_table, and the death of a process at *)
(* any step, which leaves the files of shm.c for the next creation.        *)
(*                                                                         *)
(* A table is created, used and destroyed by a process of its own; tables  *)
(* meet in the file system only.  A step is one call that can fail or that *)
(* touches a file; heap objects are counted by kind.                       *)
(***************************************************************************)
EXTENDS Integers, Sequences, FiniteSets

CONSTANTS
  Tables,
  NameOf,       \* [Tables -> Seq(STRING)]: "file"; Append stands for a suffix
  Threads,      \* nthread: partitions of a table
  Sizes,        \* the [main, spare] sizes that callers ask for
  BucketBytes,  \* sizeof(bucket), 128
  SizeSpan,     \* 2^32, the range of BUCKET_MEM_SIZE
  PageBytes,    \* size of a huge page
  Hashes, TagSpan, BucketSpan, RssSpan,  \* KeyHash
  Generations,  \* bound: files made under one name that exist at a time
  LeakCap       \* bound: creations start only below so many leaked allocators

None == <<>>

Kinds == {"kv_table", "bucket_pool", "mem_allocator", "circular_log", "segregated_fits"}
Files == {"pool", "log"}
Parts == 0..(Threads - 1)

(* Fault: the pool's file has the name of the table.                       *)
FileNameBare(t, f) == NameOf[t]

(* "%s_bucket" names the pool's file.                                      *)
FileName(t, f) == IF f = "pool" THEN Append(NameOf[t], "_bucket") ELSE NameOf[t]

Names == {FileName(t, f) : t \in Tables, f \in Files}

Inodes == Names \X Generations

(* Callers keep the names of tables apart, suffix included, and ask for    *)
(* whole pages ("mem_size must be multiples of 2MiB"), so that munmap does *)
(* not refuse them.                                                        *)
ASSUME TableAssumption ==
  /\ Threads \in Nat \ {0} /\ Sizes \subseteq [main : Nat \ {0}, spare : Nat]
  /\ BucketBytes \in Nat \ {0} /\ SizeSpan \in Nat \ {0} /\ PageBytes \in Nat \ {0}
  /\ \A size \in Sizes : ((size.main + size.spare) * BucketBytes) % PageBytes = 0
  /\ LeakCap \in Nat /\ Generations # {} /\ NameOf \in [Tables -> Seq(STRING)]
  /\ \A t, u \in Tables : NameOf[t] # Append(NameOf[u], "_bucket")
  /\ \A t, u \in Tables : NameOf[t] = NameOf[u] => t = u

(* The portions of a hash take at least one value each (KeyHash).          *)
ASSUME WidthAssumption ==
  /\ Hashes \subseteq Nat /\ TagSpan \in Nat \ {0} /\ BucketSpan \in Nat \ {0}

VARIABLES
  frame,  \* where a table's process is, the file in hand, the sizes, table->log
  heap,   \* how many heap objects of each kind the process has
  maps,   \* the file mapped for pool and log
  fds,    \* the file open for pool and log
  files,  \* the inode a name leads to, in the huge page file system
  disk    \* what is in the parts of a file

tableVars == <<frame, heap, maps, fds, files, disk>>

Idle == [pc |-> "idle", file |-> "pool", main |-> 0, spare |-> 0,
         log |-> [i \in Parts |-> "null"], i |-> 0]

NoFiles == [f \in Files |-> None]

At(t, pc) == frame[t].pc = pc

Become(t, f) == frame' = [frame EXCEPT ![t] = f]

Goto(t, pc) == Become(t, [frame[t] EXCEPT !.pc = pc])

Malloc(t, kind) == heap' = [heap EXCEPT ![t][kind] = @ + 1]

Free(t, kind) == heap' = [heap EXCEPT ![t][kind] = @ - 1]

Hash(main) == INSTANCE KeyHash WITH MainSize <- main

------------------------------------------------------------------------------
(* The bytes the pool's mapping gets, computed in 32 bits: fewer than its  *)
(* buckets take, once their bytes wrap around.                             *)
PoolBytes(t) == ((frame[t].main + frame[t].spare) * BucketBytes) % SizeSpan

CreateCall(t) ==
  /\ At(t, "idle") /\ heap[t]["mem_allocator"] < LeakCap
  /\ \E size \in Sizes :
       Become(t, [Idle EXCEPT !.pc = "malloc_table", !.main = size.main,
                              !.spare = size.spare])
  /\ UNCHANGED <<heap, maps, fds, files, disk>>

(* Fault: the table is not zeroed.                                         *)
MallocTableDirty(t) ==
  /\ At(t, "malloc_table")
  /\ Malloc(t, "kv_table")
  /\ Become(t, [frame[t] EXCEPT !.pc = "malloc_pool", !.log = [i \in Parts |-> "junk"]])
  /\ UNCHANGED <<maps, fds, files, disk>>

MallocTable(t) ==
  /\ At(t, "malloc_table")
  /\ Malloc(t, "kv_table")
  /\ Become(t, [frame[t] EXCEPT !.pc = "malloc_pool", !.log = [i \in Parts |-> "null"]])
  /\ UNCHANGED <<maps, fds, files, disk>>

MallocPool(t) ==
  /\ At(t, "malloc_pool")
  /\ Malloc(t, "bucket_pool")
  /\ Goto(t, "open")
  /\ UNCHANGED <<maps, fds, files, disk>>

MallocFails(t) ==
  /\ \/ At(t, "malloc_table") /\ Become(t, Idle)
     \/ At(t, "malloc_pool") /\ Goto(t, "free_table")
  /\ UNCHANGED <<heap, maps, fds, files, disk>>

------------------------------------------------------------------------------
(* create_mem_allocator_with_addr, first for the pool and then for the log *)

(* Where its caller goes on after it has failed, and after it is undone.   *)
Undo(t) ==
  IF frame[t].file = "log"
  THEN Become(t, [frame[t] EXCEPT !.pc = "destroy_map", !.file = "pool"])
  ELSE Goto(t, "free_pool")

Unused == {n \in Inodes :
             /\ \A name \in Names : files[name] # n
             /\ \A t \in Tables, f \in Files : maps[t][f] # n /\ fds[t][f] # n}

(* O_CREAT without O_EXCL or O_TRUNC: a file that is there is taken as it  *)
(* is, a new one is zero.                                                  *)
OpenFile(t) ==
  LET f    == frame[t].file
      name == FileName(t, f)
      new  == CHOOSE n \in Unused : n[1] = name
  IN  /\ At(t, "open")
      /\ IF files[name] # None
         THEN fds' = [fds EXCEPT ![t][f] = files[name]] /\ UNCHANGED <<files, disk>>
         ELSE /\ fds' = [fds EXCEPT ![t][f] = new]
              /\ files' = [files EXCEPT ![name] = new]
              /\ disk' = [disk EXCEPT ![new] = [i \in Parts |-> "zero"]]
      /\ Goto(t, "mmap")
      /\ UNCHANGED <<heap, maps>>

OpenFails(t) ==
  /\ At(t, "open")
  /\ Undo(t)
  /\ UNCHANGED <<heap, maps, fds, files, disk>>

(* A mapping of no bytes is refused.                                       *)
MapFile(t) ==
  LET f == frame[t].file IN
  /\ At(t, "mmap") /\ (f = "pool" => PoolBytes(t) > 0)
  /\ maps' = [maps EXCEPT ![t][f] = fds[t][f]]
  /\ Goto(t, "malloc_map")
  /\ UNCHANGED <<heap, fds, files, disk>>

(* error1: what is unlinked is the name the caller gave, which is not the  *)
(* file's path, so the file stays.                                         *)
MapFails(t) ==
  /\ At(t, "mmap")
  /\ fds' = [fds EXCEPT ![t][frame[t].file] = None]
  /\ Undo(t)
  /\ UNCHANGED <<heap, maps, files, disk>>

MallocMap(t) ==
  /\ At(t, "malloc_map")
  /\ Malloc(t, "mem_allocator")
  /\ Goto(t, IF frame[t].file = "pool" THEN "zero" ELSE "malloc_log")
  /\ UNCHANGED <<maps, fds, files, disk>>

(* error2: the mapping goes, the file stays as after error1.               *)
MallocMapFails(t) ==
  LET f == frame[t].file IN
  /\ At(t, "malloc_map")
  /\ maps' = [maps EXCEPT ![t][f] = None]
  /\ fds' = [fds EXCEPT ![t][f] = None]
  /\ Undo(t)
  /\ UNCHANGED <<heap, files, disk>>

(* The last name, mapping and descriptor of a file take its content along. *)
Reclaimed(t, f) ==
  IF \E u \in Tables, g \in Files : <<u, g>> # <<t, f>> /\ maps[u][g] = maps[t][f]
  THEN disk ELSE [disk EXCEPT ![maps[t][f]] = [i \in Parts |-> "zero"]]

(* destroy_mem_allocator, which does not free the allocator itself.        *)
DestroyMap(t) ==
  LET f == frame[t].file IN
  /\ At(t, "destroy_map")
  /\ maps' = [maps EXCEPT ![t][f] = None]
  /\ fds' = [fds EXCEPT ![t][f] = None]
  /\ files' = [files EXCEPT ![FileName(t, f)] = None]
  /\ disk' = Reclaimed(t, f)
  /\ Undo(t)
  /\ UNCHANGED heap

------------------------------------------------------------------------------
(* The rest of create_bucket_pool and of create_kv_table                   *)

(* Fault: the pool is not zeroed.                                          *)
ZeroPoolNot(t) ==
  /\ At(t, "zero")
  /\ Become(t, [frame[t] EXCEPT !.pc = "open", !.file = "log"])
  /\ UNCHANGED <<heap, maps, fds, files, disk>>

ZeroPool(t) ==
  /\ At(t, "zero")
  /\ disk' = [disk EXCEPT ![maps[t]["pool"]] = [i \in Parts |-> "zero"]]
  /\ Become(t, [frame[t] EXCEPT !.pc = "open", !.file = "log"])
  /\ UNCHANGED <<heap, maps, fds, files>>

MallocLog(t) ==
  /\ At(t, "malloc_log")
  /\ Malloc(t, "circular_log")
  /\ Goto(t, "malloc_fits")
  /\ UNCHANGED <<maps, fds, files, disk>>

MallocLogFails(t) ==
  /\ At(t, "malloc_log")
  /\ Goto(t, "destroy_logs")
  /\ UNCHANGED <<heap, maps, fds, files, disk>>

MallocFits(t) ==
  /\ At(t, "malloc_fits")
  /\ Malloc(t, "segregated_fits")
  /\ Goto(t, "reclass")
  /\ UNCHANGED <<maps, fds, files, disk>>

(* Fault: the log is not freed.                                            *)
MallocFitsFailsLeaking(t) ==
  /\ At(t, "malloc_fits")
  /\ Goto(t, "destroy_logs")
  /\ UNCHANGED <<heap, maps, fds, files, disk>>

MallocFitsFails(t) ==
  /\ At(t, "malloc_fits")
  /\ Free(t, "circular_log")
  /\ Goto(t, "destroy_logs")
  /\ UNCHANGED <<maps, fds, files, disk>>

(* The loop over segregated_fits_reclassing (SegFits has its steps) writes *)
(* new boundary tags all over partition i.                                 *)
ReclassLog(t) ==
  LET i == frame[t].i IN
  /\ At(t, "reclass")
  /\ disk' = [disk EXCEPT ![maps[t]["log"]][i] = "tagged"]
  /\ Become(t, [frame[t] EXCEPT !.log = [@ EXCEPT ![i] = "made"], !.i = i + 1,
                  !.pc = IF i + 1 < Threads THEN "malloc_log" ELSE "live"])
  /\ UNCHANGED <<heap, maps, fds, files>>

(* A put: an index entry in a main bucket, an entry in a partition.  (An   *)
(* access outside the mapping ends the process: Crash.)                    *)
UseTable(t) ==
  /\ At(t, "live")
  /\ \E h \in Hashes, i \in Parts :
       /\ (Hash(frame[t].main)!get_entry_bucket(h) + 1) * BucketBytes <= PoolBytes(t)
       /\ disk' = LET pooled == [disk EXCEPT ![maps[t]["pool"]][0] = "used"]
                  IN  [pooled EXCEPT ![maps[t]["log"]][i] = "used"]
  /\ UNCHANGED <<frame, heap, maps, fds, files>>

------------------------------------------------------------------------------
(* destroy_kv_table, and the unwinding of create_kv_table from error3 on,  *)
(* which is the same.                                                      *)

DestroyCall(t) ==
  /\ At(t, "live")
  /\ Goto(t, "destroy_logs")
  /\ UNCHANGED <<heap, maps, fds, files, disk>>

DestroyLogs(t) ==
  LET made == Cardinality({i \in Parts : frame[t].log[i] # "null"}) IN
  /\ At(t, "destroy_logs")
  /\ heap' = [heap EXCEPT ![t] = [heap[t] EXCEPT !["circular_log"] = @ - made,
                                                  !["segregated_fits"] = @ - made]]
  /\ Become(t, [frame[t] EXCEPT !.pc = "destroy_map", !.file = "log"])
  /\ UNCHANGED <<maps, fds, files, disk>>

FreePool(t) ==
  /\ At(t, "free_pool")
  /\ Free(t, "bucket_pool")
  /\ Goto(t, "free_table")
  /\ UNCHANGED <<maps, fds, files, disk>>

FreeTable(t) ==
  /\ At(t, "free_table")
  /\ Free(t, "kv_table")
  /\ Become(t, Idle)
  /\ UNCHANGED <<maps, fds, files, disk>>

(* The process ends, at any step; the next one may create the table again. *)
Crash(t) ==
  /\ Become(t, Idle)
  /\ heap' = [heap EXCEPT ![t] = [kind \in Kinds |-> 0]]
  /\ maps' = [maps EXCEPT ![t] = NoFiles]
  /\ fds' = [fds EXCEPT ![t] = NoFiles]
  /\ UNCHANGED <<files, disk>>

------------------------------------------------------------------------------
TableInit ==
  /\ frame = [t \in Tables |-> Idle]
  /\ heap = [t \in Tables |-> [kind \in Kinds |-> 0]]
  /\ maps = [t \in Tables |-> NoFiles] /\ fds = [t \in Tables |-> NoFiles]
  /\ files = [name \in Names |-> None]
  /\ disk = [n \in Inodes |-> [i \in Parts |-> "zero"]]

StageStep(t) ==
  \/ MallocTable(t) \/ MallocPool(t) \/ MallocFails(t)
  \/ OpenFile(t) \/ OpenFails(t) \/ MapFile(t) \/ MapFails(t)
  \/ MallocMap(t) \/ MallocMapFails(t) \/ ZeroPool(t)
  \/ MallocLog(t) \/ MallocLogFails(t) \/ MallocFits(t) \/ MallocFitsFails(t)
  \/ ReclassLog(t)

UndoStep(t) == DestroyLogs(t) \/ DestroyMap(t) \/ FreePool(t) \/ FreeTable(t)

TableStep(t) ==
  CreateCall(t) \/ StageStep(t) \/ UseTable(t) \/ DestroyCall(t) \/ UndoStep(t) \/ Crash(t)

TableNext == \E t \in Tables : TableStep(t)

TableSpec == TableInit /\ [][TableNext]_tableVars

------------------------------------------------------------------------------
Stages ==
  {"malloc_table", "malloc_pool", "open", "mmap", "malloc_map", "zero", "malloc_log",
   "malloc_fits", "reclass", "destroy_logs", "destroy_map", "free_pool", "free_table"}

Labels == Stages \cup {"idle", "live"}

Logs == [Parts -> {"null", "junk", "made"}]

Contents == [Parts -> {"zero", "tagged", "used"}]

Frames == [pc : Labels, file : Files, main : Nat, spare : Nat, log : Logs, i : 0..Threads]

(* Every variable has its type; in particular no object is freed twice.    *)
TableTypeOK ==
  /\ frame \in [Tables -> Frames]
  /\ heap \in [Tables -> [Kinds -> Nat]]
  /\ maps \in [Tables -> [Files -> Inodes \cup {None}]]
  /\ fds \in [Tables -> [Files -> Inodes \cup {None}]]
  /\ files \in [Names -> Inodes \cup {None}]
  /\ disk \in [Inodes -> Contents]

(* Whichever stage fails, the process is left with nothing of the table    *)
(* but allocator structs, as after a destroy: the labels error0 to error3  *)
(* undo just what was done.                                                *)
NothingHeld ==
  \A t \in Tables : At(t, "idle") =>
    /\ maps[t] = NoFiles /\ fds[t] = NoFiles
    /\ \A kind \in Kinds \ {"mem_allocator"} : heap[t][kind] = 0

(* No two mappings are of one file: what is written through one is not     *)
(* seen through another, whatever crashes and failed stages leave behind.  *)
FilesApart ==
  \A t, u \in Tables, f, g \in Files :
    maps[t][f] # None /\ maps[t][f] = maps[u][g] => t = u /\ f = g

------------------------------------------------------------------------------
Pool(t) == disk[maps[t]["pool"]][0]
Part(t, i) == disk[maps[t]["log"]][i]

Store ==
  [t \in Tables |->
    IF ~At(t, "live") THEN "absent"
    ELSE IF Pool(t) = "zero" /\ \A i \in Parts : Part(t, i) = "tagged" THEN "fresh"
    ELSE IF Pool(t) = "used" /\ \A i \in Parts : Part(t, i) # "zero" THEN "used"
    ELSE "broken"]

Life == INSTANCE TableLife WITH store <- Store

(* Tables are independent of each other, and a new one is empty even if it *)
(* is made over the files of one that crashed.                             *)
TableImplemented == Life!Spec
==============================================================================
