# fkv: a verification development

fkv is a key-value store in C kept in shared memory (`src/`).  This directory
holds TLA+ models of it, the TLC runs that check them on small instances, and
TLAPS proofs.  Every definition that models code is translated from the source;
`PROJECT.json` ("map") gives the lines.

## 1. Inventory

| component | source | state | operations |
|---|---|---|---|
| Key hash portions | `bucket.h`, `circular_log.h` | none | tag, bucket and queue portion of a 64-bit hash; `get_entry_bucket` |
| Bucket pool | `bucket.c`, `bucket.h` | `main_size` main and `spare_size` spare buckets of 15 entries, each with a `version` and a link `offset` | `create_bucket_pool`, `search_index_entry`, `insert_index_entry`, `delete_index_entry`, `next_empty_spare_bucket`, `next_spare_bucket` |
| Circular log | `circular_log.c`, `circular_log.h` | one log a partition: base address, allocator, pool; the entries themselves | `put_`, `get_`, `remove_circular_log_entry`; `OPTIMISTIC_LOCK`, `OPTIMISTIC_UNLOCK` |
| Segregated-fits allocator | `mem_manager.c`, `mem_manager.h` | boundary tags at both ends of every block, one free list a size class | create with reclassing, `get_segregated_fits_block`, `free_segregated_fits_block`, divide, merge forward and backward |
| Key-value table | `circular_log.c:208-262` | the pool, the mapping, one log a thread | staged creation with unwinding, destruction |
| Shared-memory mapping | `shm.c`, `shm.h` | a file and a mapping | create, destroy |
| CityHash | `city.c`, `city.h`, `citycrc.h` | none | third-party hash |
| Utilities | `util.h`, `common.h` | none | random data for the tests, find-last-set |
| Test programs | `test_*.c` | none | clients of the above |

How they interact.  A caller sets `keyhash` in an entry.  Its top 16 bits choose
the partition (and so the thread that writes the key), its middle 32 bits a main
bucket, its low 16 bits the tag of the index entry.  `put` locks the bucket by
making its version odd, searches the bucket's chain for entries with the tag,
compares the keys in the log, unindexes and frees the old entry, takes a block
from the partition's allocator, fills it, indexes it (claiming a spare bucket by
compare-and-swap when the chain is full) and unlocks.  `get` takes no lock: it
reads the version, searches, copies the entry over the caller's and starts again
if the version has changed.  All threads share the pool and may read every log;
a log's allocator is touched by one thread only.

What is hard here:

* Concurrency without locks: spare buckets are claimed and chained while others
  walk the chains, an index entry is published by two stores into one word, and a
  reader races with a writer that frees and refills the block it copies.
* The optimistic lock itself, a macro around a compare-and-swap.
* Partial failure inside `put`: no block, or no index entry, after the old entry
  is gone.
* Searches that resume "from where we left" after a tag collision.
* Boundary tags: merging and splitting to the limits of a class and a partition.
* Staged creation and its unwinding.

The hazards are listed, each at its line, in `PROJECT.json`.  What makes each
component correct:

* pool: chains never share a spare; no spare is lost; a full pool is the only
  reason to fail; each main bucket is a bag of entries; every walk ends;
* log: the version is odd during an update; an index entry leads to a complete
  block that is in use and no key has two; no block is lost; the whole is a map; a
  get returns an entry of its key as it was at one instant; every operation ends;
* allocator: blocks tile the partition, their tags agree, a free block is in
  exactly the list of its class, blocks handed out never overlap;
* table: a creation that fails undoes what its stages did, tables share nothing, and
  a new table is empty, whatever a dead process left in the files.

## 2. Plan

1. `KeyHash`, `Bucket`, `IndexSpec`: the pool with its callers, one shared-memory
   access a step; refinement of atomic bags.  *Done.*
2. `CircularLog` (extends `Bucket`), `KvMap`: put, get, remove, the lock;
   refinement of a map.  *Done.*
3. `BucketProofs`: the pool's invariants for every number of threads and buckets,
   without a lock, and `NoSpareLost` for threads on main buckets of their own.  *Done.*
4. `SegFits`, `Allocator`: the allocator, one turn of a loop a step, over boundary
   tags as words; refinement of disjoint extents.  *Done.*
5. `KvTable`, `TableLife`: the stages of creation in three functions, their failures
   and unwinding, destruction, crash and re-creation over leftover files; refinement of
   independent tables.  *Done.*
6. `TableProofs`: what a process holds at each stage, and the refinement of `TableLife`,
   for every number of tables and partitions.  *Done.*
7. `SegFitsTiling`, `SegFitsProofs`: the allocator, with the set of blocks as a witness,
   and its refinement of `Allocator`.  *Done.*
8. `LogProofs`: types and control of put, get and remove.  `WriterProofs`: for writers on
   buckets of their own `EntriesSound`, `BlocksAccounted`, `PutIsIndexed`.
   `ReaderProofs`: `EvenWindowGets`, for readers of such buckets, and the refinement of
   `KvMap`, for threads that keep to them.  *Done.*
9. What is left to prove: the refinement of `IndexSpec`.

## 3. Modules

| module | what it is |
|---|---|
| `KeyHash` | the portions of a hash, `get_entry_bucket`; the widths are constants |
| `Bucket` | the pool and the three index operations |
| `IndexSpec` | abstract: a bag of (tag, offset) pairs a main bucket, atomic operations |
| `CircularLog` | put, get, remove over `Bucket`, with the lock |
| `KvMap` | abstract: a map from keys to values |
| `SegFits` | the allocator of a partition, down to its boundary tags |
| `KvTable` | creation, destruction and death of tables, with their files and mappings |
| `TableLife` | abstract: independent tables that begin empty |
| `Allocator` | abstract: disjoint extents granted and given back |
| `Bits` | the bitwise and, on natural numbers |
| `BasicLemmas` | least elements of sets of numbers, sequences with an element put in or taken out, the range of the bitwise and |
| `BucketProofs` | proofs about `Bucket` |
| `LogProofs` | proofs about `CircularLog` for any threads |
| `WriterProofs`, `ReaderProofs` | its writers and its readers, when the writers keep to main buckets of their own |
| `SegFitsTiling`, `SegFitsProofs` | what the allocator's operators do to a tiling, and proofs about `SegFits` |
| `TableProofs` | proofs about `KvTable` |
| `MCBucket`, `MCLog`, `MCTable` | instances: which threads use which buckets, keys and blocks; names and sizes of tables |

### Bucket

A bucket is named by its address in units of `sizeof(bucket)`, mains first.
`entries`, `link` and `version` are the fields of the buckets (`link` is
`bucket.offset`, a distance cut to `LinkSpan`); `call[t]` is the C frame of the
index call thread `t` is in: its label, its arguments, `*bkt` and `*index`, and
the spare `next_empty_spare_bucket` is at.

The three functions walk a chain in the same way, so the walk is written once:
`SlotHit`, `SlotMiss`, `FollowLink`, `ChainEnd`, by the label of the frame
("probe" for search, "scan" for insert, "match" for delete).  `InsertStore` and
`InsertPublish` are the two stores an insert compiles to (`gcc -O3` stores the word
with the tag as it was loaded, then the 16-bit tag); `ClaimSkip`, `ClaimTake` and
`InsertFull` are the loop of `next_empty_spare_bucket`; `InsertLink` is the
assignment of the link; `DeleteClear` is the one 64-bit store that clears an entry.
The version test and the compare-and-swap behind it are one step: a spare's
version never goes back to 0.

The atomicity assumed is that of aligned 64-bit and 16-bit accesses on the
machine the code is built for, in program order (x86 stores are not reordered
with stores, loads not with loads).

### CircularLog

`th[t]` is the frame of the operation (`key` and `val` are the caller's entry, which
a get overwrites; `asked` remembers the key of the call), `log[off]` the entry in a
block, `free` the blocks the allocators hold.  One action is one access or one
call: `LockRead`, `LockRepeat`, `LockEnter` are `OPTIMISTIC_LOCK` as it is written (the
loop repeats while the swap *succeeds*), `RunIndexCall` runs the steps of `Bucket`,
`Found`, `LoadOffset`, `KeyDiffers`, `KeyEqual`, `Missing` are the loop that remove, put
and get share, `Unindex` and `FreeBlock` the removal, `Allocate`, `AllocateFails`,
`CopyKey`, `CopyVal`, `Inserted` the rest of put, `GetBegin`, `GetKey`, `GetVal`, `GetEnd`
the rest of get.  `GetFault` is the copy of a freed entry whose length word has
become a list pointer: it ends the process.

The allocator is abstracted to what `Allocator` promises, for requests of one size:
a block that nobody has, or none, at any time.  What a free leaves in a block (`Remains`) is all of it, a pointer in the
first word, or a boundary tag inside the value; `Scars` selects which a run explores.
The other half of that contract, that a partition gives back only what it has and no
block twice, is what `SegFits` assumes of its caller and `BlocksAccounted` shows of the log.

Abstracted data: an entry has a key and a value, copied in two steps, where the
code copies word by word; `expire` and the lengths are left out (no code looks at
`expire`; two keys are equal iff their lengths and bytes are).

`Invoke` stands for the callers: a thread puts and removes the keys of its partition
and gets any key it is given (`WriteKeys`, `ReadKeys`).  The runs take the writer of a key
from the queue portion of its hash (`rss_queue_hash_portion`), as the test program does.

### SegFits

Addresses and sizes count words; a block of class `i` has `i` + 1 words of data and
two of tags.  `mem[w]` is the tag in word `w`, `NoTag` in a word of data: what callers
write there, list pointers and stale tags are forgotten, which is sound because
`Tiled` shows that the words next to a block, the only ones the code reads as tags, are
tags of its neighbours.  `heads[i]` is the list of class `i`.  Sizes in bytes are rounded
up to words before a class is computed from them, as `class_ceil_index` does.

`Reclass` is one turn of the creating loop.  A free is `FreeCall`, then turns of
`MergeForward` (towards lower addresses) and `MergeBackward`, each of which may give
off a full block (`Settle`) and end its loop, then `FileFree`.  A get is `GetCall`, then
`Take`, or `Divide`, turns of `Absorb`, `FileBack` and `Take`, or `GetFails`.  `GetBeyond` and
`FileBeyond` are the two ways to index the array of lists past its end; what the
program does afterwards is undefined, so the model stops there.  The assertions in
the merges are the invariant `AssertsHold`.

### KvTable

A table is created, used and destroyed by a process of its own.  `frame[t]` is where the
process is in `create_kv_table`, `create_bucket_pool`, `create_mem_allocator_with_addr`,
`create_circular_log` or one of the destructors: `pc`, the file in hand (the pool's or
the log's), the sizes asked for and `table->log`.  `heap[t]` counts its heap objects by
kind, `maps[t]` and `fds[t]` are its mappings and descriptors; `files` takes a name to
an inode (the name it was made under and a number, so that a name can be unlinked and
made again while the old file is in use) and `disk` has the content of a file by parts
of the size of a partition: zero, tagged by `segregated_fits_reclassing`, or used.  The
pool takes the first part of its file.

A step is one call that can fail or that touches a file, and every such call has a
failing twin: `MallocFails`, `OpenFails`, `MapFails` (error1), `MallocMapFails` (error2),
`MallocLogFails`, `MallocFitsFails`.  The unwinding of `create_kv_table` from error3 on is
the code of `destroy_kv_table` again, so both are `DestroyLogs`, `DestroyMap` of the log,
`DestroyMap` of the pool, `FreePool`, `FreeTable`; `Undo` is where a failure joins them.
`ReclassLog` stands for the loop that `SegFits` has in steps.  `UseTable` is a put by its
effect on the files.  `Crash` ends the process at any step, an access outside a mapping
included: memory, mappings and descriptors go, files stay.

Taken from the system, not from `src/`: `open` with `O_CREAT`, `mmap` refusing no bytes,
the content of a file living as long as a name, mapping or descriptor leads to it.
Assumed of callers: names that stay apart with the suffix `_bucket` (nothing in the code
keeps two tables of one name, or a table `x_bucket` beside `x`, from sharing a file),
and whole huge pages (the comments in `shm.c` and `bucket.c`), without which `munmap`
refuses and the code does not notice.

A step that changes several fields of one table's or thread's record replaces the
record (`Become`, and likewise in `Bucket`), so that no `EXCEPT` has two nested
updates: tlapm's SMT translation of those is not to be relied on.

## 4. Runs

| run | instance | checks |
|---|---|---|
| `Bucket_own` | 2 threads on main buckets of their own, 2 spares, 1 slot | no spare is lost; `IndexSpec` is implemented |
| `Bucket_shared` | 2 threads racing on one main bucket, 3 spares, fairness | types; chains stay disjoint; an insert fails only on an exhausted pool; every index call returns |
| `Log_own` | 2 writers on buckets of their own, 2 keys each in buckets of one slot, 2 spares, one writer reads too, two updates a bucket, fairness | blocks accounted for; `KvMap` implemented while both writers claim and link spares; every operation returns |
| `Log_read` | a writer of two keys and a reader of one in one bucket, one slot and a spare, three updates | types; version odd during updates; an index entry leads to a whole block in use and no key has two; a put is findable; a get on an unchanged even version is atomic, and copies no freed entry |
| `SegFits_main` | 19 words, 4 classes: three full blocks and a word that fits in none; every request size, and one too large; fairness | tags and blocks tile the partition; every free block is in its list, once; the merges' assertions hold; when all is freed a full block can be had; `Allocator` implemented; every call returns |
| `Table_life` | 2 tables of 2 partitions; sizes that fit, that wrap to 0 and that wrap to fewer bytes | no object is freed twice; whichever stage fails the process holds nothing but leaked allocator structs; no two mappings are of one file; `TableLife` implemented: a new table is empty over any leftover |

`Log_twins`, `Log_full`, `Log_meet`, `Log_wrongkey`, `Log_torn` and `SegFits_lists` are
expected to be violated; each shows a finding.

1. `Log_twins` / `OpsReturn`: after a tag match with another key the search is called
   again with the index of that very slot, so two keys of one tag in one bucket
   make put, get and remove loop for ever (`bucket.c:96`).
2. `Log_full` / `PutIsIndexed`: put ignores that no index entry could be had and
   returns true (`circular_log.c:147`).
3. `Log_meet` / `OddWhileUpdating`: two writers that meet in one main bucket are both
   let in, and the first unlock makes the version even under the second
   (`circular_log.h:20`).  The pool is shared by all partitions, so keys of different
   writers do meet.
4. `Log_wrongkey` / `GetMatches`: a retried get searches for the key its first pass
   copied over the caller's (`circular_log.c:203`).  A get of `ka` has read the offset of
   `ka`'s block when the writer frees the block and fills it with `kb`; the pass
   copies `kb`, finds the version changed and starts again, now for `kb`, which it finds and
   returns on an even version.  `GetMatches` speaks of even versions only, so that it is
   not violated by what item 5 shows.
5. `Log_torn` / `GetWhole`: a get accepts an unchanged odd version
   (`circular_log.c:203`).
6. `SegFits_lists` / `HeadsInBounds`: the size that marks a full block is that of the
   class behind the last one (`mem_manager.c:124`, `:187`), so full blocks are merged;
   `segregated_fits_divide` puts no cap on what it absorbs and files the result in a
   list behind the array (`mem_manager.c:374`).  Three full blocks handed out, and
   given back middle, top, bottom, are enough.  (A request of exactly one class
   too many, `:389`, reads behind the array as well; the run leaves it out.)

The passing runs say what holds beside these: `Log_own` and `Log_read` give the keys of a
bucket different tags, each bucket one writer and everybody enough index
entries; `SegFits_main` holds up to the step that leaves the array; `EvenWindowGets` speaks of passes on an even version.

Some of what the code does wrong is in the models and claimed by no property, since no
comment, assertion or test says otherwise: a put that has no block leaves the version odd and
the old value gone (`circular_log.c:142`; `AllocateFails`, and `Drop` and `Refuse` of `KvMap`);
two threads that link a spare to one bucket lose one (`bucket.c:156`; `InsertLink`); a pool
of 2^25 buckets or more is mapped too short (`bucket.c:30`; `PoolBytes`, `UseTable`).

### Bounds, and why they are enough

* One slot a bucket makes every second insert into a chain claim a spare; two
  or three spares let two threads claim side by side, exhaust the pool, and chain
  a spare behind a spare.  More slots only delay the same steps; `Log_meet` and
  `Log_twins` have two.
* Two threads: every race in the code is between two accesses.  The proofs
  hold for any number.
* `TagSpan` = 4 leaves three tags; hash 0 takes the tag of the hash with all low bits
  set, as in the code.  `LinkSpan` = 8 exceeds the pool, as 2^25 buckets do
  (`PoolFits`).
* One value in `Log_own`: what it could not see, a get that returns the value of an
  earlier put, is excluded there because a key has one entry (`EntriesSound`); in
  `Log_read` there are two.
* Versions do not wrap in the passing runs (`VersionSpan` = 16), and writers start only
  below `VersionCap`.  In `Log_own` that leaves each bucket two updates: enough to put
  both its keys, the second in a spare claimed while the other thread claims one, or
  to put a key and replace or remove it, or to follow a failed put.  In `Log_read` there
  are three: one before the get begins, one that races with it, one after, or two puts
  and the replacement or removal of an entry in the spare.  A wrap of 2^32 versions
  within one get is out of the bounds; after one `EvenWindowGets` is false, as
  a version equal to the first is then no sign that nothing was written.
* Four classes and three full blocks reach every branch of the allocator: blocks of
  one and two words that no list holds, blocks given off in both loops, neighbours
  too large to join, and the divided block that absorbs a full one.  The production
  values (160 classes, a partition of 2^30 bytes) differ in number only.
* Two tables of two partitions: tables meet in the file system only, pairwise, and the
  second partition is where a failure finds a first one to undo.  `SizeSpan` = 16 with
  buckets of 2 bytes makes pools of 4, 8 and 10 buckets fit, wrap to nothing and
  wrap to 2 buckets.  `LeakCap` = 2: a process creates tables while fewer than two
  allocator structs are leaked; the next process starts from none.
* Symmetry is used only on interchangeable values, in `Log_read`, which has no
  liveness property.

### Fairness

`FairSpec`, `FairLogSpec` and `FairSegSpec` assume that a thread inside a call keeps being scheduled
(weak fairness of its steps, which are never disabled by others for good: the code
has no blocking wait).  Nobody is forced to start a call.

## 5. Proofs

`BucketProofs` proves of `Bucket`, for any constants that satisfy its assumptions (any
number of threads and buckets, any `Homes`, so also threads that race on one main
bucket without a lock):

* `ChainInvariant`: `Spec => []ChainInv`;
* `TypeCorrect`, `ChainsStayDisjoint`: its two conjuncts that the runs check;
* `FullPoolExhausted`: an insert that fails has seen every spare claimed.

`ChainsDisjoint` alone is not inductive: it does not say that the spare about to be
linked is in no chain.  `ChainInv` adds that the claimed spares are a prefix of the
spares (`PrefixClaimed`), that a cursor has passed claimed ones only
(`CursorPassed`), that threads work in claimed buckets (`WalksClaimed`), and that a
claimed spare about to be linked lies above the bucket it will extend, in no chain
and in no other hand (`HandsExclusive`).  From that the distance stored by
`InsertLink` is positive and below `LinkSpan`, so cutting it to 32 bits loses nothing
and `ChainsDisjoint` is kept.  Assumptions: `HashAssumption`, `BucketAssumption` and
`PoolFits` (fewer than 2^25 buckets, which `BUCKET_MEM_SIZE` needs as well).

`TableProofs` proves of `KvTable`, for any number of tables, partitions, sizes and names:

* `TableInvariant`: `TableSpec => []TableInv`;
* `TableTypeCorrect`: types, so nothing is freed that was not made;
* `NothingLeftHeld`: whichever stage fails, an idle process holds nothing but leaked
  allocator structs;
* `FilesStayApart`: no two mappings are of one file;
* `TablesLive`: `TableSpec` implements `TableLife`.

`NothingHeld` is not inductive: it speaks of idle processes only.  `TableInv` says for every
stage what a process has: how many objects of each kind (`HeapExact`), that the logs made
are the first `i` and the others null, which is what error3 relies on (`LogsPrefix`),
and which of the two files are open and mapped (`FilesHeld`).  `FilesApart` needs
`NamesKept`: an inode is used only under the name it was made for, so mappings under
different names are of different files, also after a name was unlinked and made again.

For the refinement a step is mapped to a step of `TableLife` or a stutter (`LifeStep`).  It needs, beyond `TableInv`,
`ContentInv`: while partitions are being made, the pool is zero and the partitions
below `i` are tagged, so that the step that reaches "live" finds an empty table.
That steps of other tables keep it is `OthersContents`, from `NamesKept`.  The assumption
is `TableAssumption`: names stay apart, sizes are whole pages.

`NoSpareGetsLost` is `NoSpareLost` whenever the `Homes` of two threads are
disjoint (`HomesDisjoint`), as in run `Bucket_own`; without that it is false, since the
second of two threads that link a spare to one bucket overwrites the first one's link
(`NoSpareLost` is violated in the instance of `Bucket_shared`): the property says that
no claimed spare is left unlinked, not that writers who meet lose none.
The invariant says that there is a function `own` from buckets to main buckets (`OwnInv`)
that links respect; it is a ghost, quantified in the invariant and chosen anew by
`InsertLink`.  A thread about to link is at the end of a chain that is its own.

`SegFitsProofs` proves of `SegFits`, for any partition, number of classes and requests:

* `SegInvariant`: `SegSpec => []SegInv`;
* `SegTyped`, `SegTiled`, `SegListed`, `SegAsserts`: its consequences that the runs check;
* `SegFullBack`: `FullBlockBack`, if the partition has room for a full block, without which
  there is none to be had;
* `SegRefinesAllocator`: `SegSpec => AllocatorImplemented`.

`SegInv` is `SegTypeOK`, what a stage knows of its block and request (`StageInv`), a set of
blocks that tiles the partition up to the point the creating loop has reached, whose
tags agree and whose free ones, except the one in hand, are in the lists (`ShapeInv`), and
where the full block is while nothing is in use (`FullInv`).  The set is a witness:
`SegFitsTiling` shows for each operator (mark, fuse, split, list, unlist) which set tiles
afterwards, and that the blocks `Tiled` finds by walking from tag to tag are that set.
`FullBlockBack` alone is not inductive, since a merge in progress has the full block in
hand or about to be formed.

`LogProofs` proves of `CircularLog`, for any constants that satisfy `LogAssumption`, readers and
writers that meet in one bucket included:

* `LogInvariant`: `LogSpec => []LogInv`;
* `LogTyped`: `LogTypeOK`.

`LogInv` is `ChainInv` (every step of the log is a step of `Bucket` or leaves the pool's
chains alone), the types, and which label of an operation goes with which label of the
index call, and with a key, a block and a main bucket (`OpControl`, `CallControl`,
`BlockControl`).  That a hash leads to a main bucket, also when `main_size` is no power of two,
is a fact about the mask in `get_entry_bucket`, proved in `BasicLemmas` from the definition of the
bitwise and (that the recursive function it is defined by exists is proved there too, by an
induction over sets).

`WriterProofs` assumes `BucketsApart`: the keys of different writers lie in different main
buckets.  The code does not see to it, and `Log_meet` shows what happens without.  Under it:

* `PlacesInvariant`: `PlacesInv`, the invariant behind the next three, and `LockInv`: a writer
  between lock and unlock has its version odd, and one about to swap has read it
  without the low bit;
* `EntriesStaySound`: `EntriesSound`;
* `BlocksStayAccounted`, `PutsStayIndexed`: `BlocksAccounted` and `PutIsIndexed`, as long as no
  insert has found the pool full (`NoneFull`, a hypothesis about the behaviour; `Log_full`
  shows that `PutIsIndexed` fails without).

`PlacesInv` says that for some `own`, as for `NoSpareGetsLost`, chains go upwards through all the
buckets they own (`OwnedChains`), every published entry leads to a whole block of a key of its main
bucket and tag (`SoundPlaces`), no key has two (`KeysOnce`), and what each writer `Knows` at
its stage: a search has passed no entry of its key, one that has missed has seen
that there is none, a block in hand is in no entry, the slot being filled is empty.
`EntriesSound` needs all of it: that no key gets a second entry rests on the search
before the insert having been complete, that the block of an entry is not freed on its being
unindexed first.  Steps of other threads keep what a writer knows because they
write in other blocks (`Writing`), in slots of other chains (`Slotting`), or link an
empty spare to another chain (`Joins`).  `Kept` adds the converse, which `NoneFull` is for: a used block
is in an entry or in a hand, and what a put has put is there.  From `own` back to the
`ChainFrom` of the properties is `ChainIs`: a chain is all that its main bucket owns
(`ChainFrom` is a recursive function, whose existence and uniqueness are proved by a least
counterexample).

`ReaderProofs` proves `EvenWindowsHold`, `LogSpec => EvenWindowGets`, for any number of readers of
any keys, under `BucketsApart` and `VersionCap` + 1 < `VersionSpan`, which says that no version
wraps: after a wrap a version equal to the first is no sign that nothing was written.
`VersionsLow` is what this assumption gives: a reader's version is not above that of
its bucket, whose versions only rise (`Rise`), so a window that is open after a step was open before it.
`PassInv` says what a pass `Sees` while its window is open: the cursor is in the chain
of its main bucket and has passed no entry of the key, the offset read is that of the entry the
cursor is at, and at the end the chain has an entry of the key with the value, or has none
of the key.  A reader's own steps write nothing.  Those of others keep it because a writer between
lock and unlock has its version odd (`LockInv`), hence another main bucket, and what it
writes is in no chain but its own (`Still`).

Its last part proves `LogIsAMap`, `LogSpec /\ []NoneFull => KvImplemented`, under `BucketsApart`,
`NoVal` not in `Vals` and `ReadsOwn`: a thread gets no keys but those it may put.  `KvMap` has no
answer for a get of somebody else's key, which may give up on a moving version or return a torn
value (`Log_torn`).  `NoneFull` is needed because a put answers true when the pool had no room for its
entry.  The mapping is `AbsMap`, what a search of the finished index finds (`Lookup`), and `AbsKvReq`,
the operation of a thread with the reply that its steps have already decided.  `LookupLaw` says
what `Lookup` returns: under `PlacesInv` the value of the one place of the key, or `NoVal` when it
has none.  Then

* the steps that change the map are `Unindex` (`Remove`, or the `Drop` of a put) and the store that
  publishes an entry (`Publish`); every other store of the index and the heap leaves it
  (`MapStays`), those of other threads and the transient ones of an insert included;
* a miss is the `Remove` or `Get` of a key that is nowhere, an allocation that fails the
  `Refuse` of a put whose old entry is gone; a get takes effect when it copies the value;
* a get of one's own key is always in a window (`ServedInv`): its version is still that of its
  bucket at every step, so what it `Sees` is still so, and the comparison at the end
  cannot send it back after it has taken effect;
* all other steps stutter.

Only model-checked: `OddWhileUpdating`, which is about writers that meet and is false for
them (`Log_meet`); where writers keep apart it is the part of `LockInv` that the proofs
above use.  The refinement `IndexImplemented` (its mapping counts entries along a chain,
a recursive function over data) and the liveness properties are out
of the prover's reach.  The
properties of the runs that expect a violation are false.

## 6. Not modelled

* What the program does once the allocator has written behind its lists.
* Files outside the huge page file system: `create_mem_allocator_with_addr` unlinks the
  caller's `filename` instead of its path when `mmap` or `malloc` fails
  (`shm.c:61`), which removes whatever the working directory has under that name.
  In the model the file it has made stays, as it does.
* Paths.  `test_shm.c:13` passes an absolute name, to which `hugepage_path` adds the
  mount point again, so that its `open` fails unless that directory exists.
* CityHash: third-party and stateless; a key's hash is a constant.
* Utilities and test programs; `dump_*` functions, which only print.  `generic_fls` is
  called by a test only.
* A log's `expire`, which no code reads.
