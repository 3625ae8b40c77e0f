------------------------------- MODULE SegFits -------------------------------
(***************************************************************************)
(* The segregated-fits allocator of mem_manager.c: a partition tiled with  *)
(* blocks that have a boundary tag in their first and their last word, and *)
(* for every size class a list of the free blocks of exactly its size.  A  *)
(* partition is used by one thread; a call runs one turn of its loops a    *)
(* step.                                                                   *)
(*                                                                         *)
(* Sizes and addresses count words of 8 bytes; a block is named by the     *)
(* address of its first tag.  A block of class i has i + 1 words of data.  *)
(***************************************************************************)
EXTENDS Integers, SequencesExt

CONSTANTS
  PartWords,  \* sfits.addr_size: words of the partition
  ClassCount,        \* sfits.len: number of size classes
  Requests    \* the data sizes that callers ask for

ASSUME PartAssumption ==
  /\ PartWords \in Nat \ {0} /\ ClassCount \in Nat \ {0}
  /\ Requests \subseteq Nat

VARIABLES
  mem,    \* the tag in every word; NoTag in a word of data
  heads,  \* heads[i]: the list of class i, newest block first
  owned,  \* the blocks handed out and not freed yet
  frame   \* the call: where it is, the block in hand, the size asked for

segVars == <<mem, heads, owned, frame>>

Words   == 0..(PartWords - 1)
Classes == 0..(ClassCount - 1)

Tag(size, used) == [size |-> size, used |-> used]
NoTag == Tag(0, FALSE)

NoCall == [pc |-> "idle", blk |-> 0, want |-> 0]

At(pc) == frame.pc = pc

(* Fault: the class is rounded down.                                       *)
class_floor_index(n) == IF n < 2 THEN 0 ELSE n - 2

(* The class of a request (a size in bytes has been rounded up to words),  *)
(* the class of a whole block (negative for one too small for a list) and  *)
(* the size of a class's blocks.                                           *)
class_ceil_index(n) == IF n = 0 THEN 0 ELSE n - 1
BlockClass(size) == size - 3
BlockSize(i) == i + 3

(* "max_block_size" of the merges and "max_size" of free:                  *)
(* segregated_fits_class(len) is one word more than the last class has.    *)
MaxSize == BlockSize(ClassCount)

(* Both tags of a block; a block of one word has one.                      *)
Stamp(m, b, size, used) ==
  [m EXCEPT ![b] = Tag(size, used), ![b + size - 1] = Tag(size, used)]

segregated_fits_insert_block_head(hs, i, b) == [hs EXCEPT ![i] = <<b>> \o @]

(* The list of a block: what is too large is kept in the last list.        *)
ListOf(size) ==
  IF BlockClass(size) < ClassCount THEN BlockClass(size) ELSE ClassCount - 1

(* Fault: the neighbour stays in its list.                                 *)
UnlistNothing(hs, b, size) == hs

(* A merge takes the neighbour from its list, if it is in one.             *)
Unlist(hs, b, size) ==
  IF BlockClass(size) < 0 THEN hs ELSE [hs EXCEPT ![ListOf(size)] = RemoveFirst(@, b)]

(* Fault: the tag at the far end is not brought up to date.                *)
FuseFront(m, b, size, next) ==
  [m EXCEPT ![b + size - 1] = NoTag, ![b + size] = NoTag, ![b] = Tag(size + next, FALSE)]

(* Two neighbours become one block.                                        *)
Fuse(m, b, size, next) ==
  Stamp([m EXCEPT ![b + size - 1] = NoTag, ![b + size] = NoTag], b, size + next, FALSE)

------------------------------------------------------------------------------
(* create_circular_log's loop over segregated_fits_reclassing: blocks of   *)
(* the largest class, then one block of what is left.                      *)

Reclass ==
  LET left == PartWords - frame.blk
      i    == ListOf(left)
      size == IF i < 0 THEN left ELSE BlockSize(i)
  IN  /\ At("reclass")
      /\ mem' = Stamp(mem, frame.blk, size, FALSE)
      /\ heads' = IF i < 0 THEN heads
                  ELSE segregated_fits_insert_block_head(heads, i, frame.blk)
      /\ frame' = IF size = left THEN NoCall
                  ELSE [frame EXCEPT !.blk = @ + size]
      /\ UNCHANGED owned

------------------------------------------------------------------------------
(* The two merges of the block in hand.  Neither looks past the partition, *)
(* and neither takes a used block or one of MaxSize.                       *)

(* Fault: used blocks are merged.                                          *)
MergeableUsed(tag) == tag.size # MaxSize

(* Fault: a block too small for a list is not merged.                      *)
MergeableListed(tag) ==
  ~tag.used /\ tag.size # MaxSize /\ tag.size >= BlockSize(0)

Mergeable(tag) == ~tag.used /\ tag.size # MaxSize

CanMergeForward == frame.blk > 0 /\ Mergeable(mem[frame.blk - 1])

NextOf(b) == b + mem[b].size

CanMergeBackward ==
  NextOf(frame.blk) < PartWords /\ Mergeable(mem[NextOf(frame.blk)])

(* Fault: the loop goes on after a block was given off.                    *)
SettleOn(b, m, hs, next) ==
  LET size == m[b].size
      rest == b + BlockSize(ClassCount - 1)
  IN  IF size < MaxSize
      THEN mem' = m /\ heads' = hs /\ frame' = [frame EXCEPT !.blk = b]
      ELSE /\ mem' = Stamp(Stamp(m, b, BlockSize(ClassCount - 1), FALSE),
                           rest, size - BlockSize(ClassCount - 1), FALSE)
           /\ heads' = segregated_fits_insert_block_head(hs, ClassCount - 1, b)
           /\ frame' = [frame EXCEPT !.blk = rest]

(* Fault: the size is not compared with max_size, so a block that fits in  *)
(* a class is given off whole and what is behind it comes to be in hand.   *)
SettleUnchecked(b, m, hs, next) ==
  LET size  == m[b].size
      given == IF BlockClass(size) < ClassCount THEN size ELSE BlockSize(ClassCount - 1)
  IN  /\ mem' = IF given = size THEN m
                ELSE Stamp(Stamp(m, b, given, FALSE), b + given, size - given, FALSE)
      /\ heads' = IF BlockClass(size) < 0 THEN hs
                  ELSE segregated_fits_insert_block_head(hs, ListOf(size), b)
      /\ frame' = [frame EXCEPT !.pc = next, !.blk = b + given]

(* In free, a block that has grown to MaxSize gives off a block of the     *)
(* largest class and ends the loop; the rest stays in hand.                *)
Settle(b, m, hs, next) ==
  LET size == m[b].size
      rest == b + BlockSize(ClassCount - 1)
  IN  IF size < MaxSize
      THEN mem' = m /\ heads' = hs /\ frame' = [frame EXCEPT !.blk = b]
      ELSE /\ mem' = Stamp(Stamp(m, b, BlockSize(ClassCount - 1), FALSE),
                           rest, size - BlockSize(ClassCount - 1), FALSE)
           /\ heads' = segregated_fits_insert_block_head(hs, ClassCount - 1, b)
           /\ frame' = [frame EXCEPT !.pc = next, !.blk = rest]

------------------------------------------------------------------------------
(* free_segregated_fits_block                                              *)

FreeCall ==
  /\ At("idle")
  /\ \E b \in owned :
       /\ owned' = owned \ {b}
       /\ mem' = Stamp(mem, b, mem[b].size, FALSE)
       /\ frame' = [NoCall EXCEPT !.pc = "forward", !.blk = b]
  /\ UNCHANGED heads

MergeForward ==
  /\ At("forward") /\ CanMergeForward
  /\ LET size == mem[frame.blk - 1].size
         b    == frame.blk - size
     IN  Settle(b, Fuse(mem, b, size, mem[frame.blk].size),
                Unlist(heads, b, size), "backward")
  /\ UNCHANGED owned

ForwardEnd ==
  /\ At("forward") /\ ~CanMergeForward
  /\ frame' = [frame EXCEPT !.pc = "backward"]
  /\ UNCHANGED <<mem, heads, owned>>

MergeBackward ==
  /\ At("backward") /\ CanMergeBackward
  /\ LET b    == frame.blk
         next == NextOf(b)
     IN  Settle(b, Fuse(mem, b, mem[b].size, mem[next].size),
                Unlist(heads, next, mem[next].size), "file")
  /\ UNCHANGED owned

BackwardEnd ==
  /\ At("backward") /\ ~CanMergeBackward
  /\ frame' = [frame EXCEPT !.pc = "file"]
  /\ UNCHANGED <<mem, heads, owned>>

(* The class is at most the last: a block is in hand here only below       *)
(* MaxSize, so the early return for a class that has no list is not met.   *)
FileFree ==
  /\ At("file")
  /\ LET i == BlockClass(mem[frame.blk].size) IN
     heads' = IF i < 0 THEN heads
              ELSE segregated_fits_insert_block_head(heads, i, frame.blk)
  /\ frame' = NoCall
  /\ UNCHANGED <<mem, owned>>

------------------------------------------------------------------------------
(* get_segregated_fits_block and segregated_fits_divide                    *)

Larger == {i \in Classes : i > class_ceil_index(frame.want) /\ heads[i] # <<>>}

First(set) == CHOOSE i \in set : \A j \in set : i <= j

(* A request of a yet larger class is told NULL at once: nothing changes.  *)
GetCall ==
  /\ At("idle")
  /\ \E n \in Requests :
       /\ class_ceil_index(n) < ClassCount
       /\ frame' = [NoCall EXCEPT !.pc = "take", !.want = n]
  /\ UNCHANGED <<mem, heads, owned>>

(* A request of one class too many passes the check and reads heads[len].  *)
GetBeyond ==
  /\ At("idle")
  /\ \E n \in Requests :
       /\ class_ceil_index(n) = ClassCount
       /\ frame' = [NoCall EXCEPT !.pc = "read_past", !.want = n]
  /\ UNCHANGED <<mem, heads, owned>>

Take ==
  LET i == class_ceil_index(frame.want) IN
  /\ At("take") /\ heads[i] # <<>>
  /\ LET b == Head(heads[i]) IN
     /\ mem' = Stamp(mem, b, mem[b].size, TRUE)
     /\ owned' = owned \cup {b}
  /\ heads' = [heads EXCEPT ![i] = Tail(@)]
  /\ frame' = NoCall

GetFails ==
  /\ At("take") /\ heads[class_ceil_index(frame.want)] = <<>> /\ Larger = {}
  /\ frame' = NoCall
  /\ UNCHANGED <<mem, heads, owned>>

(* The first block of the next larger class that has one is cut in two:    *)
(* its front goes to the list asked for, its back is in hand.              *)
Divide ==
  LET i == class_ceil_index(frame.want)
      j == First(Larger)
      a == Head(heads[j])
      b == a + BlockSize(i)
  IN  /\ At("take") /\ heads[i] = <<>> /\ Larger # {}
      /\ mem' = Stamp(Stamp(mem, a, BlockSize(i), FALSE),
                      b, mem[a].size - BlockSize(i), FALSE)
      /\ heads' = segregated_fits_insert_block_head(
                    [heads EXCEPT ![j] = Tail(@)], i, a)
      /\ frame' = [frame EXCEPT !.pc = "absorb", !.blk = b]
      /\ UNCHANGED owned

(* The back takes in the free blocks behind it, however large it gets.     *)
Absorb ==
  /\ At("absorb") /\ CanMergeBackward
  /\ LET b    == frame.blk
         next == NextOf(b)
     IN  /\ mem' = Fuse(mem, b, mem[b].size, mem[next].size)
         /\ heads' = Unlist(heads, next, mem[next].size)
  /\ UNCHANGED <<owned, frame>>

FileBack ==
  LET i == BlockClass(mem[frame.blk].size) IN
  /\ At("absorb") /\ ~CanMergeBackward /\ i < ClassCount
  /\ heads' = IF i < 0 THEN heads
              ELSE segregated_fits_insert_block_head(heads, i, frame.blk)
  /\ frame' = [frame EXCEPT !.pc = "take", !.blk = 0]
  /\ UNCHANGED <<mem, owned>>

(* Its class lies behind the array of lists.                               *)
FileBeyond ==
  /\ At("absorb") /\ ~CanMergeBackward
  /\ BlockClass(mem[frame.blk].size) >= ClassCount
  /\ frame' = [frame EXCEPT !.pc = "file_past"]
  /\ UNCHANGED <<mem, heads, owned>>

------------------------------------------------------------------------------
SegInit ==
  /\ mem = [w \in Words |-> NoTag]
  /\ heads = [i \in Classes |-> <<>>]
  /\ owned = {}
  /\ frame = [NoCall EXCEPT !.pc = "reclass"]

CallStep ==
  \/ Reclass \/ MergeForward \/ ForwardEnd \/ MergeBackward \/ BackwardEnd
  \/ FileFree \/ Take \/ GetFails \/ Divide \/ Absorb \/ FileBack \/ FileBeyond

SegNext == GetCall \/ GetBeyond \/ FreeCall \/ CallStep

SegSpec == SegInit /\ [][SegNext]_segVars

(* The thread inside a call is scheduled again.                            *)
FairSegSpec == SegSpec /\ WF_segVars(CallStep)

------------------------------------------------------------------------------
Running == {"forward", "backward", "file", "take", "absorb"}

(* Every variable has its type.                                            *)
SegTypeOK ==
  /\ mem \in [Words -> [size : 0..PartWords, used : BOOLEAN]]
  /\ heads \in [Classes -> Seq(Words)]
  /\ owned \subseteq Words
  /\ frame \in [pc : Running \cup {"idle", "reclass", "read_past", "file_past"},
                blk : Words, want : Requests \cup {0}]

(* The blocks of the partition, first to last, by the tags that head them. *)
BlocksFrom[b \in 0..PartWords] ==
  IF b = PartWords \/ mem[b].size = 0 THEN {}
  ELSE {b} \cup (IF NextOf(b) > PartWords THEN {} ELSE BlocksFrom[NextOf(b)])

Blocks == BlocksFrom[0]

(* The block a call has in hand, which is in no list.                      *)
InHand == IF frame.pc \in {"forward", "backward", "file", "absorb", "file_past"}
          THEN {frame.blk} ELSE {}

(* The blocks tile the partition, with the same tag at both ends, and have *)
(* no tag inside; those in use are the ones the callers have.  A block in  *)
(* use, then, shares no word with another and its tags survive.            *)
Tiled ==
  /\ \A b \in Blocks :
       /\ NextOf(b) <= PartWords
       /\ mem[NextOf(b) - 1] = mem[b]
       /\ \A w \in (b + 1)..(NextOf(b) - 2) : mem[w] = NoTag
       /\ mem[b].used <=> b \in owned
  /\ owned \subseteq Blocks
  /\ ~At("reclass") => \E b \in Blocks : NextOf(b) = PartWords

(* Every free block of a listed size is in the list of its class, once,    *)
(* and the lists hold nothing else: no free memory is lost or found twice. *)
FreeListed ==
  \A i \in Classes :
    /\ Range(heads[i]) =
         {b \in Blocks \ InHand : ~mem[b].used /\ mem[b].size = BlockSize(i)}
    /\ IsInjective(heads[i])

(* The assertions of the merges: the neighbour begins inside the partition *)
(* and is in the list of its class.                                        *)
AssertsHold ==
  LET Listed(b, size) ==
        BlockClass(size) >= 0 => b \in Range(heads[ListOf(size)])
  IN  /\ At("forward") /\ CanMergeForward =>
           LET size == mem[frame.blk - 1].size
           IN  size <= frame.blk /\ Listed(frame.blk - size, size)
      /\ frame.pc \in {"backward", "absorb"} /\ CanMergeBackward =>
           LET next == NextOf(frame.blk)
           IN  NextOf(next) <= PartWords /\ Listed(next, mem[next].size)

(* No list behind the last one is ever used.  The merges mean to leave a   *)
(* "full size empty block" alone, which would keep every block in a class. *)
HeadsInBounds == frame.pc \notin {"read_past", "file_past"}

(* Once everything is freed, the largest block can be had again.           *)
FullBlockBack == At("idle") /\ owned = {} => heads[ClassCount - 1] # <<>>

(* Every call of the allocator returns.                                    *)
CallsReturn == (frame.pc \in Running) ~> (frame.pc \notin Running)

------------------------------------------------------------------------------
Alloc == INSTANCE Allocator WITH
  extents <- {[at |-> b + 1, len |-> mem[b].size - 2] : b \in owned},
  want <- IF frame.pc \in {"take", "absorb"} THEN frame.want ELSE -1

(* What is handed out is in the partition, long enough, and disjoint from  *)
(* whatever else is in use, whoever else has it.                           *)
AllocatorImplemented == Alloc!Spec
==============================================================================
