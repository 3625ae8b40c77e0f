--------------------------- MODULE SegFitsProofs -----------------------------
(***************************************************************************)
(* Proofs about the allocator of a partition, for any number of words and  *)
(* classes and any requests: its blocks tile it, its lists hold its free   *)
(* blocks, and it implements Allocator.                                    *)
(***************************************************************************)
EXTENDS SegFitsTiling

Frames == [pc : Running \cup {"idle", "reclass", "read_past", "file_past"},
           blk : Words, want : Requests \cup {0}]

Handy == {"forward", "backward", "file", "absorb", "file_past"}
Top == IF At("reclass") THEN frame.blk ELSE PartWords
LastClass == ClassCount - 1

(* Nothing is in use before the partition is cut up; the block in hand of  *)
(* a free is not too large for a list; the class of a request has a list.  *)
StageInv ==
  /\ At("reclass") => owned = {}
  /\ frame.pc \in {"forward", "backward", "file"} => mem[frame.blk].size < MaxSize
  /\ frame.pc \in {"take", "absorb"} =>
       frame.want \in Nat /\ class_ceil_index(frame.want) \in Classes

ShapeInv == \E B \in SUBSET Words : Shape(B, mem, heads, owned, InHand, Top)

(* While nothing is in use a free block of the largest class is listed, is *)
(* in hand, or has just been cut for the request at hand.                  *)
FullInv ==
  PartWords >= FullSize /\ owned = {} =>
    /\ At("reclass") => frame.blk = 0 \/ NonEmpty(heads, LastClass)
    /\ At("idle") => NonEmpty(heads, LastClass)
    /\ At("backward") => frame.blk = 0 \/ NonEmpty(heads, LastClass)
    /\ At("file") => mem[frame.blk].size = PartWords \/ NonEmpty(heads, LastClass)
    /\ At("take") =>
         NonEmpty(heads, LastClass) \/ NonEmpty(heads, class_ceil_index(frame.want))
    /\ At("absorb") =>
         \E a \in Range(heads[class_ceil_index(frame.want)]) : a < frame.blk

(* The inductive invariant.                                                *)
SegInv == SegTypeOK /\ StageInv /\ ShapeInv /\ FullInv

------------------------------------------------------------------------------
(* What the invariant says of the blocks, by where the call is.            *)
LEMMA ShapeNow ==
  ASSUME ShapeInv
  PROVE  /\ frame.pc \in Handy =>
              \E B \in SUBSET Words : Shape(B, mem, heads, owned, {frame.blk}, PartWords)
         /\ frame.pc \in {"idle", "take", "read_past"} =>
              \E B \in SUBSET Words : Shape(B, mem, heads, owned, {}, PartWords)
         /\ frame.pc = "reclass" =>
              \E B \in SUBSET Words : Shape(B, mem, heads, owned, {}, frame.blk)
BY DEF ShapeInv, InHand, Top, At, Handy

(* And what a step has to show of them.                                    *)
LEMMA ShapeNext ==
  ASSUME NEW B, frame' \in Frames, NEW hand, NEW top,
         Shape(B, mem', heads', owned', hand, top),
         hand = (IF frame'.pc \in Handy THEN {frame'.blk} ELSE {}),
         top = (IF frame'.pc = "reclass" THEN frame'.blk ELSE PartWords)
  PROVE  SegTypeOK' /\ ShapeInv'
<1>1. mem' \in Mem /\ heads' \in Lists /\ B \in SUBSET Words /\ owned' \subseteq Words
  BY DEF Shape, Tiling
<1>2. SegTypeOK'
  BY <1>1 DEF SegTypeOK, Mem, Lists, Frames
<1>3. hand = InHand' /\ top = Top'
  BY DEF InHand, Top, At, Handy
<1>4. QED
  BY <1>1, <1>2, <1>3 DEF ShapeInv

LEMMA TypeNow ==
  ASSUME SegTypeOK
  PROVE  /\ mem \in Mem /\ heads \in Lists /\ frame \in Frames
         /\ frame.blk \in Words /\ frame.blk \in Nat /\ frame.want \in Requests \cup {0}
         /\ 0 \in Words
BY PartAssumption DEF SegTypeOK, Mem, Lists, Frames, Words

LEMMA SegInitInv == SegInit => SegInv
<1> SUFFICES ASSUME SegInit PROVE SegInv
  OBVIOUS
<1>1. 0 \in Words /\ PartWords \in Nat /\ \A w \in Words : w \in 0..(PartWords - 1)
  BY PartAssumption DEF Words
<1>2. SegTypeOK
  <2>1. <<>> \in Seq(Words)
    OBVIOUS
  <2>2. mem \in [Words -> [size : 0..PartWords, used : BOOLEAN]]
    BY <1>1 DEF SegInit, NoTag, Tag
  <2>3. heads \in [Classes -> Seq(Words)]
    BY <2>1 DEF SegInit
  <2>4. frame \in Frames
    BY <1>1 DEF SegInit, NoCall, Frames
  <2>5. QED
    BY <2>2, <2>3, <2>4 DEF SegTypeOK, SegInit, Frames
<1>3. frame.pc = "reclass" /\ frame.blk = 0 /\ owned = {}
  BY DEF SegInit, NoCall
<1>4. Shape({}, mem, heads, {}, {}, 0)
  <2>1. mem \in Mem /\ heads \in Lists
    BY <1>2, TypeNow
  <2>2. Tiling({}, mem, 0)
    BY <1>1 DEF Tiling, SegInit, Words
  <2>3. Filed(heads, {}, mem)
    <3>1. \A i \in Classes : heads[i] = <<>>
      BY DEF SegInit
    <3>2. Range(<<>>) = {} /\ IsInjective(<<>>)
      BY DEF Range, IsInjective
    <3>3. QED
      BY <3>1, <3>2 DEF Filed
  <2>4. QED
    BY <2>1, <2>2, <2>3 DEF Shape
<1>5. ShapeInv
  BY <1>3, <1>4 DEF ShapeInv, InHand, Top, At
<1>6. QED
  BY <1>2, <1>3, <1>5 DEF SegInv, StageInv, FullInv, At

------------------------------------------------------------------------------
LEMMA StepReclass ==
  ASSUME SegInv, Reclass
  PROVE  SegInv' /\ Keeps(mem', mem, owned)
<1> DEFINE left == PartWords - frame.blk
           i    == ListOf(left)
           size == IF i < 0 THEN left ELSE BlockSize(i)
           blk  == frame.blk
<1>1. /\ mem \in Mem /\ heads \in Lists /\ frame \in Frames
      /\ blk \in Words /\ blk \in Nat
  BY TypeNow DEF SegInv
<1>2. owned = {} /\ owned' = {} /\ frame.pc = "reclass"
  BY DEF SegInv, StageInv, Reclass, At
<1>3. PICK B \in SUBSET Words : Shape(B, mem, heads, owned, {}, blk)
  BY <1>2, ShapeNow DEF SegInv
<1>4. /\ PartWords \in Nat \ {0} /\ left \in Nat \ {0} /\ blk + left = PartWords
      /\ ClassCount \in Nat \ {0}
  BY <1>1, PartAssumption DEF Words
<1>5. /\ i \in Int /\ i <= LastClass /\ size \in Nat \ {0} /\ size <= left /\ size < MaxSize
      /\ (IF i < 0 THEN BlockClass(size) < 0 ELSE BlockClass(size) = i)
      /\ left >= FullSize => i = LastClass
  BY <1>4 DEF ListOf, BlockClass, BlockSize, MaxSize, LastClass, FullSize
<1>6. /\ mem' = Cleared(mem, blk, size)
      /\ heads' = FiledIn(heads, BlockClass(size), blk)
      /\ frame' = IF size = left THEN NoCall ELSE [frame EXCEPT !.blk = blk + size]
  <2>1. heads' = FiledIn(heads, i, blk)
    BY DEF Reclass, FiledIn
  <2>2. heads' = FiledIn(heads, BlockClass(size), blk)
    <3> HIDE DEF i, size
    <3>1. QED
      BY <1>5, <2>1 DEF FiledIn
  <2>3. mem' = Cleared(mem, blk, size)
    BY DEF Reclass, Cleared
  <2>4. frame' = IF size = left THEN NoCall ELSE [frame EXCEPT !.blk = blk + size]
    BY DEF Reclass
  <2>5. QED
    BY <2>2, <2>3, <2>4
<1> HIDE DEF left, i, size
<1>7. size \in 1..PartWords /\ blk + size <= PartWords /\ blk + size \in Nat
  BY <1>1, <1>4, <1>5
<1>8. /\ Shape(B \cup {blk}, mem', heads, owned, {blk}, blk + size)
      /\ FreeOf(mem', blk, size) /\ Keeps(mem', mem, owned)
  BY <1>3, <1>6, <1>7, ShapeExtended
<1>9. mem'[blk].size = size
  BY <1>8 DEF FreeOf
<1>10. /\ Shape(B \cup {blk}, mem', heads', owned', {}, blk + size)
       /\ BlockClass(size) >= 0 => NonEmpty(heads', BlockClass(size))
       /\ Others(heads', heads, BlockClass(size))
  BY <1>2, <1>5, <1>6, <1>8, <1>9, ShapeFiled
<1>11. NonEmpty(heads, LastClass) => NonEmpty(heads', LastClass)
  BY <1>10, Sizes DEF NonEmpty, Others, LastClass
<1>12. PartWords >= FullSize => blk # 0 \/ NonEmpty(heads', LastClass)
  <2>1. PartWords >= FullSize /\ blk = 0 => i = LastClass
    BY <1>4, <1>5
  <2>2. LastClass >= 0
    BY <1>4 DEF LastClass
  <2>3. QED
    BY <1>4, <1>5, <1>10, <2>1, <2>2
<1>13. PartWords >= FullSize => NonEmpty(heads', LastClass)
  <2>1. PartWords >= FullSize => blk = 0 \/ NonEmpty(heads, LastClass)
    BY <1>2 DEF SegInv, FullInv, At
  <2>2. QED
    BY <1>11, <1>12, <2>1
<1>14. CASE size = left
  <2>1. frame' = NoCall /\ frame'.pc = "idle" /\ frame' \in Frames
    BY <1>6, <1>14, TypeNow DEF NoCall, Frames, SegInv
  <2>2. blk + size = PartWords
    BY <1>4, <1>14
  <2>3. SegTypeOK' /\ ShapeInv'
    BY <1>10, <2>1, <2>2, ShapeNext DEF Handy
  <2>4. QED
    BY <1>8, <1>13, <2>1, <2>3 DEF SegInv, StageInv, FullInv, At
<1>15. CASE size # left
  <2>1. blk + size \in Words
    BY <1>1, <1>4, <1>5, <1>15 DEF Words
  <2>2. frame' = [frame EXCEPT !.blk = blk + size]
    BY <1>6, <1>15
  <2>3. frame'.pc = "reclass" /\ frame'.blk = blk + size /\ frame' \in Frames
    BY <1>1, <1>2, <2>1, <2>2 DEF Frames
  <2>4. SegTypeOK' /\ ShapeInv'
    BY <1>10, <2>3, ShapeNext DEF Handy
  <2>5. QED
    BY <1>2, <1>8, <1>13, <2>3, <2>4 DEF SegInv, StageInv, FullInv, At
<1>16. QED
  BY <1>14, <1>15

LEMMA StepFreeCall ==
  ASSUME SegInv, FreeCall
  PROVE  SegInv' /\ Keeps(mem', mem, owned')
<1>1. /\ mem \in Mem /\ heads \in Lists /\ frame \in Frames /\ 0 \in Words
  BY TypeNow DEF SegInv
<1>2. frame.pc = "idle" /\ heads' = heads
  BY DEF FreeCall, At
<1>3. PICK B \in SUBSET Words : Shape(B, mem, heads, owned, {}, PartWords)
  BY <1>2, ShapeNow DEF SegInv
<1>4. PICK b \in owned :
        /\ owned' = owned \ {b} /\ mem' = Cleared(mem, b, mem[b].size)
        /\ frame' = [NoCall EXCEPT !.pc = "forward", !.blk = b]
  BY DEF FreeCall, Cleared
<1>5. /\ Shape(B, mem', heads', owned', {b}, PartWords)
      /\ FreeOf(mem', b, mem[b].size) /\ mem[b].size < MaxSize /\ b \in Words
      /\ Keeps(mem', mem, owned')
  BY <1>2, <1>3, <1>4, ShapeFreed
<1>6. frame' \in Frames /\ frame'.pc = "forward" /\ frame'.blk = b
  BY <1>4, <1>5 DEF Frames, NoCall, Running
<1>7. SegTypeOK' /\ ShapeInv'
  BY <1>5, <1>6, ShapeNext DEF Handy
<1>8. mem'[b].size < MaxSize
  BY <1>5 DEF FreeOf
<1>9. QED
  BY <1>5, <1>6, <1>7, <1>8 DEF SegInv, StageInv, FullInv, At

(* A merge ends with a block in hand that is not too large for a list, and *)
(* with one of the largest class listed when it was.                       *)
Settled(b, m, hs, next) ==
  \E C, c :
    /\ Shape(C, mem', heads', owned, {c}, PartWords) /\ c \in Words
    /\ Small(mem', c) /\ Keeps(mem', m, owned)
    /\ frame' \in Frames /\ frame'.blk = c
    /\ Small(m, b) => c = b /\ heads' = hs /\ frame'.pc = frame.pc
    /\ ~Small(m, b) => NonEmpty(heads', LastClass) /\ frame'.pc = next

LEMMA SettleShape ==
  ASSUME NEW B, NEW b, NEW m, NEW hs, NEW next \in Running, Settle(b, m, hs, next),
         frame \in Frames, Shape(B, m, hs, owned, {b}, PartWords),
         NEW s \in Nat, NEW t \in Nat, s <= FullSize, t <= FullSize, FreeOf(m, b, s + t)
  PROVE  Settled(b, m, hs, next)
<1>1. b \in Words /\ m[b].size \in Nat /\ m[b].size <= FullSize + FullSize
  BY Sizes DEF Shape, Tiling, FreeOf
<1>2. CASE m[b].size < MaxSize
  <2>1. mem' = m /\ heads' = hs /\ frame' = [frame EXCEPT !.blk = b]
    BY <1>2 DEF Settle
  <2>2. frame'.blk = b /\ frame'.pc = frame.pc /\ frame' \in Frames
    BY <1>1, <2>1 DEF Frames
  <2>3. Keeps(mem', m, owned)
    BY <2>1 DEF Keeps
  <2>4. Small(m, b) /\ Small(mem', b)
    BY <1>2, <2>1 DEF Small
  <2>5. QED
    BY <1>1, <2>1, <2>2, <2>3, <2>4 DEF Settled
<1>3. CASE ~(m[b].size < MaxSize)
  <2> DEFINE c == b + BlockSize(LastClass)
  <2>1. /\ mem' = Cleared(Cleared(m, b, BlockSize(LastClass)), c, m[b].size - BlockSize(LastClass))
        /\ heads' = segregated_fits_insert_block_head(hs, LastClass, b)
        /\ frame' = [frame EXCEPT !.pc = next, !.blk = c]
    BY <1>3 DEF Settle, LastClass, Cleared
  <2>2. /\ LastClass \in Classes /\ BlockSize(LastClass) < m[b].size
        /\ m[b].size - BlockSize(LastClass) < MaxSize
    BY <1>1, <1>3, Sizes DEF FullSize, LastClass
  <2>3. /\ Shape(B \cup {c}, mem', heads', owned, {c}, PartWords)
        /\ FreeOf(mem', c, m[b].size - BlockSize(LastClass)) /\ Keeps(mem', m, owned)
        /\ c \in Words /\ NonEmpty(heads', LastClass)
    BY <2>1, <2>2, ShapeCut
  <2>4. frame'.blk = c /\ frame'.pc = next /\ frame' \in Frames
    BY <2>1, <2>3 DEF Frames
  <2>5. ~Small(m, b) /\ Small(mem', c)
    BY <1>3, <2>2, <2>3 DEF FreeOf, Small
  <2> HIDE DEF c
  <2>6. QED
    BY <2>3, <2>4, <2>5 DEF Settled
<1>4. QED
  BY <1>2, <1>3

(* The neighbours that the merges look at are the blocks before and behind *)
(* the one in hand.                                                        *)
PrevOf(m, x) == x - m[x - 1].size
Adjacent(m, b, c) == c = b + m[b].size
SameTag(m, v, w) == m[v] = m[w]

LEMMA Before ==
  ASSUME NEW B, NEW m, NEW hs, NEW own, NEW x, Shape(B, m, hs, own, {x}, PartWords), x > 0
  PROVE  /\ x \in B /\ PrevOf(m, x) \in B
         /\ SameTag(m, PrevOf(m, x), x - 1) /\ Adjacent(m, PrevOf(m, x), x)
<1>1. m \in Mem /\ Tiling(B, m, PartWords) /\ x \in B
  BY DEF Shape
<1> DEFINE c == x - m[x - 1].size
<1>2. m[x - 1].size <= x /\ c \in B /\ m[c] = m[x - 1]
  BY <1>1, BlockBefore
<1>3. c \in Nat /\ m[c].size \in Nat /\ x \in Nat
  BY <1>1, <1>2, BlockNumbers
<1>4. x = c + m[c].size
  <2>1. c = x - m[c].size
    BY <1>2
  <2> HIDE DEF c
  <2>2. QED
    BY <1>3, <2>1
<1>5. QED
  BY <1>1, <1>2, <1>4 DEF PrevOf, SameTag, Adjacent

LEMMA Behind ==
  ASSUME NEW B, NEW m, NEW hs, NEW own, NEW x, Shape(B, m, hs, own, {x}, PartWords)
  PROVE  /\ x \in B /\ x + m[x].size \in Nat /\ x + m[x].size <= PartWords
         /\ m[x].size \in Nat /\ x \in Nat
         /\ x + m[x].size # PartWords => x + m[x].size \in B
<1>1. m \in Mem /\ Tiling(B, m, PartWords) /\ x \in B
  BY DEF Shape
<1>2. x \in Nat /\ m[x].size \in Nat /\ x + m[x].size <= PartWords
  BY <1>1, BlockNumbers
<1>3. QED
  BY <1>1, <1>2, NextBlock

LEMMA StepMergeForward ==
  ASSUME SegInv, MergeForward
  PROVE  SegInv' /\ Keeps(mem', mem, owned)
<1> DEFINE x == frame.blk
           c == PrevOf(mem, x)
           n == Fuse(mem, c, mem[c].size, mem[x].size)
           ls == Unlist(heads, c, mem[c].size)
<1>1. /\ mem \in Mem /\ heads \in Lists /\ frame \in Frames
      /\ x \in Words /\ x \in Nat
  BY TypeNow DEF SegInv
<1>2. /\ frame.pc = "forward" /\ x > 0 /\ ~mem[x - 1].used /\ owned' = owned
      /\ mem[x].size < MaxSize
  BY DEF MergeForward, CanMergeForward, Mergeable, At, SegInv, StageInv
<1>3. PICK B \in SUBSET Words : Shape(B, mem, heads, owned, {x}, PartWords)
  BY <1>2, ShapeNow DEF SegInv, Handy
<1>4. x \in B /\ c \in B /\ mem[c] = mem[x - 1] /\ x = c + mem[c].size
  <2>1. x \in B /\ c \in B /\ SameTag(mem, c, x - 1) /\ Adjacent(mem, c, x)
    BY <1>2, <1>3, Before
  <2>2. QED
    BY <2>1 DEF SameTag, Adjacent
<1>5. Settle(c, n, ls, "backward")
  <2>1. mem[x - 1].size = mem[c].size
    BY <1>4
  <2>2. Settle(c, Fuse(mem, c, mem[x - 1].size, mem[x].size),
               Unlist(heads, c, mem[x - 1].size), "backward")
    BY DEF MergeForward, PrevOf
  <2>3. QED
    BY <2>1, <2>2
<1>6. ~mem[c].used
  BY <1>2, <1>4
<1> HIDE DEF c
<1>7. /\ Shape(B \ {x}, n, ls, owned, {c}, PartWords)
      /\ FreeOf(n, c, mem[c].size + mem[x].size) /\ Keeps(n, mem, owned)
      /\ Small(mem, c) /\ mem[c].size \in Nat /\ mem[x].size \in Nat
  <2>1. Shape(B \ {x}, n, ls, owned, {c}, PartWords)
    BY <1>3, <1>4, <1>6, ShapeFused
  <2>2. FreeOf(n, c, mem[c].size + mem[x].size) /\ Keeps(n, mem, owned)
    BY <1>3, <1>4, <1>6, ShapeFused
  <2>4. mem[c].size \in Nat /\ mem[x].size \in Nat /\ mem[c].size > 0 /\ c \in Nat
    BY <1>3, <1>4, BlockNumbers DEF Shape
  <2>3. Small(mem, c)
    <3>1. c # x
      BY <1>4, <2>4
    <3>2. QED
      BY <1>3, <1>4, <3>1 DEF Shape, Small
  <2>5. QED
    BY <2>1, <2>2, <2>3, <2>4
<1>8. mem[c].size <= FullSize /\ mem[x].size <= FullSize
  BY <1>2, <1>7, Sizes DEF Small
<1> HIDE DEF n, ls
<1>9. Settled(c, n, ls, "backward")
  <2>1. "backward" \in Running
    BY DEF Running
  <2>2. QED
    BY <1>1, <1>5, <1>7, <1>8, <2>1, SettleShape
<1>10. PICK C, d :
           /\ Shape(C, mem', heads', owned, {d}, PartWords)
           /\ Small(mem', d) /\ Keeps(mem', n, owned)
           /\ frame' \in Frames /\ frame'.blk = d
           /\ Small(n, c) => d = c /\ heads' = ls /\ frame'.pc = frame.pc
           /\ ~Small(n, c) => NonEmpty(heads', LastClass) /\ frame'.pc = "backward"
  BY <1>9 DEF Settled
<1>p. frame'.pc = "forward" \/ (frame'.pc = "backward" /\ NonEmpty(heads', LastClass))
  <2>1. CASE Small(n, c)
    BY <1>2, <1>10, <2>1
  <2>2. CASE ~Small(n, c)
    BY <1>10, <2>2
  <2>3. QED
    BY <2>1, <2>2
<1>11. SegTypeOK' /\ ShapeInv'
  BY <1>2, <1>p, <1>10, ShapeNext DEF Handy
<1>12. Keeps(mem', mem, owned)
  BY <1>7, <1>10 DEF Keeps
<1>13. StageInv'
  BY <1>p, <1>10 DEF StageInv, At, Small
<1>14. FullInv'
  BY <1>p, <1>10 DEF FullInv, At
<1>15. QED
  BY <1>11, <1>12, <1>13, <1>14 DEF SegInv

LEMMA StepForwardEnd ==
  ASSUME SegInv, ForwardEnd
  PROVE  SegInv' /\ Keeps(mem', mem, owned)
<1> DEFINE x == frame.blk
<1>1. /\ mem \in Mem /\ heads \in Lists /\ frame \in Frames
      /\ x \in Words /\ x \in Nat
  BY TypeNow DEF SegInv
<1>2. /\ frame.pc = "forward" /\ mem' = mem /\ heads' = heads /\ owned' = owned
      /\ frame' = [frame EXCEPT !.pc = "backward"] /\ ~CanMergeForward
      /\ mem[x].size < MaxSize
  BY DEF ForwardEnd, At, SegInv, StageInv
<1>3. PICK B \in SUBSET Words : Shape(B, mem, heads, owned, {x}, PartWords)
  BY <1>2, ShapeNow DEF SegInv, Handy
<1>4. frame' \in Frames /\ frame'.pc = "backward" /\ frame'.blk = x
  BY <1>1, <1>2 DEF Frames, Running
<1>5. SegTypeOK' /\ ShapeInv'
  BY <1>2, <1>3, <1>4, ShapeNext DEF Handy
<1>6. owned = {} => x = 0
  <2>1. SUFFICES ASSUME owned = {}, x > 0 PROVE FALSE
    BY <1>1
  <2>2. x \in B /\ PrevOf(mem, x) \in B /\ SameTag(mem, PrevOf(mem, x), x - 1)
        /\ Adjacent(mem, PrevOf(mem, x), x)
    BY <1>3, <2>1, Before
  <2> DEFINE c == PrevOf(mem, x)
  <2> HIDE DEF c
  <2>3. c \in B /\ mem[c] = mem[x - 1] /\ x = c + mem[c].size
    BY <2>2 DEF c, SameTag, Adjacent
  <2>4. mem[c].size \in Nat /\ mem[c].size > 0 /\ c \in Nat
    BY <1>3, <2>3, BlockNumbers DEF Shape
  <2>5. c # x
    BY <2>3, <2>4
  <2>6. ~mem[c].used /\ mem[c].size < MaxSize
    BY <1>3, <2>1, <2>3, <2>5 DEF Shape
  <2>7. ~mem[x - 1].used /\ mem[x - 1].size # MaxSize
    BY <2>3, <2>4, <2>6, Sizes
  <2>8. QED
    BY <1>2, <2>1, <2>7 DEF CanMergeForward, Mergeable
<1>7. QED
  BY <1>2, <1>4, <1>5, <1>6 DEF SegInv, StageInv, FullInv, At, Keeps

LEMMA StepMergeBackward ==
  ASSUME SegInv, MergeBackward
  PROVE  SegInv' /\ Keeps(mem', mem, owned)
<1> DEFINE x == frame.blk
           c == NextOf(x)
           n == Fuse(mem, x, mem[x].size, mem[c].size)
           ls == Unlist(heads, c, mem[c].size)
           k == BlockClass(mem[c].size)
<1>1. /\ mem \in Mem /\ heads \in Lists /\ frame \in Frames
      /\ x \in Words /\ x \in Nat
  BY TypeNow DEF SegInv
<1>2. /\ frame.pc = "backward" /\ c < PartWords /\ ~mem[c].used /\ owned' = owned
      /\ mem[x].size < MaxSize
  BY DEF MergeBackward, CanMergeBackward, Mergeable, At, SegInv, StageInv
<1>3. PICK B \in SUBSET Words : Shape(B, mem, heads, owned, {x}, PartWords)
  BY <1>2, ShapeNow DEF SegInv, Handy
<1>4. /\ x \in B /\ c \in B /\ c = x + mem[x].size
      /\ mem[x].size \in Nat /\ mem[x].size > 0 /\ mem[c].size \in Nat
      /\ mem[c].size > 0 /\ c \in Nat
  <2>1. x \in B /\ x + mem[x].size \in Nat
        /\ (x + mem[x].size # PartWords => x + mem[x].size \in B)
    BY <1>3, Behind
  <2>2. c = x + mem[x].size
    BY DEF NextOf
  <2>3. c \in B
    BY <1>2, <2>1, <2>2, Sizes
  <2> HIDE DEF c
  <2>4. QED
    <3>1. mem \in Mem /\ Tiling(B, mem, PartWords)
      BY <1>3 DEF Shape
    <3>2. mem[x].size \in Nat /\ mem[x].size > 0
      BY <2>1, <3>1, BlockNumbers
    <3>3. mem[c].size \in Nat /\ mem[c].size > 0 /\ c \in Nat
      BY <2>3, <3>1, BlockNumbers
    <3>4. QED
      BY <2>1, <2>2, <2>3, <3>2, <3>3
<1>5. Settle(x, n, ls, "file")
  BY DEF MergeBackward
<1> HIDE DEF c
<1>6. Small(mem, c) /\ c # x
  BY <1>3, <1>4 DEF Shape, Small
<1>7. /\ Shape(B \ {c}, n, ls, owned, {x}, PartWords)
      /\ FreeOf(n, x, mem[x].size + mem[c].size) /\ Keeps(n, mem, owned)
      /\ Others(ls, heads, k)
  <2>1. Shape(B \ {c}, n, ls, owned, {x}, PartWords)
    BY <1>2, <1>3, <1>4, ShapeFused
  <2>2. FreeOf(n, x, mem[x].size + mem[c].size) /\ Keeps(n, mem, owned)
    BY <1>2, <1>3, <1>4, ShapeFused
  <2>3. Others(ls, heads, k)
    <3> DEFINE F == B \ {x}
    <3>1. F \in SUBSET Words /\ Filed(heads, F, mem) /\ c \in F /\ mem[c].size < MaxSize
      BY <1>3, <1>4, <1>6 DEF Shape, Small
    <3> HIDE DEF F
    <3>2. QED
      BY <1>1, <1>2, <3>1, FiledUnlist
  <2>4. QED
    BY <2>1, <2>2, <2>3
<1>8. mem[c].size <= FullSize /\ mem[x].size <= FullSize
  BY <1>2, <1>4, <1>6, Sizes DEF Small
<1>9. NonEmpty(heads, LastClass) /\ Small(n, x) => NonEmpty(ls, LastClass)
  <2>1. SUFFICES ASSUME NonEmpty(heads, LastClass), Small(n, x) PROVE NonEmpty(ls, LastClass)
    OBVIOUS
  <2>2. mem[x].size + mem[c].size < MaxSize
    BY <1>7, <2>1 DEF Small, FreeOf
  <2>3. mem[c].size < FullSize
    BY <1>4, <2>2, Sizes
  <2>4. k # LastClass /\ LastClass \in Classes
    BY <1>4, <2>3, Sizes, PartAssumption DEF BlockClass, LastClass
  <2> HIDE DEF k, ls
  <2>5. QED
    BY <1>7, <2>1, <2>4 DEF Others, NonEmpty
<1> HIDE DEF n, ls, k
<1>10. Settled(x, n, ls, "file")
  <2>1. "file" \in Running
    BY DEF Running
  <2>2. QED
    BY <1>1, <1>4, <1>5, <1>7, <1>8, <2>1, SettleShape
<1>11. PICK C, d :
           /\ Shape(C, mem', heads', owned, {d}, PartWords)
           /\ Small(mem', d) /\ Keeps(mem', n, owned)
           /\ frame' \in Frames /\ frame'.blk = d
           /\ Small(n, x) => d = x /\ heads' = ls /\ frame'.pc = frame.pc
           /\ ~Small(n, x) => NonEmpty(heads', LastClass) /\ frame'.pc = "file"
  BY <1>10 DEF Settled
<1>12. \/ /\ frame'.pc = "backward" /\ d = x
          /\ NonEmpty(heads, LastClass) => NonEmpty(heads', LastClass)
       \/ frame'.pc = "file" /\ NonEmpty(heads', LastClass)
  <2>1. CASE Small(n, x)
    BY <1>2, <1>9, <1>11, <2>1
  <2>2. CASE ~Small(n, x)
    BY <1>11, <2>2
  <2>3. QED
    BY <2>1, <2>2
<1>13. SegTypeOK' /\ ShapeInv'
  BY <1>2, <1>11, <1>12, ShapeNext DEF Handy
<1>14. Keeps(mem', mem, owned)
  BY <1>7, <1>11 DEF Keeps
<1>15. StageInv'
  BY <1>11, <1>12 DEF StageInv, At, Small
<1>16. FullInv'
  BY <1>2, <1>11, <1>12 DEF SegInv, FullInv, At
<1>17. QED
  BY <1>13, <1>14, <1>15, <1>16 DEF SegInv

LEMMA StepBackwardEnd ==
  ASSUME SegInv, BackwardEnd
  PROVE  SegInv' /\ Keeps(mem', mem, owned)
<1> DEFINE x == frame.blk
           c == NextOf(x)
<1>1. /\ mem \in Mem /\ heads \in Lists /\ frame \in Frames
      /\ x \in Words /\ x \in Nat
  BY TypeNow DEF SegInv
<1>2. /\ frame.pc = "backward" /\ mem' = mem /\ heads' = heads /\ owned' = owned
      /\ frame' = [frame EXCEPT !.pc = "file"] /\ ~CanMergeBackward
      /\ mem[x].size < MaxSize
  BY DEF BackwardEnd, At, SegInv, StageInv
<1>3. PICK B \in SUBSET Words : Shape(B, mem, heads, owned, {x}, PartWords)
  BY <1>2, ShapeNow DEF SegInv, Handy
<1>4. frame' \in Frames /\ frame'.pc = "file" /\ frame'.blk = x
  BY <1>1, <1>2 DEF Frames, Running
<1>5. SegTypeOK' /\ ShapeInv'
  BY <1>2, <1>3, <1>4, ShapeNext DEF Handy
<1>6. owned = {} => c = PartWords
  <2>1. SUFFICES ASSUME owned = {}, c # PartWords PROVE FALSE
    OBVIOUS
  <2>2. /\ x \in B /\ c \in Nat /\ c <= PartWords /\ mem[x].size \in Nat
        /\ c # PartWords => c \in B
    BY <1>3, Behind DEF NextOf
  <2>3. c \in B /\ c < PartWords
    BY <2>1, <2>2, Sizes
  <2>4. c = x + mem[x].size /\ mem[x].size > 0
    BY <1>3, <2>2, BlockNumbers DEF Shape, NextOf
  <2> HIDE DEF c
  <2>5. c # x /\ mem[c].size \in Nat
    <3>1. mem \in Mem /\ Tiling(B, mem, PartWords)
      BY <1>3 DEF Shape
    <3>2. mem[c].size \in Nat
      BY <2>3, <3>1, BlockNumbers
    <3>3. QED
      BY <1>1, <2>2, <2>4, <3>2
  <2>6. ~mem[c].used /\ mem[c].size < MaxSize
    BY <1>3, <2>1, <2>3, <2>5 DEF Shape
  <2>7. QED
    BY <1>2, <2>3, <2>5, <2>6, Sizes DEF CanMergeBackward, Mergeable, c
<1>7. owned = {} => x # 0 \/ mem[x].size = PartWords
  <2>1. mem[x].size \in Nat
    BY <1>3, Behind
  <2>2. QED
    BY <1>6, <2>1 DEF NextOf
<1>8. StageInv'
  BY <1>2, <1>4 DEF StageInv, At
<1>9. FullInv'
  BY <1>2, <1>4, <1>7 DEF FullInv, SegInv, At
<1>10. QED
  BY <1>2, <1>5, <1>8, <1>9 DEF SegInv, Keeps

LEMMA StepFileFree ==
  ASSUME SegInv, FileFree
  PROVE  SegInv' /\ Keeps(mem', mem, owned)
<1> DEFINE x == frame.blk
           k == BlockClass(mem[x].size)
<1>1. /\ mem \in Mem /\ heads \in Lists /\ frame \in Frames
      /\ x \in Words /\ x \in Nat /\ 0 \in Words
  BY TypeNow DEF SegInv
<1>2. /\ frame.pc = "file" /\ mem' = mem /\ owned' = owned
      /\ heads' = FiledIn(heads, k, x) /\ frame' = NoCall
      /\ mem[x].size < MaxSize
  BY DEF FileFree, FiledIn, At, SegInv, StageInv
<1>3. PICK B \in SUBSET Words : Shape(B, mem, heads, owned, {x}, PartWords)
  BY <1>2, ShapeNow DEF SegInv, Handy
<1>4. frame' \in Frames /\ frame'.pc = "idle"
  BY <1>1, <1>2 DEF Frames, NoCall
<1>5. /\ Shape(B, mem', heads', owned', {}, PartWords)
      /\ k >= 0 => NonEmpty(heads', k)
      /\ Others(heads', heads, k)
  BY <1>2, <1>3, ShapeFiled
<1>6. SegTypeOK' /\ ShapeInv'
  BY <1>4, <1>5, ShapeNext DEF Handy
<1>7. NonEmpty(heads, LastClass) => NonEmpty(heads', LastClass)
  BY <1>5, Sizes DEF Others, NonEmpty, LastClass
<1>8. PartWords >= FullSize /\ mem[x].size = PartWords => NonEmpty(heads', LastClass)
  <2>1. PartWords >= FullSize /\ mem[x].size = PartWords => k = LastClass /\ LastClass >= 0
    BY <1>2, Sizes, PartAssumption DEF BlockClass, LastClass
  <2> HIDE DEF k
  <2>2. QED
    BY <1>5, <2>1
<1>9. FullInv'
  BY <1>2, <1>4, <1>7, <1>8 DEF FullInv, SegInv, At
<1>10. QED
  BY <1>2, <1>4, <1>6, <1>9 DEF SegInv, StageInv, At, Keeps

LEMMA StepGetCall ==
  ASSUME SegInv, GetCall
  PROVE  SegInv' /\ Keeps(mem', mem, owned)
<1>1. /\ mem \in Mem /\ heads \in Lists /\ frame \in Frames /\ 0 \in Words
  BY TypeNow DEF SegInv
<1>2. /\ frame.pc = "idle" /\ mem' = mem /\ heads' = heads /\ owned' = owned
  BY DEF GetCall, At
<1>3. PICK r \in Requests : /\ class_ceil_index(r) < ClassCount
                           /\ frame' = [NoCall EXCEPT !.pc = "take", !.want = r]
  BY DEF GetCall
<1>4. PICK B \in SUBSET Words : Shape(B, mem, heads, owned, {}, PartWords)
  BY <1>2, ShapeNow DEF SegInv
<1>5. frame' \in Frames /\ frame'.pc = "take" /\ frame'.want = r
  BY <1>1, <1>3 DEF Frames, NoCall, Running
<1>6. r \in Nat /\ class_ceil_index(r) \in Classes
  BY <1>3, PartAssumption DEF class_ceil_index, Classes
<1>7. SegTypeOK' /\ ShapeInv'
  BY <1>2, <1>4, <1>5, ShapeNext DEF Handy
<1>8. StageInv'
  BY <1>5, <1>6 DEF StageInv, At
<1>9. FullInv'
  BY <1>2, <1>5 DEF FullInv, SegInv, At
<1>10. QED
  BY <1>2, <1>7, <1>8, <1>9 DEF SegInv, Keeps

LEMMA StepGetBeyond ==
  ASSUME SegInv, GetBeyond
  PROVE  SegInv' /\ Keeps(mem', mem, owned)
<1>1. /\ mem \in Mem /\ heads \in Lists /\ frame \in Frames /\ 0 \in Words
  BY TypeNow DEF SegInv
<1>2. /\ frame.pc = "idle" /\ mem' = mem /\ heads' = heads /\ owned' = owned
  BY DEF GetBeyond, At
<1>3. PICK r \in Requests : frame' = [NoCall EXCEPT !.pc = "read_past", !.want = r]
  BY DEF GetBeyond
<1>4. PICK B \in SUBSET Words : Shape(B, mem, heads, owned, {}, PartWords)
  BY <1>2, ShapeNow DEF SegInv
<1>5. frame' \in Frames /\ frame'.pc = "read_past"
  BY <1>1, <1>3 DEF Frames, NoCall
<1>6. SegTypeOK' /\ ShapeInv'
  BY <1>2, <1>4, <1>5, ShapeNext DEF Handy
<1>7. QED
  BY <1>2, <1>5, <1>6 DEF SegInv, StageInv, FullInv, At, Keeps

LEMMA StepTake ==
  ASSUME SegInv, Take
  PROVE  LET b == Head(heads[class_ceil_index(frame.want)])
         IN  /\ SegInv' /\ Keeps(mem', mem, owned)
             /\ frame' = NoCall /\ owned' = owned \cup {b} /\ b \in Words /\ b \notin owned
             /\ mem'[b].size = class_ceil_index(frame.want) + 3
<1> DEFINE k == class_ceil_index(frame.want)
           b == Head(heads[k])
<1>1. /\ mem \in Mem /\ heads \in Lists /\ frame \in Frames /\ 0 \in Words
  BY TypeNow DEF SegInv
<1>2. /\ frame.pc = "take" /\ NonEmpty(heads, k) /\ k \in Classes
      /\ mem' = Marked(mem, b, mem[b].size) /\ heads' = Popped(heads, k)
      /\ owned' = owned \cup {b} /\ frame' = NoCall
  <2>1. frame.pc = "take" /\ NonEmpty(heads, k) /\ k \in Classes
    BY DEF Take, At, NonEmpty, SegInv, StageInv
  <2>2. mem' = Marked(mem, b, mem[b].size)
    BY DEF Take, Marked
  <2>3. heads' = Popped(heads, k) /\ owned' = owned \cup {b} /\ frame' = NoCall
    BY DEF Take, Popped
  <2>4. QED
    BY <2>1, <2>2, <2>3
<1>3. PICK B \in SUBSET Words : Shape(B, mem, heads, owned, {}, PartWords)
  BY <1>2, ShapeNow DEF SegInv
<1>4. /\ Shape(B, mem, heads', owned, {b}, PartWords)
      /\ FreeOf(mem, b, BlockSize(k)) /\ b \in Words /\ b \notin owned
  BY <1>2, <1>3, ShapeTaken
<1> HIDE DEF b, k
<1>5. mem[b].size = BlockSize(k) /\ BlockSize(k) < MaxSize /\ BlockSize(k) = k + 3
  BY <1>2, <1>4, Sizes DEF FreeOf
<1>6. /\ Shape(B, mem', heads', owned', {}, PartWords)
      /\ UsedOf(mem', b, mem[b].size) /\ Keeps(mem', mem, owned)
  BY <1>2, <1>4, <1>5, ShapeGiven
<1>7. frame' \in Frames /\ frame'.pc = "idle"
  BY <1>1, <1>2 DEF Frames, NoCall
<1>8. SegTypeOK' /\ ShapeInv'
  BY <1>6, <1>7, ShapeNext DEF Handy
<1>9. StageInv' /\ FullInv'
  <2>1. owned' # {}
    BY <1>2
  <2>2. QED
    BY <1>7, <2>1 DEF StageInv, FullInv, At
<1>10. mem'[b].size = k + 3
  BY <1>5, <1>6 DEF UsedOf
<1>11. QED
  BY <1>2, <1>4, <1>6, <1>8, <1>9, <1>10 DEF SegInv, b, k

LEMMA StepGetFails ==
  ASSUME SegInv, GetFails
  PROVE  SegInv' /\ Keeps(mem', mem, owned)
<1>1. /\ mem \in Mem /\ heads \in Lists /\ frame \in Frames /\ 0 \in Words
  BY TypeNow DEF SegInv
<1>2. /\ frame.pc = "take" /\ mem' = mem /\ heads' = heads /\ owned' = owned
      /\ frame' = NoCall /\ ~NonEmpty(heads, class_ceil_index(frame.want))
  BY DEF GetFails, At, NonEmpty
<1>3. PICK B \in SUBSET Words : Shape(B, mem, heads, owned, {}, PartWords)
  BY <1>2, ShapeNow DEF SegInv
<1>4. frame' \in Frames /\ frame'.pc = "idle"
  BY <1>1, <1>2 DEF Frames, NoCall
<1>5. SegTypeOK' /\ ShapeInv'
  BY <1>2, <1>3, <1>4, ShapeNext DEF Handy
<1>6. FullInv'
  BY <1>2, <1>4 DEF FullInv, SegInv, At
<1>7. QED
  BY <1>2, <1>4, <1>5, <1>6 DEF SegInv, StageInv, At, Keeps

(* The first of a nonempty set of classes is in the set.                   *)
LEMMA FirstIn ==
  ASSUME NEW S \in SUBSET Classes, S # {}
  PROVE  First(S) \in S /\ \A j \in S : First(S) <= j
<1>1. S \in SUBSET Nat
  BY Sizes
<1>2. \E i \in S : \A j \in S : i <= j
  BY <1>1, LeastNatural
<1>3. QED
  BY <1>2 DEF First

LEMMA StepDivide ==
  ASSUME SegInv, Divide
  PROVE  SegInv' /\ Keeps(mem', mem, owned) /\ frame'.want = frame.want
<1> DEFINE i == class_ceil_index(frame.want)
           j == First(Larger)
           a == Head(heads[j])
           ls == Popped(heads, j)
           b == a + BlockSize(i)
<1>1. /\ mem \in Mem /\ heads \in Lists /\ frame \in Frames
      /\ frame.want \in Requests \cup {0}
  BY TypeNow DEF SegInv
<1>2. /\ frame.pc = "take" /\ i \in Classes /\ frame.want \in Nat /\ Larger # {}
      /\ owned' = owned /\ frame' = [frame EXCEPT !.pc = "absorb", !.blk = b]
  BY DEF Divide, At, SegInv, StageInv
<1>3. /\ mem' = Cleared(Cleared(mem, a, BlockSize(i)), b, mem[a].size - BlockSize(i))
      /\ heads' = segregated_fits_insert_block_head(ls, i, a)
  BY DEF Divide, Cleared, Popped
<1>4. j \in Classes /\ j > i /\ NonEmpty(heads, j)
  <2>1. Larger \in SUBSET Classes
    BY DEF Larger
  <2>2. j \in Larger
    BY <1>2, <2>1, FirstIn
  <2>3. QED
    BY <2>2 DEF Larger, NonEmpty
<1>5. PICK B \in SUBSET Words : Shape(B, mem, heads, owned, {}, PartWords)
  BY <1>2, ShapeNow DEF SegInv
<1> HIDE DEF i, j
<1>6. /\ Shape(B, mem, ls, owned, {a}, PartWords)
      /\ FreeOf(mem, a, BlockSize(j)) /\ a \in Words
  BY <1>4, <1>5, ShapeTaken
<1> HIDE DEF a, ls
<1>7. BlockSize(i) < mem[a].size /\ mem[a].size < MaxSize /\ BlockSize(i) \in Nat \ {0}
  BY <1>2, <1>4, <1>6, Sizes DEF FreeOf
<1>8. /\ Shape(B \cup {b}, mem', heads', owned, {b}, PartWords)
      /\ FreeOf(mem', b, mem[a].size - BlockSize(i)) /\ Keeps(mem', mem, owned)
      /\ b \in Words
  BY <1>2, <1>3, <1>6, <1>7, ShapeCut
<1>9. frame' \in Frames /\ frame'.pc = "absorb" /\ frame'.blk = b /\ frame'.want = frame.want
  BY <1>1, <1>2, <1>8 DEF Frames, Running
<1>10. SegTypeOK' /\ ShapeInv'
  BY <1>2, <1>8, <1>9, ShapeNext DEF Handy
<1>11. StageInv'
  BY <1>2, <1>9 DEF StageInv, At, i
<1>12. a \in Range(heads'[i]) /\ a < b
  <2>1. ls[i] \in Seq(Words) /\ ls \in Lists
    BY <1>2, <1>6 DEF Shape, Lists
  <2>2. heads'[i] = <<a>> \o ls[i]
    BY <1>2, <1>3, <2>1 DEF segregated_fits_insert_block_head, Lists
  <2>3. heads'[i][1] = a /\ 1 \in DOMAIN heads'[i]
    BY <1>6, <2>1, <2>2
  <2>4. a < b
    BY <1>6, <1>7, Sizes DEF b
  <2>5. QED
    BY <2>3, <2>4 DEF Range
<1>13. FullInv'
  BY <1>9, <1>12 DEF FullInv, At, i
<1>14. QED
  BY <1>8, <1>9, <1>10, <1>11, <1>13 DEF SegInv

LEMMA StepAbsorb ==
  ASSUME SegInv, Absorb
  PROVE  SegInv' /\ Keeps(mem', mem, owned)
<1> DEFINE x == frame.blk
           c == NextOf(x)
           w == class_ceil_index(frame.want)
<1>1. /\ mem \in Mem /\ heads \in Lists /\ frame \in Frames
      /\ x \in Words /\ x \in Nat
  BY TypeNow DEF SegInv
<1>2. /\ frame.pc = "absorb" /\ c < PartWords /\ ~mem[c].used
      /\ owned' = owned /\ frame' = frame
      /\ mem' = Fuse(mem, x, mem[x].size, mem[c].size)
      /\ heads' = Unlist(heads, c, mem[c].size)
      /\ frame.want \in Nat /\ w \in Classes
  BY DEF Absorb, CanMergeBackward, Mergeable, At, SegInv, StageInv
<1>3. PICK B \in SUBSET Words : Shape(B, mem, heads, owned, {x}, PartWords)
  BY <1>2, ShapeNow DEF SegInv, Handy
<1>4. mem \in Mem /\ Tiling(B, mem, PartWords)
  BY <1>3 DEF Shape
<1>5. /\ x \in B /\ c = x + mem[x].size /\ x + mem[x].size \in Nat
      /\ x + mem[x].size # PartWords => x + mem[x].size \in B
  BY <1>3, Behind DEF NextOf
<1>6. c \in B /\ mem[x].size \in Nat /\ mem[x].size > 0
  <2>1. c \in B
    BY <1>2, <1>5, Sizes
  <2>2. mem[x].size \in Nat /\ mem[x].size > 0
    BY <1>4, <1>5, BlockNumbers
  <2>3. QED
    BY <2>1, <2>2
<1> HIDE DEF c
<1>7. c \in Nat /\ c > x /\ c # x
  BY <1>1, <1>5, <1>6
<1>8. Shape(B \ {c}, mem', heads', owned', {x}, PartWords)
  BY <1>2, <1>3, <1>5, <1>6, ShapeFused
<1>9. Keeps(mem', mem, owned)
  BY <1>2, <1>3, <1>5, <1>6, ShapeFused
<1>10. SegTypeOK' /\ ShapeInv'
  BY <1>1, <1>2, <1>8, ShapeNext DEF Handy
<1>11. StageInv'
  BY <1>2 DEF StageInv, At
<1>12. ASSUME NEW a \in Range(heads[w]), a < x
       PROVE  a \in Range(heads'[w])
  <2> DEFINE G == B \ {x}
  <2>1. G \in SUBSET Words /\ Filed(heads, G, mem) /\ c \in G /\ mem[c].size < MaxSize
    <3>1. c \in G
      BY <1>6, <1>7
    <3>2. Filed(heads, G, mem) /\ \A b \in G : mem[b].size < MaxSize
      BY <1>3 DEF Shape
    <3>3. QED
      BY <3>1, <3>2
  <2> HIDE DEF G
  <2>2. Filed(heads', G \ {c}, mem)
    BY <1>1, <1>2, <2>1, FiledUnlist
  <2>3. a \in G /\ ~mem[a].used /\ mem[a].size = BlockSize(w)
    BY <1>2, <2>1 DEF Filed
  <2>4. a # c
    BY <1>1, <1>7, <1>12, <2>1, <2>3, Sizes
  <2>5. QED
    BY <1>2, <2>2, <2>3, <2>4 DEF Filed
<1>13. FullInv'
  <2>1. SUFFICES ASSUME PartWords >= FullSize, owned = {}
                 PROVE  \E a \in Range(heads'[w]) : a < x
    BY <1>2 DEF FullInv, At
  <2>2. PICK a \in Range(heads[w]) : a < x
    BY <1>2, <2>1 DEF SegInv, FullInv, At
  <2>3. QED
    BY <1>12, <2>2
<1>14. QED
  BY <1>9, <1>10, <1>11, <1>13 DEF SegInv

LEMMA StepFileBack ==
  ASSUME SegInv, FileBack
  PROVE  SegInv' /\ Keeps(mem', mem, owned)
<1> DEFINE x == frame.blk
           k == BlockClass(mem[x].size)
           w == class_ceil_index(frame.want)
<1>1. /\ mem \in Mem /\ heads \in Lists /\ frame \in Frames
      /\ x \in Words /\ x \in Nat /\ 0 \in Words
  BY TypeNow DEF SegInv
<1>2. /\ frame.pc = "absorb" /\ mem' = mem /\ owned' = owned /\ k < ClassCount
      /\ heads' = FiledIn(heads, k, x)
      /\ frame' = [frame EXCEPT !.pc = "take", !.blk = 0]
      /\ frame.want \in Nat /\ w \in Classes
  BY DEF FileBack, FiledIn, At, SegInv, StageInv
<1>3. PICK B \in SUBSET Words : Shape(B, mem, heads, owned, {x}, PartWords)
  BY <1>2, ShapeNow DEF SegInv, Handy
<1>4. mem[x].size < MaxSize
  <2>1. mem[x].size \in Nat
    BY <1>3, Behind
  <2>2. QED
    BY <1>2, <2>1, Sizes, PartAssumption DEF BlockClass, FullSize
<1>5. /\ frame' \in Frames /\ frame'.pc = "take" /\ frame'.want = frame.want
  BY <1>1, <1>2 DEF Frames, Running
<1>6. /\ Shape(B, mem', heads', owned', {}, PartWords)
      /\ k >= 0 => NonEmpty(heads', k)
      /\ Others(heads', heads, k)
  BY <1>2, <1>3, <1>4, ShapeFiled
<1>7. SegTypeOK' /\ ShapeInv'
  BY <1>5, <1>6, ShapeNext DEF Handy
<1>8. StageInv'
  BY <1>2, <1>5 DEF StageInv, At
<1>9. FullInv'
  <2>1. SUFFICES ASSUME PartWords >= FullSize, owned = {}
                 PROVE  NonEmpty(heads', w)
    BY <1>2, <1>5 DEF FullInv, At
  <2>2. PICK a \in Range(heads[w]) : a < x
    BY <1>2, <2>1 DEF SegInv, FullInv, At
  <2>3. NonEmpty(heads, w)
    BY <2>2 DEF Range, NonEmpty
  <2>4. CASE w = k
    BY <1>2, <1>6, <2>4, Sizes
  <2>5. CASE w # k
    BY <1>2, <1>6, <2>3, <2>5 DEF Others, NonEmpty
  <2>6. QED
    BY <2>4, <2>5
<1>10. QED
  BY <1>2, <1>7, <1>8, <1>9 DEF SegInv, Keeps

LEMMA StepFileBeyond ==
  ASSUME SegInv, FileBeyond
  PROVE  SegInv' /\ Keeps(mem', mem, owned)
<1>1. /\ frame \in Frames
  BY TypeNow DEF SegInv
<1>2. /\ frame.pc = "absorb" /\ mem' = mem /\ owned' = owned /\ heads' = heads
      /\ frame' = [frame EXCEPT !.pc = "file_past"]
  BY DEF FileBeyond, At
<1>3. PICK B \in SUBSET Words : Shape(B, mem, heads, owned, {frame.blk}, PartWords)
  BY <1>2, ShapeNow DEF SegInv, Handy
<1>4. frame' \in Frames /\ frame'.pc = "file_past" /\ frame'.blk = frame.blk
  BY <1>1, <1>2 DEF Frames
<1>5. SegTypeOK' /\ ShapeInv'
  BY <1>2, <1>3, <1>4, ShapeNext DEF Handy
<1>6. QED
  BY <1>2, <1>4, <1>5 DEF SegInv, StageInv, FullInv, At, Keeps

------------------------------------------------------------------------------
LEMMA SegInvStep == SegInv /\ [SegNext]_segVars => SegInv'
<1> SUFFICES ASSUME SegInv, [SegNext]_segVars PROVE SegInv'
  OBVIOUS
<1>1. CASE GetCall
  BY <1>1, StepGetCall
<1>2. CASE GetBeyond
  BY <1>2, StepGetBeyond
<1>3. CASE FreeCall
  BY <1>3, StepFreeCall
<1>4. CASE Reclass
  BY <1>4, StepReclass
<1>5. CASE MergeForward
  BY <1>5, StepMergeForward
<1>6. CASE ForwardEnd
  BY <1>6, StepForwardEnd
<1>7. CASE MergeBackward
  BY <1>7, StepMergeBackward
<1>8. CASE BackwardEnd
  BY <1>8, StepBackwardEnd
<1>9. CASE FileFree
  BY <1>9, StepFileFree
<1>10. CASE Take
  BY <1>10, StepTake
<1>11. CASE GetFails
  BY <1>11, StepGetFails
<1>12. CASE Divide
  BY <1>12, StepDivide
<1>13. CASE Absorb
  BY <1>13, StepAbsorb
<1>14. CASE FileBack
  BY <1>14, StepFileBack
<1>15. CASE FileBeyond
  BY <1>15, StepFileBeyond
<1>16. CASE UNCHANGED segVars
  BY <1>16 DEF segVars, SegInv, SegTypeOK, StageInv, ShapeInv, FullInv, At, InHand, Top
<1>17. QED
  BY <1>1, <1>2, <1>3, <1>4, <1>5, <1>6, <1>7, <1>8, <1>9, <1>10, <1>11, <1>12, <1>13,
     <1>14, <1>15, <1>16 DEF SegNext, CallStep

(* In every state the blocks tile the partition and the lists hold the     *)
(* free ones.                                                              *)
THEOREM SegInvariant == SegSpec => []SegInv
<1>1. SegInit => SegInv
  BY SegInitInv
<1>2. SegInv /\ [SegNext]_segVars => SegInv'
  BY SegInvStep
<1>3. QED
  BY <1>1, <1>2, PTL DEF SegSpec

(* Every variable has its type.                                            *)
THEOREM SegTyped == SegSpec => []SegTypeOK
<1>1. SegInv => SegTypeOK
  BY DEF SegInv
<1>2. QED
  BY <1>1, SegInvariant, PTL

------------------------------------------------------------------------------
(* BlocksFrom is a recursive function on the addresses: it walks the tags  *)
(* upwards, and a walk ends where there is no tag.  That such a function   *)
(* exists is shown from the end of the partition downwards.                *)
After(f, b) == IF NextOf(b) > PartWords THEN {} ELSE f[NextOf(b)]
Rule(f, b) == IF b = PartWords \/ mem[b].size = 0 THEN {} ELSE {b} \cup After(f, b)

Walks(f, n) ==
  /\ f \in [n..PartWords -> SUBSET Words]
  /\ \A b \in n..PartWords : f[b] = Rule(f, b)

LEMMA WalkStep ==
  ASSUME mem \in Mem, NEW n \in 1..PartWords, NEW f, Walks(f, n)
  PROVE  \E g : Walks(g, n - 1)
<1> DEFINE p == n - 1
           g == [b \in p..PartWords |-> IF b = p THEN Rule(f, p) ELSE f[b]]
<1>1. /\ p \in Words /\ p \in Nat /\ n \in Nat /\ PartWords \in Nat
      /\ p..PartWords = {p} \cup (n..PartWords) /\ p \notin n..PartWords
  BY PartAssumption DEF Words
<1>2. ASSUME NEW b \in p..PartWords, b # PartWords, mem[b].size # 0
      PROVE  NextOf(b) \in Nat /\ NextOf(b) >= n /\ b \in Words
  <2>1. b \in Words /\ b \in Nat
    BY <1>1, <1>2 DEF Words
  <2>2. mem[b].size \in Nat
    BY <2>1 DEF Mem
  <2>3. QED
    BY <1>1, <1>2, <2>1, <2>2 DEF NextOf
<1>3. ASSUME NEW b \in p..PartWords, b # PartWords, mem[b].size # 0
      PROVE  After(g, b) = After(f, b) /\ After(f, b) \subseteq Words /\ b \in Words
  <2>1. NextOf(b) \in Nat /\ NextOf(b) >= n /\ b \in Words
    BY <1>2, <1>3
  <2>2. CASE NextOf(b) > PartWords
    BY <2>1, <2>2 DEF After
  <2>3. CASE ~(NextOf(b) > PartWords)
    <3>1. NextOf(b) \in n..PartWords
      BY <1>1, <2>1, <2>3
    <3>2. g[NextOf(b)] = f[NextOf(b)] /\ f[NextOf(b)] \subseteq Words
      BY <1>1, <3>1 DEF Walks
    <3> HIDE DEF g
    <3>3. QED
      BY <2>1, <2>3, <3>2 DEF After
  <2>4. QED
    BY <2>2, <2>3
<1>4. Rule(f, p) \subseteq Words
  <2>1. p \in p..PartWords
    BY <1>1
  <2>2. QED
    BY <1>3, <2>1 DEF Rule
<1>5. g \in [p..PartWords -> SUBSET Words]
  BY <1>1, <1>4 DEF Walks
<1>6. ASSUME NEW b \in p..PartWords PROVE g[b] = Rule(g, b)
  <2>1. g[b] = Rule(f, b)
    BY <1>1 DEF Walks
  <2> HIDE DEF g
  <2>2. Rule(f, b) = Rule(g, b)
    <3>1. CASE b = PartWords \/ mem[b].size = 0
      BY <3>1 DEF Rule
    <3>2. CASE ~(b = PartWords \/ mem[b].size = 0)
      <4>1. After(g, b) = After(f, b)
        BY <1>3, <3>2
      <4>2. QED
        BY <3>2, <4>1 DEF Rule
    <3>3. QED
      BY <3>1, <3>2
  <2>3. QED
    BY <2>1, <2>2
<1>7. QED
  BY <1>5, <1>6 DEF Walks

LEMMA WalkExists ==
  ASSUME mem \in Mem
  PROVE  \E f : Walks(f, 0)
<1> DEFINE S == {n \in Nat : n <= PartWords => \E f : Walks(f, PartWords - n)}
<1>1. PartWords \in Nat
  BY PartAssumption
<1>2. 0 \in S
  <2> DEFINE f == [b \in PartWords..PartWords |-> {}]
  <2>1. f \in [PartWords..PartWords -> SUBSET Words]
    OBVIOUS
  <2>2. \A b \in PartWords..PartWords : f[b] = Rule(f, b)
    BY <1>1 DEF Rule
  <2>3. Walks(f, PartWords)
    BY <2>1, <2>2 DEF Walks
  <2>4. PartWords - 0 = PartWords
    BY <1>1
  <2>5. QED
    BY <2>3, <2>4
<1>3. ASSUME NEW n \in Nat, n \in S PROVE n + 1 \in S
  <2>1. SUFFICES ASSUME n + 1 <= PartWords PROVE \E f : Walks(f, PartWords - (n + 1))
    BY <1>1
  <2>2. PICK f : Walks(f, PartWords - n)
    BY <1>1, <1>3, <2>1
  <2>3. PartWords - n \in 1..PartWords /\ (PartWords - n) - 1 = PartWords - (n + 1)
    BY <1>1, <2>1
  <2> HIDE DEF S
  <2>4. \E g : Walks(g, (PartWords - n) - 1)
    BY <2>2, <2>3, WalkStep
  <2>5. QED
    BY <2>3, <2>4
<1>4. Nat \subseteq S
  <2> HIDE DEF S
  <2>1. QED
    BY <1>2, <1>3, NaturalsIn
<1>5. PartWords \in S /\ PartWords - PartWords = 0
  BY <1>1, <1>4
<1>6. QED
  BY <1>1, <1>5

LEMMA BlocksFromWalks ==
  ASSUME mem \in Mem
  PROVE  \A b \in 0..PartWords : BlocksFrom[b] = Rule(BlocksFrom, b)
<1>1. PICK f : Walks(f, 0)
  BY WalkExists
<1>2. f = [b \in 0..PartWords |-> Rule(f, b)]
  BY <1>1 DEF Walks
<1>3. BlocksFrom = CHOOSE g : g = [b \in 0..PartWords |->
        IF b = PartWords \/ mem[b].size = 0 THEN {}
        ELSE {b} \cup (IF NextOf(b) > PartWords THEN {} ELSE g[NextOf(b)])]
  BY DEF BlocksFrom
<1>4. BlocksFrom = CHOOSE g : g = [b \in 0..PartWords |-> Rule(g, b)]
  BY <1>3 DEF Rule, After
<1>5. BlocksFrom = [b \in 0..PartWords |-> Rule(BlocksFrom, b)]
  BY <1>2, <1>4
<1>6. QED
  BY <1>5

(* A walk over the tags finds the blocks of a tiling, and no others.       *)
LEMMA BlocksAre ==
  ASSUME mem \in Mem, NEW B, NEW top, Tiling(B, mem, top)
  PROVE  Blocks = B
<1> DEFINE From(b) == {c \in B : c >= b}
           Starts == B \cup {top}
           S == {n \in Nat : \E b \in Starts : n = PartWords - b /\ BlocksFrom[b] # From(b)}
<1>1. /\ PartWords \in Nat /\ top \in 0..PartWords /\ B \subseteq Words
      /\ Starts \subseteq 0..PartWords
  BY PartAssumption DEF Tiling, Words
<1>2. \A b \in 0..PartWords : BlocksFrom[b] = Rule(BlocksFrom, b)
  BY BlocksFromWalks
<1>3. BlocksFrom[top] = From(top)
  <2>1. From(top) = {}
    <3>1. ASSUME NEW c \in B PROVE ~(c >= top)
      <4>1. /\ c \in Nat /\ mem[c].size \in Nat /\ mem[c].size > 0
            /\ top \in Nat /\ c + mem[c].size <= top
        BY BlockNumbers
      <4>2. QED
        BY <4>1
    <3>2. QED
      BY <3>1
  <2>2. top = PartWords \/ mem[top].size = 0
    <3>1. SUFFICES ASSUME top # PartWords PROVE mem[top].size = 0
      OBVIOUS
    <3>2. top \in top..(PartWords - 1)
      BY <1>1, <3>1
    <3>3. mem[top] = NoTag
      BY <3>2 DEF Tiling
    <3>4. QED
      BY <3>3 DEF NoTag, Tag
  <2>3. Rule(BlocksFrom, top) = {}
    BY <2>2 DEF Rule
  <2> HIDE DEF From
  <2>4. QED
    BY <1>1, <1>2, <2>1, <2>3
<1>4. S = {}
  <2>1. SUFFICES ASSUME S # {} PROVE FALSE
    OBVIOUS
  <2>2. PICK n \in S : \A k \in S : n <= k
    BY <2>1, LeastNatural
  <2>3. PICK b \in Starts : n = PartWords - b /\ BlocksFrom[b] # From(b)
    BY <2>2
  <2>4. b \in B /\ b # top
    BY <1>3, <2>3
  <2> DEFINE c == b + mem[b].size
  <2>5. /\ b \in Nat /\ mem[b].size \in Nat /\ mem[b].size > 0 /\ c <= top
        /\ b \in Words /\ top \in Nat
    BY <2>4, BlockNumbers
  <2>6. c \in Starts
    BY <2>4, NextBlock
  <2>7. c \in Nat /\ b < c /\ c <= PartWords
    BY <1>1, <2>5
  <2>8. BlocksFrom[c] = From(c)
    <3>1. SUFFICES ASSUME BlocksFrom[c] # From(c) PROVE FALSE
      OBVIOUS
    <3>2. PartWords - c \in Nat /\ PartWords - c < PartWords - b
      BY <1>1, <2>5, <2>7
    <3> HIDE DEF From, c
    <3>3. PartWords - c \in S
      BY <2>6, <3>1, <3>2
    <3> HIDE DEF S
    <3>4. n <= PartWords - c
      BY <2>2, <3>3
    <3>5. QED
      BY <1>1, <2>3, <2>5, <2>7, <3>2, <3>4
  <2>9. From(b) = {b} \cup From(c)
    <3>1. ASSUME NEW d \in B PROVE d >= b <=> d = b \/ d >= c
      <4>1. d \in Nat
        BY BlockNumbers
      <4>2. b < d => c <= d
        BY <2>4 DEF Tiling
      <4>3. QED
        BY <2>5, <2>7, <4>1, <4>2
    <3>2. QED
      BY <2>4, <3>1
  <2>10. BlocksFrom[b] = {b} \cup BlocksFrom[c]
    <3>1. BlocksFrom[b] = Rule(BlocksFrom, b)
      BY <1>1, <1>2, <2>3
    <3>2. ~(b = PartWords \/ mem[b].size = 0) /\ NextOf(b) = c /\ ~(c > PartWords)
      BY <1>1, <2>5, <2>7 DEF NextOf, Words
    <3> HIDE DEF c
    <3>3. QED
      BY <3>1, <3>2 DEF Rule, After
  <2>11. QED
    BY <2>3, <2>8, <2>9, <2>10
<1>5. 0 \in Starts
  <2>1. CASE top = 0
    BY <2>1
  <2>2. CASE top # 0
    <3>1. 0 \in 0..(top - 1)
      BY <1>1, <2>2
    <3>2. PICK b \in B : b <= 0 /\ 0 < b + mem[b].size
      BY <3>1 DEF Tiling
    <3>3. b = 0
      <4>1. b \in Nat
        BY BlockNumbers
      <4>2. QED
        BY <3>2, <4>1
    <3>4. QED
      BY <3>3
  <2>3. QED
    BY <2>1, <2>2
<1>6. BlocksFrom[0] = From(0)
  <2>1. SUFFICES ASSUME BlocksFrom[0] # From(0) PROVE FALSE
    OBVIOUS
  <2>2. PartWords \in S
    <3>1. PartWords = PartWords - 0
      BY <1>1
    <3> HIDE DEF From
    <3>2. QED
      BY <1>1, <1>5, <2>1, <3>1
  <2>3. QED
    BY <1>4, <2>2
<1>7. From(0) = B
  <2>1. \A c \in B : c \in Nat
    BY BlockNumbers
  <2>2. \A c \in B : c >= 0
    BY <2>1
  <2>3. QED
    BY <2>2
<1>8. QED
  BY <1>6, <1>7 DEF Blocks

------------------------------------------------------------------------------
(* What the invariant says of Blocks.                                      *)
LEMMA ShapeBlocks ==
  ASSUME SegInv
  PROVE  Shape(Blocks, mem, heads, owned, InHand, Top)
<1>1. PICK B \in SUBSET Words : Shape(B, mem, heads, owned, InHand, Top)
  BY DEF SegInv, ShapeInv
<1>2. mem \in Mem /\ Tiling(B, mem, Top)
  BY <1>1 DEF Shape
<1>3. Blocks = B
  BY <1>2, BlocksAre
<1>4. QED
  BY <1>1, <1>3

LEMMA InvTiled == SegInv => Tiled
<1> SUFFICES ASSUME SegInv PROVE Tiled
  OBVIOUS
<1>1. Shape(Blocks, mem, heads, owned, InHand, Top)
  BY ShapeBlocks
<1> DEFINE B == Blocks
<1> HIDE DEF B
<1>2. /\ mem \in Mem /\ Tiling(B, mem, Top) /\ owned \subseteq B
      /\ \A b \in B : mem[b].used <=> b \in owned
  BY <1>1 DEF Shape, B
<1>3. ASSUME NEW b \in B
      PROVE  /\ NextOf(b) <= PartWords
             /\ mem[NextOf(b) - 1] = mem[b]
             /\ \A w \in (b + 1)..(NextOf(b) - 2) : mem[w] = NoTag
  <2>1. /\ b \in Nat /\ mem[b].size \in Nat /\ Top \in Nat
        /\ b + mem[b].size <= Top /\ Top <= PartWords
    BY <1>2, BlockNumbers
  <2>2. /\ mem[b + mem[b].size - 1] = mem[b]
        /\ \A w \in (b + 1)..(b + mem[b].size - 2) : mem[w] = NoTag
    BY <1>2 DEF Tiling, Whole
  <2>3. NextOf(b) = b + mem[b].size /\ NextOf(b) <= PartWords
    BY <2>1, PartAssumption DEF NextOf
  <2>4. NextOf(b) - 1 = b + mem[b].size - 1
    BY <2>1 DEF NextOf
  <2>5. NextOf(b) - 2 = b + mem[b].size - 2
    BY <2>1 DEF NextOf
  <2>6. QED
    BY <2>2, <2>3, <2>4, <2>5
<1>4. ASSUME ~At("reclass") PROVE \E b \in B : NextOf(b) = PartWords
  <2>1. Top = PartWords /\ PartWords \in Nat /\ PartWords - 1 \in 0..(PartWords - 1)
    BY <1>4, PartAssumption DEF Top
  <2>2. PICK b \in B : b <= PartWords - 1 /\ PartWords - 1 < b + mem[b].size
    BY <1>2, <2>1 DEF Tiling
  <2>3. b \in Nat /\ mem[b].size \in Nat /\ b + mem[b].size <= PartWords
    BY <1>2, <2>1, BlockNumbers
  <2>4. b + mem[b].size = PartWords
    BY <2>1, <2>2, <2>3
  <2>5. QED
    BY <2>4 DEF NextOf
<1>5. QED
  BY <1>2, <1>3, <1>4 DEF Tiled, B

LEMMA InvListed == SegInv => FreeListed
<1> SUFFICES ASSUME SegInv PROVE FreeListed
  OBVIOUS
<1>1. Filed(heads, Blocks \ InHand, mem)
  BY ShapeBlocks DEF Shape
<1>2. QED
  BY <1>1 DEF Filed, FreeListed

(* A free neighbour of the block in hand is in the list of its class.      *)
LEMMA NeighbourListed ==
  ASSUME NEW B, NEW x, Shape(B, mem, heads, owned, {x}, PartWords), B \in SUBSET Words,
         NEW c \in B, c # x, ~mem[c].used
  PROVE  BlockClass(mem[c].size) >= 0 => c \in Range(heads[ListOf(mem[c].size)])
<1> DEFINE F == B \ {x}
<1>1. /\ mem \in Mem /\ heads \in Lists /\ Filed(heads, F, mem)
      /\ c \in F /\ mem[c].size < MaxSize /\ F \in SUBSET Words /\ c \in Words
  BY DEF Shape
<1>2. mem[c].size \in Nat
  BY <1>1 DEF Mem
<1> HIDE DEF F
<1>3. SUFFICES ASSUME BlockClass(mem[c].size) >= 0
               PROVE  c \in Range(heads[ListOf(mem[c].size)])
  OBVIOUS
<1> DEFINE k == BlockClass(mem[c].size)
<1>4. k \in Classes /\ mem[c].size = BlockSize(k) /\ ListOf(mem[c].size) = k
  BY <1>1, <1>2, <1>3, PartAssumption DEF Classes, BlockSize, BlockClass, ListOf, MaxSize
<1> HIDE DEF k
<1>5. c \in Range(heads[k])
  BY <1>1, <1>4 DEF Filed
<1>6. QED
  BY <1>4, <1>5

LEMMA InvAsserts == SegInv => AssertsHold
<1> SUFFICES ASSUME SegInv PROVE AssertsHold
  OBVIOUS
<1> DEFINE x == frame.blk
           Listed(b, size) == BlockClass(size) >= 0 => b \in Range(heads[ListOf(size)])
<1>1. x \in Words /\ x \in Nat
  BY TypeNow DEF SegInv
<1>2. ASSUME At("forward"), CanMergeForward
      PROVE  mem[x - 1].size <= x /\ Listed(x - mem[x - 1].size, mem[x - 1].size)
  <2>1. frame.pc = "forward" /\ x > 0 /\ ~mem[x - 1].used
    BY <1>2 DEF At, CanMergeForward, Mergeable
  <2>2. PICK B \in SUBSET Words : Shape(B, mem, heads, owned, {x}, PartWords)
    BY <2>1, ShapeNow DEF SegInv, Handy
  <2> DEFINE c == PrevOf(mem, x)
  <2>3. c \in B /\ SameTag(mem, c, x - 1) /\ Adjacent(mem, c, x)
    BY <2>1, <2>2, Before
  <2> HIDE DEF c
  <2>4. mem[c] = mem[x - 1] /\ x = c + mem[c].size
    BY <2>3 DEF SameTag, Adjacent
  <2>5. mem \in Mem /\ Tiling(B, mem, PartWords)
    BY <2>2 DEF Shape
  <2>6. c \in Nat /\ mem[c].size \in Nat /\ mem[c].size > 0
    BY <2>3, <2>5, BlockNumbers
  <2>7. c # x /\ mem[c].size <= x /\ c = x - mem[x - 1].size /\ ~mem[c].used
    BY <1>1, <2>1, <2>4, <2>6
  <2>8. Listed(c, mem[c].size)
    BY <2>2, <2>3, <2>7, NeighbourListed
  <2> HIDE DEF Listed
  <2>9. QED
    BY <2>4, <2>7, <2>8
<1>3. ASSUME frame.pc \in {"backward", "absorb"}, CanMergeBackward
      PROVE  LET next == NextOf(x) IN NextOf(next) <= PartWords /\ Listed(next, mem[next].size)
  <2> DEFINE c == NextOf(x)
  <2>1. c < PartWords /\ ~mem[c].used
    BY <1>3 DEF CanMergeBackward, Mergeable
  <2>2. PICK B \in SUBSET Words : Shape(B, mem, heads, owned, {x}, PartWords)
    BY <1>3, ShapeNow DEF SegInv, Handy
  <2>3. mem \in Mem /\ Tiling(B, mem, PartWords)
    BY <2>2 DEF Shape
  <2>4. /\ x \in B /\ c = x + mem[x].size /\ x + mem[x].size \in Nat
        /\ x + mem[x].size # PartWords => x + mem[x].size \in B
    BY <2>2, Behind DEF NextOf
  <2>5. c \in B
    BY <2>1, <2>4, Sizes
  <2>6. mem[x].size \in Nat /\ mem[x].size > 0
    BY <2>3, <2>4, BlockNumbers
  <2> HIDE DEF c
  <2>7. c # x
    BY <1>1, <2>4, <2>6
  <2>8. NextOf(c) <= PartWords
    BY <2>3, <2>5, BlockNumbers DEF NextOf
  <2>9. Listed(c, mem[c].size)
    BY <2>1, <2>2, <2>5, <2>7, NeighbourListed
  <2>10. QED
    BY <2>8, <2>9 DEF c
<1>4. QED
  BY <1>2, <1>3 DEF AssertsHold

(* The blocks tile the partition, whatever has been asked for and freed:   *)
(* a block in use shares no word with another.                             *)
THEOREM SegTiled == SegSpec => []Tiled
<1>1. QED
  BY InvTiled, SegInvariant, PTL

(* Every free block of a listed size is in its list, once, and the lists   *)
(* hold nothing else.                                                      *)
THEOREM SegListed == SegSpec => []FreeListed
<1>1. QED
  BY InvListed, SegInvariant, PTL

(* The assertions of the merges hold.                                      *)
THEOREM SegAsserts == SegSpec => []AssertsHold
<1>1. QED
  BY InvAsserts, SegInvariant, PTL

(* In a partition with room for a block of the largest class, such a block *)
(* is listed whenever nothing is in use and no call is running.            *)
THEOREM SegFullBack ==
  ASSUME PartWords >= BlockSize(ClassCount - 1)
  PROVE  SegSpec => []FullBlockBack
<1>1. SegInv => FullBlockBack
  BY DEF SegInv, FullInv, FullBlockBack, FullSize, NonEmpty, LastClass, At
<1>2. QED
  BY <1>1, SegInvariant, PTL

------------------------------------------------------------------------------
(* The allocator implements Allocator: the extents in use are the data     *)
(* words of the blocks in use.                                             *)
ExtentOf(m, b) == [at |-> b + 1, len |-> m[b].size - 2]
ExtentsOf(m, S) == {ExtentOf(m, b) : b \in S}
Wanted == IF frame.pc \in {"take", "absorb"} THEN frame.want ELSE -1

LEMMA ExtentsKept ==
  ASSUME NEW m, NEW n, NEW S, Keeps(n, m, S)
  PROVE  ExtentsOf(n, S) = ExtentsOf(m, S)
<1>1. \A b \in S : ExtentOf(n, b) = ExtentOf(m, b)
  BY DEF Keeps, ExtentOf
<1>2. QED
  BY <1>1 DEF ExtentsOf

(* A step that keeps what is in use and the request is none of Allocator's.*)
LEMMA SegStutter ==
  ASSUME SegInv, SegInv', Keeps(mem', mem, owned), owned' = owned, Wanted' = Wanted
  PROVE  UNCHANGED Alloc!allocVars
<1>1. ExtentsOf(mem', owned') = ExtentsOf(mem, owned)
  BY ExtentsKept
<1>2. QED
  BY <1>1 DEF Alloc!allocVars, ExtentsOf, ExtentOf, Wanted

LEMMA SegRefinesInit == SegInit => Alloc!Init
BY DEF SegInit, NoCall, Alloc!Init, Alloc!NONE

LEMMA AskRefines ==
  ASSUME SegInv, GetCall
  PROVE  Alloc!Ask
<1>1. /\ frame.pc = "idle" /\ owned' = owned /\ mem' = mem
  BY DEF GetCall, At
<1>2. PICK r \in Requests : frame' = [NoCall EXCEPT !.pc = "take", !.want = r]
  BY DEF GetCall
<1>3. frame'.pc = "take" /\ frame'.want = r
  BY <1>2 DEF NoCall
<1>4. QED
  BY <1>1, <1>3 DEF Alloc!Ask, Alloc!NONE

LEMMA RefuseRefines ==
  ASSUME SegInv, frame.pc \in {"take", "absorb"}, frame'.pc \notin {"take", "absorb"},
         mem' = mem, owned' = owned
  PROVE  Alloc!Refuse
<1>1. frame.want \in Nat
  BY DEF SegInv, StageInv
<1>2. frame.want # -1
  BY <1>1
<1>3. QED
  BY <1>2 DEF Alloc!Refuse, Alloc!NONE

LEMMA GiveBackRefines ==
  ASSUME SegInv, FreeCall
  PROVE  Alloc!GiveBack
<1>1. SegInv' /\ Keeps(mem', mem, owned')
  BY StepFreeCall
<1>2. PICK b \in owned : /\ owned' = owned \ {b} /\ frame.pc = "idle"
                        /\ frame' = [NoCall EXCEPT !.pc = "forward", !.blk = b]
  BY DEF FreeCall, At
<1>3. frame'.pc = "forward"
  BY <1>2 DEF NoCall
<1>4. ExtentsOf(mem', owned') = ExtentsOf(mem, owned')
  BY <1>1, ExtentsKept
<1>5. ExtentsOf(mem, owned') = ExtentsOf(mem, owned) \ {ExtentOf(mem, b)}
  <2>1. \A c \in owned : c \in Nat
    BY DEF SegInv, SegTypeOK, Words
  <2>2. ASSUME NEW c \in owned, c # b PROVE ExtentOf(mem, c) # ExtentOf(mem, b)
    <3>1. c + 1 # b + 1
      BY <2>1, <2>2
    <3>2. ExtentOf(mem, c).at = c + 1 /\ ExtentOf(mem, b).at = b + 1
      BY DEF ExtentOf
    <3>3. QED
      BY <3>1, <3>2
  <2>3. QED
    BY <1>2, <2>2 DEF ExtentsOf
<1>6. ExtentOf(mem, b) \in ExtentsOf(mem, owned)
  BY <1>2 DEF ExtentsOf
<1>7. \E e \in ExtentsOf(mem, owned) : ExtentsOf(mem', owned') = ExtentsOf(mem, owned) \ {e}
  BY <1>4, <1>5, <1>6
<1>8. QED
  BY <1>2, <1>3, <1>7 DEF Alloc!GiveBack, Alloc!NONE, ExtentsOf, ExtentOf

LEMMA GrantRefines ==
  ASSUME SegInv, Take
  PROVE  Alloc!Grant
<1> DEFINE k == class_ceil_index(frame.want)
           b == Head(heads[k])
           at == b + 1
           len == k + 1
           e == [at |-> at, len |-> len]
<1>1. /\ SegInv' /\ Keeps(mem', mem, owned)
      /\ frame' = NoCall /\ owned' = owned \cup {b} /\ b \in Words /\ b \notin owned
      /\ mem'[b].size = k + 3
  BY StepTake
<1>2. frame.pc = "take" /\ frame.want \in Nat /\ k \in Nat
  <2>1. frame.pc = "take" /\ frame.want \in Nat /\ k \in Classes
    BY DEF Take, At, SegInv, StageInv
  <2>2. QED
    BY <2>1, Sizes
<1>3. len >= frame.want /\ frame.want # -1 /\ frame'.pc = "idle"
  BY <1>1, <1>2 DEF class_ceil_index, NoCall
<1> HIDE DEF b, k
<1>i. PICK B \in SUBSET Words : Shape(B, mem', heads', owned', InHand', Top')
  BY <1>1 DEF SegInv, ShapeInv
<1>4. /\ mem' \in Mem /\ Tiling(B, mem', PartWords) /\ owned' \subseteq B
  <2>2. Top' = PartWords
    BY <1>3 DEF Top, At
  <2>3. QED
    BY <1>i, <2>2 DEF Shape
<1>5. /\ b \in B /\ b \in Nat /\ b + mem'[b].size <= PartWords /\ PartWords \in Nat
  <2>1. b \in B
    BY <1>1, <1>4
  <2>2. QED
    BY <1>4, <2>1, BlockNumbers, PartAssumption
<1>6. at \in 0..PartWords /\ len \in 0..PartWords /\ at + len <= PartWords
  BY <1>1, <1>2, <1>5
<1>7. ASSUME NEW f \in ExtentsOf(mem, owned)
      PROVE  Alloc!WordsOf(e) \cap Alloc!WordsOf(f) = {}
  <2>1. PICK c \in owned : f = ExtentOf(mem, c)
    BY DEF ExtentsOf
  <2>2. c \in B /\ c # b /\ mem'[c] = mem[c]
    BY <1>1, <1>4 DEF Keeps
  <2>3. c \in Nat /\ mem[c].size \in Nat
    <3>1. c \in Nat /\ mem'[c].size \in Nat
      BY <1>4, <2>2, BlockNumbers
    <3>2. QED
      BY <2>2, <3>1
  <2>4. b + (k + 3) <= c \/ c + mem[c].size <= b
    <3>1. b + mem'[b].size <= c \/ c + mem'[c].size <= b
      BY <1>4, <1>5, <2>2, BlocksApart
    <3>2. QED
      BY <1>1, <2>2, <3>1
  <2>5. Alloc!WordsOf(f) = (c + 1)..(c + 1 + (mem[c].size - 2) - 1)
    BY <2>1 DEF Alloc!WordsOf, ExtentOf
  <2>6. Alloc!WordsOf(e) = (b + 1)..(b + 1 + (k + 1) - 1)
    BY DEF Alloc!WordsOf
  <2>7. ASSUME NEW w \in (b + 1)..(b + 1 + (k + 1) - 1),
               w \in (c + 1)..(c + 1 + (mem[c].size - 2) - 1)
        PROVE  FALSE
    BY <1>2, <1>5, <2>3, <2>4, <2>7
  <2> HIDE DEF e
  <2>8. QED
    BY <2>5, <2>6, <2>7
<1>8. ExtentsOf(mem', owned') = ExtentsOf(mem, owned) \cup {e}
  <2>1. ExtentsOf(mem', owned) = ExtentsOf(mem, owned)
    BY <1>1, ExtentsKept
  <2>2. ExtentOf(mem', b) = e
    <3>1. mem'[b].size - 2 = k + 1
      BY <1>1, <1>2
    <3>2. QED
      BY <3>1 DEF ExtentOf
  <2>3. ExtentsOf(mem', owned') = ExtentsOf(mem', owned) \cup {ExtentOf(mem', b)}
    BY <1>1 DEF ExtentsOf
  <2>4. QED
    BY <2>1, <2>2, <2>3
<1>9. \E x, y \in 0..PartWords :
        LET g == [at |-> x, len |-> y] IN
        /\ y >= frame.want /\ x + y <= PartWords
        /\ \A f \in ExtentsOf(mem, owned) : Alloc!WordsOf(g) \cap Alloc!WordsOf(f) = {}
        /\ ExtentsOf(mem', owned') = ExtentsOf(mem, owned) \cup {g}
  <2> HIDE DEF at, len
  <2>1. QED
    BY <1>3, <1>6, <1>7, <1>8
<1>10. QED
  BY <1>2, <1>3, <1>9 DEF Alloc!Grant, Alloc!NONE, ExtentsOf, ExtentOf

LEMMA SegRefinesStep ==
  ASSUME SegInv, [SegNext]_segVars
  PROVE  [Alloc!Next]_Alloc!allocVars
<1>1. SegInv'
  BY SegInvStep
<1>2. CASE GetCall
  BY <1>2, AskRefines DEF Alloc!Next
<1>3. CASE FreeCall
  BY <1>3, GiveBackRefines DEF Alloc!Next
<1>4. CASE Take
  BY <1>4, GrantRefines DEF Alloc!Next
<1>5. CASE GetFails
  <2>1. Alloc!Refuse
    BY <1>5, RefuseRefines DEF GetFails, At, NoCall
  <2>2. QED
    BY <2>1 DEF Alloc!Next
<1>6. CASE FileBeyond
  <2>1. frame.pc = "absorb" /\ mem' = mem /\ owned' = owned
    BY <1>6 DEF FileBeyond, At
  <2>2. frame'.pc = "file_past"
    BY <1>6, TypeNow DEF FileBeyond, SegInv, Frames
  <2>3. Alloc!Refuse
    BY <2>1, <2>2, RefuseRefines
  <2>4. QED
    BY <2>3 DEF Alloc!Next
<1>7. CASE GetBeyond
  <2>1. Keeps(mem', mem, owned)
    BY <1>7, StepGetBeyond
  <2>2. owned' = owned /\ Wanted' = Wanted
    BY <1>7 DEF GetBeyond, At, NoCall, Wanted
  <2>3. QED
    BY <1>1, <2>1, <2>2, SegStutter
<1>8. CASE Reclass
  <2>1. Keeps(mem', mem, owned)
    BY <1>8, StepReclass
  <2>2. owned' = owned /\ frame.pc = "reclass" /\ frame'.pc \in {"idle", "reclass"}
    BY <1>8, TypeNow DEF Reclass, At, NoCall, SegInv, Frames
  <2>3. QED
    BY <1>1, <2>1, <2>2, SegStutter DEF Wanted
<1>9. CASE MergeForward
  <2>1. Keeps(mem', mem, owned)
    BY <1>9, StepMergeForward
  <2>2. owned' = owned /\ frame.pc = "forward" /\ frame'.pc \in {"forward", "backward"}
    BY <1>9, TypeNow DEF MergeForward, Settle, At, SegInv, Frames
  <2>3. QED
    BY <1>1, <2>1, <2>2, SegStutter DEF Wanted
<1>10. CASE ForwardEnd
  <2>1. Keeps(mem', mem, owned)
    BY <1>10, StepForwardEnd
  <2>2. owned' = owned /\ frame.pc = "forward" /\ frame'.pc = "backward"
    BY <1>10, TypeNow DEF ForwardEnd, At, SegInv, Frames
  <2>3. QED
    BY <1>1, <2>1, <2>2, SegStutter DEF Wanted
<1>11. CASE MergeBackward
  <2>1. Keeps(mem', mem, owned)
    BY <1>11, StepMergeBackward
  <2>2. owned' = owned /\ frame.pc = "backward" /\ frame'.pc \in {"backward", "file"}
    BY <1>11, TypeNow DEF MergeBackward, Settle, At, SegInv, Frames
  <2>3. QED
    BY <1>1, <2>1, <2>2, SegStutter DEF Wanted
<1>12. CASE BackwardEnd
  <2>1. Keeps(mem', mem, owned)
    BY <1>12, StepBackwardEnd
  <2>2. owned' = owned /\ frame.pc = "backward" /\ frame'.pc = "file"
    BY <1>12, TypeNow DEF BackwardEnd, At, SegInv, Frames
  <2>3. QED
    BY <1>1, <2>1, <2>2, SegStutter DEF Wanted
<1>13. CASE FileFree
  <2>1. Keeps(mem', mem, owned)
    BY <1>13, StepFileFree
  <2>2. owned' = owned /\ frame.pc = "file" /\ frame'.pc = "idle"
    BY <1>13 DEF FileFree, At, NoCall
  <2>3. QED
    BY <1>1, <2>1, <2>2, SegStutter DEF Wanted
<1>14. CASE Divide
  <2>1. Keeps(mem', mem, owned) /\ frame'.want = frame.want
    BY <1>14, StepDivide
  <2>2. owned' = owned /\ frame.pc = "take" /\ frame'.pc = "absorb"
    BY <1>14, TypeNow DEF Divide, At, SegInv, Frames
  <2>3. QED
    BY <1>1, <2>1, <2>2, SegStutter DEF Wanted
<1>15. CASE Absorb
  <2>1. Keeps(mem', mem, owned)
    BY <1>15, StepAbsorb
  <2>2. owned' = owned /\ frame' = frame
    BY <1>15 DEF Absorb
  <2>3. QED
    BY <1>1, <2>1, <2>2, SegStutter DEF Wanted
<1>16. CASE FileBack
  <2>1. Keeps(mem', mem, owned)
    BY <1>16, StepFileBack
  <2>2. owned' = owned /\ frame.pc = "absorb" /\ frame'.pc = "take" /\ frame'.want = frame.want
    BY <1>16, TypeNow DEF FileBack, At, SegInv, Frames
  <2>3. QED
    BY <1>1, <2>1, <2>2, SegStutter DEF Wanted
<1>17. CASE UNCHANGED segVars
  <2>1. Keeps(mem', mem, owned) /\ owned' = owned /\ Wanted' = Wanted
    BY <1>17 DEF segVars, Keeps, Wanted
  <2>2. QED
    BY <1>1, <2>1, SegStutter
<1>18. QED
  BY <1>2, <1>3, <1>4, <1>5, <1>6, <1>7, <1>8, <1>9, <1>10, <1>11, <1>12, <1>13, <1>14,
     <1>15, <1>16, <1>17 DEF SegNext, CallStep

(* Whatever is asked for and given back, an extent that is granted lies in *)
(* the partition, is as long as was asked for, and overlaps no other.      *)
THEOREM SegRefinesAllocator == SegSpec => AllocatorImplemented
<1>1. SegInit => Alloc!Init
  BY SegRefinesInit
<1>2. SegInv /\ [SegNext]_segVars => [Alloc!Next]_Alloc!allocVars
  BY SegRefinesStep
<1>3. QED
  BY <1>1, <1>2, SegInvariant, PTL DEF SegSpec, AllocatorImplemented, Alloc!Spec

==============================================================================
