---------------------------- MODULE SegFitsTiling ----------------------------
(***************************************************************************)
(* What the operators of SegFits do to a partition, whatever call uses     *)
(* them: a set of blocks that tiles it stays one when two neighbours are   *)
(* fused, one is cut in two or one is marked, and the lists stay the lists *)
(* of its free blocks when one is put in or taken out.                     *)
(***************************************************************************)
EXTENDS SegFits, BasicLemmas

Mem   == [Words -> [size : 0..PartWords, used : BOOLEAN]]
Lists == [Classes -> Seq(Words)]

FullSize == BlockSize(ClassCount - 1)

(* A block has the same tag in its first and its last word and none inside *)
Whole(m, b) ==
  /\ m[b].size > 0 /\ m[b + m[b].size - 1] = m[b]
  /\ \A w \in (b + 1)..(b + m[b].size - 2) : m[w] = NoTag

(* The blocks of set B tile the words below top; above it nothing is yet.  *)
Tiling(B, m, top) ==
  /\ B \subseteq Words /\ top \in 0..PartWords
  /\ \A b \in B : Whole(m, b) /\ b + m[b].size <= top
  /\ \A b, c \in B : b < c => b + m[b].size <= c
  /\ \A w \in 0..(top - 1) : \E b \in B : b <= w /\ w < b + m[b].size
  /\ \A w \in top..(PartWords - 1) : m[w] = NoTag

(* The tags of a free block, of one in use, and a list without its first.  *)
Cleared(m, b, len) == Stamp(m, b, len, FALSE)
Marked(m, b, len) == Stamp(m, b, len, TRUE)
Popped(hs, i) == [hs EXCEPT ![i] = Tail(@)]

(* What a change of the tags or of the lists leaves and makes.             *)
Keeps(m, n, S) == \A w \in S : m[w] = n[w]
Others(ls, hs, k) == \A i \in Classes \ {k} : ls[i] = hs[i]
FreeOf(m, b, size) == m[b].size = size /\ ~m[b].used
UsedOf(m, b, size) == m[b].size = size /\ m[b].used
NonEmpty(hs, i) == hs[i] # <<>>
Small(m, b) == m[b].size < MaxSize

(* The lists hold just the free blocks of set F of their class, once.      *)
Filed(hs, F, m) ==
  \A i \in Classes :
    /\ Range(hs[i]) = {b \in F : ~m[b].used /\ m[b].size = BlockSize(i)}
    /\ IsInjective(hs[i])

(* What holds between the steps, of the blocks, the lists, the blocks in   *)
(* use and the block in hand, which alone may be too large for a class.    *)
Shape(B, m, hs, own, hand, top) ==
  /\ m \in Mem /\ hs \in Lists
  /\ Tiling(B, m, top)
  /\ own \subseteq B /\ \A b \in B : m[b].used <=> b \in own
  /\ hand \subseteq B \ own
  /\ Filed(hs, B \ hand, m)
  /\ \A b \in B \ hand : m[b].size < MaxSize

------------------------------------------------------------------------------
(* The sizes of the model are numbers.                                     *)
LEMMA Sizes ==
  /\ FullSize \in Nat /\ FullSize = ClassCount + 2 /\ MaxSize = FullSize + 1
  /\ \A i \in Classes : i \in Nat /\ BlockSize(i) = i + 3 /\ BlockSize(i) <= FullSize
  /\ ClassCount - 1 \in Classes /\ PartWords \in Nat \ {0}
  /\ \A b, w \in Words : b \in Nat /\ b < PartWords /\ (b <= w \/ w < b)
BY PartAssumption DEF FullSize, MaxSize, BlockSize, Classes, Words

(* A stamp changes the first and the last word of a block.                 *)
LEMMA StampFreeIs ==
  ASSUME NEW m \in Mem, NEW b \in Words, NEW len \in 1..PartWords, b + len <= PartWords
  PROVE  /\ Cleared(m, b, len) \in Mem
         /\ \A w \in Words : Cleared(m, b, len)[w] =
              IF w = b \/ w = b + len - 1 THEN [size |-> len, used |-> FALSE] ELSE m[w]
<1>1. b + len - 1 \in Words /\ len \in 0..PartWords
  BY PartAssumption DEF Words
<1>2. QED
  BY <1>1 DEF Cleared, Stamp, Mem, Tag

LEMMA StampUsedIs ==
  ASSUME NEW m \in Mem, NEW b \in Words, NEW len \in 1..PartWords, b + len <= PartWords
  PROVE  /\ Marked(m, b, len) \in Mem
         /\ \A w \in Words : Marked(m, b, len)[w] =
              IF w = b \/ w = b + len - 1 THEN [size |-> len, used |-> TRUE] ELSE m[w]
<1>1. b + len - 1 \in Words /\ len \in 0..PartWords
  BY PartAssumption DEF Words
<1>2. QED
  BY <1>1 DEF Marked, Stamp, Mem, Tag

(* What a block is depends on its own words only.                          *)
LEMMA WholeStays ==
  ASSUME NEW m \in Mem, NEW n \in Mem, NEW b \in Words, Whole(m, b),
         \A w \in b..(b + m[b].size - 1) : n[w] = m[w]
  PROVE  Whole(n, b) /\ n[b] = m[b]
<1>1. b \in Nat /\ m[b].size \in Nat /\ m[b].size > 0
  BY PartAssumption DEF Whole, Mem, Words
<1>2. /\ b \in b..(b + m[b].size - 1) /\ b + m[b].size - 1 \in b..(b + m[b].size - 1)
      /\ (b + 1)..(b + m[b].size - 2) \subseteq b..(b + m[b].size - 1)
  BY <1>1
<1>3. n[b] = m[b]
  BY <1>2
<1>4. QED
  BY <1>2, <1>3 DEF Whole

(* The numbers of a block of a tiling.                                     *)
LEMMA BlockNumbers ==
  ASSUME NEW B, NEW m \in Mem, NEW top, Tiling(B, m, top), NEW b \in B
  PROVE  /\ b \in Nat /\ b \in Words /\ m[b].size \in Nat /\ m[b].size > 0
         /\ m[b].size \in 1..PartWords
         /\ top \in Nat /\ b + m[b].size <= top /\ top <= PartWords
         /\ b + m[b].size - 1 \in Words
<1>1. PartWords \in Nat /\ b \in 0..(PartWords - 1) /\ top \in 0..PartWords
  BY PartAssumption DEF Tiling, Words
<1>2. m[b].size \in 0..PartWords
  BY <1>1 DEF Mem, Words
<1>3. m[b].size > 0 /\ b + m[b].size <= top
  BY DEF Tiling, Whole
<1>4. QED
  BY <1>1, <1>2, <1>3 DEF Words

(* The words of two blocks of a tiling are different.                      *)
LEMMA BlocksApart ==
  ASSUME NEW B, NEW m \in Mem, NEW top, Tiling(B, m, top), NEW b \in B, NEW c \in B, b # c
  PROVE  b + m[b].size <= c \/ c + m[c].size <= b
<1>1. b \in Nat /\ c \in Nat
  BY BlockNumbers
<1>2. b < c \/ c < b
  BY <1>1
<1>3. QED
  BY <1>2 DEF Tiling

(* Behind a block there is a block, unless the tiled words end there.      *)
LEMMA NextBlock ==
  ASSUME NEW B, NEW m \in Mem, NEW top, Tiling(B, m, top), NEW b \in B,
         b + m[b].size # top
  PROVE  b + m[b].size \in B
<1> DEFINE w == b + m[b].size
<1>1. b \in Nat /\ m[b].size \in Nat /\ m[b].size > 0 /\ top \in Nat /\ w <= top
  BY BlockNumbers
<1>2. w \in 0..(top - 1)
  BY <1>1
<1>3. PICK c \in B : c <= w /\ w < c + m[c].size
  BY <1>2 DEF Tiling
<1>4. c \in Nat /\ m[c].size \in Nat
  BY BlockNumbers
<1>5. CASE c = w
  BY <1>5
<1>6. CASE c # w
  <2>1. c # b
    BY <1>1, <1>3
  <2>2. c + m[c].size <= b \/ w <= c
    BY <2>1, BlocksApart
  <2>3. FALSE
    BY <1>1, <1>3, <1>4, <1>6, <2>2
  <2>4. QED
    BY <2>3
<1>7. QED
  BY <1>5, <1>6

(* Before a block there is one, whose size the word before it tells.       *)
LEMMA BlockBefore ==
  ASSUME NEW B, NEW m \in Mem, NEW top, Tiling(B, m, top), NEW b \in B, b > 0
  PROVE  /\ m[b - 1].size <= b /\ b - m[b - 1].size \in B
         /\ m[b - m[b - 1].size] = m[b - 1]
<1>1. b \in Nat /\ m[b].size \in Nat /\ m[b].size > 0 /\ top \in Nat /\ b + m[b].size <= top
  BY BlockNumbers
<1>2. b - 1 \in 0..(top - 1)
  BY <1>1
<1>3. PICK c \in B : c <= b - 1 /\ b - 1 < c + m[c].size
  BY <1>2 DEF Tiling
<1>4. c \in Nat /\ m[c].size \in Nat /\ m[c].size > 0
  BY BlockNumbers
<1>5. c + m[c].size <= b \/ b + m[b].size <= c
  <2>1. c # b
    BY <1>1, <1>3
  <2>2. QED
    BY <2>1, BlocksApart
<1>6. c + m[c].size = b
  BY <1>1, <1>3, <1>4, <1>5
<1>7. m[b - 1] = m[c]
  <2>1. c + m[c].size - 1 = b - 1
    BY <1>1, <1>4, <1>6
  <2>2. m[c + m[c].size - 1] = m[c]
    BY DEF Tiling, Whole
  <2>3. QED
    BY <2>1, <2>2
<1>8. b - m[c].size = c /\ m[c].size <= b
  BY <1>1, <1>4, <1>6
<1>9. QED
  BY <1>7, <1>8

------------------------------------------------------------------------------
(* A block with new tags, of the same size, leaves the tiling as it is.     *)
LEMMA RetagTiling ==
  ASSUME NEW B, NEW m \in Mem, NEW top, Tiling(B, m, top), NEW b \in B, NEW n \in Mem,
         n[b].size = m[b].size, n[b + m[b].size - 1] = n[b],
         \A w \in Words : w # b /\ w # b + m[b].size - 1 => n[w] = m[w]
  PROVE  Tiling(B, n, top) /\ \A c \in B \ {b} : n[c] = m[c]
<1> DEFINE size == m[b].size
<1>1. /\ b \in Nat /\ b \in Words /\ size \in Nat /\ size > 0
      /\ top \in Nat /\ b + size <= top /\ top <= PartWords
  BY BlockNumbers
<1>2. Whole(n, b)
  <2>1. ASSUME NEW w \in (b + 1)..(b + size - 2) PROVE n[w] = NoTag
    <3>1. w \in Words /\ w # b /\ w # b + size - 1
      BY <1>1, PartAssumption DEF Words
    <3>2. m[w] = NoTag
      BY DEF Tiling, Whole
    <3>3. QED
      BY <3>1, <3>2
  <2>2. QED
    BY <1>1, <2>1 DEF Whole
<1>3. ASSUME NEW c \in B \ {b}
      PROVE  Whole(n, c) /\ n[c] = m[c]
  <2>1. /\ c \in Nat /\ c \in Words /\ m[c].size \in Nat /\ m[c].size > 0
        /\ c + m[c].size <= top
    BY BlockNumbers
  <2>2. b + size <= c \/ c + m[c].size <= b
    BY BlocksApart
  <2>3. \A w \in c..(c + m[c].size - 1) : w \in Words /\ w # b /\ w # b + size - 1
    BY <1>1, <2>1, <2>2, PartAssumption DEF Words
  <2>4. Whole(m, c)
    BY DEF Tiling
  <2>5. \A w \in c..(c + m[c].size - 1) : n[w] = m[w]
    BY <2>3
  <2>6. QED
    BY <2>1, <2>4, <2>5, WholeStays
<1>4. \A c \in B : n[c].size = m[c].size
  BY <1>3
<1>5. ASSUME NEW w \in top..(PartWords - 1) PROVE n[w] = NoTag
  <2>1. w \in Words /\ w # b /\ w # b + size - 1
    BY <1>1, PartAssumption DEF Words
  <2>2. m[w] = NoTag
    BY DEF Tiling
  <2>3. QED
    BY <2>1, <2>2
<1>6. Tiling(B, n, top)
  <2>1. /\ B \subseteq Words /\ top \in 0..PartWords
        /\ \A c \in B : Whole(n, c) /\ c + n[c].size <= top
    BY <1>2, <1>3, <1>4 DEF Tiling
  <2>2. \A c, d \in B : c < d => c + n[c].size <= d
    BY <1>4 DEF Tiling
  <2>3. \A w \in 0..(top - 1) : \E c \in B : c <= w /\ w < c + n[c].size
    BY <1>4 DEF Tiling
  <2>4. QED
    BY <1>5, <2>1, <2>2, <2>3 DEF Tiling
<1>7. QED
  BY <1>3, <1>6

(* Stamping a block as free or as used leaves the tiling as it is.          *)
LEMMA ClearTiling ==
  ASSUME NEW B, NEW m \in Mem, NEW top, Tiling(B, m, top), NEW b \in B
  PROVE  LET n == Cleared(m, b, m[b].size)
         IN  /\ n \in Mem /\ Tiling(B, n, top)
             /\ FreeOf(n, b, m[b].size)
             /\ Keeps(n, m, B \ {b})
<1> DEFINE size == m[b].size
           n == Cleared(m, b, size)
<1>1. /\ b \in Words /\ size \in 1..PartWords /\ b + size <= PartWords
      /\ b + size - 1 \in Words
  <2>1. /\ size \in 1..PartWords /\ b \in Words /\ b + size - 1 \in Words
        /\ b \in Nat /\ top \in Nat /\ b + size <= top /\ top <= PartWords
    BY BlockNumbers
  <2>2. QED
    BY <2>1, PartAssumption
<1> HIDE DEF size
<1>2. /\ n \in Mem
      /\ \A w \in Words : n[w] =
           IF w = b \/ w = b + size - 1 THEN [size |-> size, used |-> FALSE] ELSE m[w]
  BY <1>1, StampFreeIs
<1> HIDE DEF n
<1>3. n[b] = [size |-> size, used |-> FALSE]
  BY ONLY <1>1, <1>2
<1>4. n[b + size - 1] = [size |-> size, used |-> FALSE]
  BY ONLY <1>1, <1>2
<1>5. n[b].size = size /\ n[b + size - 1] = n[b]
  BY <1>3, <1>4
<1>6. \A w \in Words : w # b /\ w # b + size - 1 => n[w] = m[w]
  BY <1>2
<1>7. Tiling(B, n, top) /\ \A c \in B \ {b} : n[c] = m[c]
  BY <1>2, <1>5, <1>6, RetagTiling DEF size
<1>8. QED
  BY <1>2, <1>3, <1>7 DEF n, size, FreeOf, Keeps

LEMMA MarkTiling ==
  ASSUME NEW B, NEW m \in Mem, NEW top, Tiling(B, m, top), NEW b \in B
  PROVE  LET n == Marked(m, b, m[b].size)
         IN  /\ n \in Mem /\ Tiling(B, n, top)
             /\ UsedOf(n, b, m[b].size) /\ Keeps(n, m, B \ {b})
<1> DEFINE size == m[b].size
           n == Marked(m, b, size)
<1>1. /\ b \in Words /\ size \in 1..PartWords /\ b + size <= PartWords
      /\ b + size - 1 \in Words
  <2>1. /\ size \in 1..PartWords /\ b \in Words /\ b + size - 1 \in Words
        /\ b \in Nat /\ top \in Nat /\ b + size <= top /\ top <= PartWords
    BY BlockNumbers
  <2>2. QED
    BY <2>1, PartAssumption
<1> HIDE DEF size
<1>2. /\ n \in Mem
      /\ \A w \in Words : n[w] =
           IF w = b \/ w = b + size - 1 THEN [size |-> size, used |-> TRUE] ELSE m[w]
  BY <1>1, StampUsedIs
<1> HIDE DEF n
<1>3. n[b] = [size |-> size, used |-> TRUE]
  BY ONLY <1>1, <1>2
<1>4. n[b + size - 1] = [size |-> size, used |-> TRUE]
  BY ONLY <1>1, <1>2
<1>5. n[b].size = size /\ n[b + size - 1] = n[b]
  BY <1>3, <1>4
<1>6. \A w \in Words : w # b /\ w # b + size - 1 => n[w] = m[w]
  BY <1>2
<1>7. Tiling(B, n, top) /\ \A c \in B \ {b} : n[c] = m[c]
  BY <1>2, <1>5, <1>6, RetagTiling DEF size
<1>8. QED
  BY <1>2, <1>3, <1>7 DEF n, size, UsedOf, Keeps

(* A block behind the tiled words extends them.                            *)
LEMMA ExtendTiling ==
  ASSUME NEW B, NEW m \in Mem, NEW top, Tiling(B, m, top), NEW len \in 1..PartWords,
         top + len <= PartWords
  PROVE  LET n == Cleared(m, top, len)
         IN  /\ top \notin B /\ n \in Mem /\ Tiling(B \cup {top}, n, top + len)
             /\ FreeOf(n, top, len)
             /\ Keeps(n, m, B)
<1> DEFINE n == Cleared(m, top, len)
<1>1. top \in Nat /\ top \in Words /\ len \in Nat /\ len > 0 /\ PartWords \in Nat
  BY PartAssumption DEF Tiling, Words
<1>2. /\ n \in Mem
      /\ \A w \in Words : n[w] =
           IF w = top \/ w = top + len - 1 THEN [size |-> len, used |-> FALSE] ELSE m[w]
  BY <1>1, StampFreeIs
<1> HIDE DEF n
<1>3. n[top] = [size |-> len, used |-> FALSE] /\ n[top].size = len
  <2>1. n[top] = [size |-> len, used |-> FALSE]
    BY ONLY <1>1, <1>2
  <2>2. QED
    BY <2>1
<1>4. Whole(n, top)
  <2>1. n[top + len - 1] = n[top]
    <3>1. top + len - 1 \in Words
      BY <1>1 DEF Words
    <3>2. n[top + len - 1] = [size |-> len, used |-> FALSE]
      BY <1>2, <3>1
    <3>3. QED
      BY <1>3, <3>2
  <2>2. ASSUME NEW w \in (top + 1)..(top + len - 2) PROVE n[w] = NoTag
    <3>1. w \in Words /\ w # top /\ w # top + len - 1 /\ w \in top..(PartWords - 1)
      BY <1>1 DEF Words
    <3>2. m[w] = NoTag
      BY <3>1 DEF Tiling
    <3>3. QED
      BY <1>2, <3>1, <3>2
  <2>3. QED
    BY <1>1, <1>3, <2>1, <2>2 DEF Whole
<1>5. ASSUME NEW c \in B
      PROVE  /\ Whole(n, c) /\ n[c] = m[c] /\ c + m[c].size <= top
             /\ c \in Nat /\ m[c].size \in Nat /\ m[c].size > 0
  <2>1. /\ c \in Nat /\ c \in Words /\ m[c].size \in Nat /\ m[c].size > 0
        /\ c + m[c].size <= top
    BY BlockNumbers
  <2>2. \A w \in c..(c + m[c].size - 1) : w \in Words /\ w # top /\ w # top + len - 1
    BY <1>1, <2>1 DEF Words
  <2>3. Whole(m, c)
    BY DEF Tiling
  <2>4. QED
    BY <1>2, <2>1, <2>2, <2>3, WholeStays
<1>6. top \notin B
  BY <1>1, <1>5
<1>7. Tiling(B \cup {top}, n, top + len)
  <2>1. B \cup {top} \subseteq Words /\ top + len \in 0..PartWords
    BY <1>1 DEF Tiling
  <2>2. ASSUME NEW c \in B \cup {top} PROVE Whole(n, c) /\ c + n[c].size <= top + len
    <3>1. CASE c = top
      BY <1>1, <1>3, <1>4, <3>1
    <3>2. CASE c # top
      BY <1>1, <1>5, <3>2
    <3>3. QED
      BY <3>1, <3>2
  <2>3. ASSUME NEW c \in B \cup {top}, NEW d \in B \cup {top}, c < d
        PROVE  c + n[c].size <= d
    BY <1>1, <1>3, <1>5, <2>3 DEF Tiling
  <2>4. ASSUME NEW w \in 0..(top + len - 1)
        PROVE  \E c \in B \cup {top} : c <= w /\ w < c + n[c].size
    <3>1. CASE w < top
      <4>1. w \in 0..(top - 1)
        BY <1>1, <3>1
      <4>2. PICK c \in B : c <= w /\ w < c + m[c].size
        BY <4>1 DEF Tiling
      <4>3. QED
        BY <1>5, <4>2
    <3>2. CASE w >= top
      <4>1. top <= w /\ w < top + n[top].size
        BY <1>1, <1>3, <3>2
      <4>2. QED
        BY <4>1
    <3>3. QED
      BY <1>1, <3>1, <3>2
  <2>5. ASSUME NEW w \in (top + len)..(PartWords - 1) PROVE n[w] = NoTag
    <3>1. w \in Words /\ w # top /\ w # top + len - 1 /\ w \in top..(PartWords - 1)
      BY <1>1 DEF Words
    <3>2. QED
      BY <1>2, <3>1 DEF Tiling
  <2>6. QED
    BY <2>1, <2>2, <2>3, <2>4, <2>5 DEF Tiling
<1>8. QED
  BY <1>2, <1>3, <1>5, <1>6, <1>7 DEF n, FreeOf, Keeps

(* Two neighbours become one block: the tags between them are gone.        *)
LEMMA FuseTiling ==
  ASSUME NEW B, NEW m \in Mem, NEW top, Tiling(B, m, top), NEW b \in B, NEW c \in B,
         c = b + m[b].size
  PROVE  LET n == Fuse(m, b, m[b].size, m[c].size)
         IN  /\ n \in Mem /\ Tiling(B \ {c}, n, top)
             /\ FreeOf(n, b, m[b].size + m[c].size) /\ Keeps(n, m, B \ {b, c})
<1> DEFINE sb == m[b].size
           sc == m[c].size
           len == sb + sc
           n == Fuse(m, b, sb, sc)
           k == [m EXCEPT ![b + sb - 1] = NoTag, ![b + sb] = NoTag]
<1>1. /\ b \in Nat /\ b \in Words /\ sb \in Nat /\ sb > 0
      /\ c \in Nat /\ c \in Words /\ sc \in Nat /\ sc > 0
      /\ top \in Nat /\ c + sc <= top /\ top <= PartWords
      /\ b + sb - 1 \in Words /\ b + sb \in Words /\ b + sb = c
  BY BlockNumbers
<1>2. PartWords \in Nat /\ len \in 1..PartWords /\ b + len = c + sc /\ b + len <= PartWords
  BY <1>1, PartAssumption
<1> HIDE DEF sb, sc, len
<1>3. /\ k \in Mem
      /\ \A w \in Words : k[w] = IF w = b + sb - 1 \/ w = c THEN NoTag ELSE m[w]
  <2>1. NoTag \in [size : 0..PartWords, used : BOOLEAN]
    BY <1>2 DEF NoTag, Tag
  <2> HIDE DEF n
  <2>2. QED
    BY <1>1, <2>1 DEF Mem
<1>4. n = Cleared(k, b, len)
  BY DEF Fuse, len, Cleared
<1> HIDE DEF n, k
<1>5. /\ n \in Mem
      /\ \A w \in Words : n[w] =
           IF w = b \/ w = b + len - 1 THEN [size |-> len, used |-> FALSE] ELSE k[w]
  <2>1. /\ Cleared(k, b, len) \in Mem
        /\ \A w \in Words : Cleared(k, b, len)[w] =
             IF w = b \/ w = b + len - 1 THEN [size |-> len, used |-> FALSE] ELSE k[w]
    BY <1>1, <1>2, <1>3, StampFreeIs
  <2>2. QED
    BY <1>4, <2>1
<1>6. n[b] = [size |-> len, used |-> FALSE] /\ n[b].size = len /\ ~n[b].used
  <2>1. n[b] = [size |-> len, used |-> FALSE]
    BY ONLY <1>1, <1>5
  <2>2. QED
    BY <2>1
<1>7. Whole(n, b)
  <2>1. n[b + len - 1] = n[b]
    <3>1. b + len - 1 \in Words
      BY <1>1, <1>2 DEF Words
    <3>2. QED
      BY <1>5, <1>6, <3>1
  <2>2. ASSUME NEW w \in (b + 1)..(b + len - 2) PROVE n[w] = NoTag
    <3>1. w \in Words /\ w \in Nat /\ w # b /\ w # b + len - 1
      BY <1>1, <1>2 DEF Words
    <3>2. n[w] = k[w]
      BY <1>5, <3>1
    <3>3. CASE w = b + sb - 1 \/ w = c
      BY <1>3, <3>1, <3>2, <3>3
    <3>4. CASE w # b + sb - 1 /\ w # c
      <4>1. w \in (b + 1)..(b + sb - 2) \/ w \in (c + 1)..(c + sc - 2)
        BY <1>1, <1>2, <3>1, <3>4
      <4>2. m[w] = NoTag
        BY <4>1 DEF Tiling, Whole, sb, sc
      <4>3. QED
        BY <1>3, <3>1, <3>2, <3>4, <4>2
    <3>5. QED
      BY <3>3, <3>4
  <2>3. QED
    BY <1>2, <1>6, <2>1, <2>2 DEF Whole
<1>8. ASSUME NEW d \in B \ {b, c}
      PROVE  /\ Whole(n, d) /\ n[d] = m[d] /\ d + m[d].size <= top
             /\ d \in Nat /\ m[d].size \in Nat
             /\ d + m[d].size <= b \/ b + len <= d
  <2>1. /\ d \in Nat /\ d \in Words /\ m[d].size \in Nat /\ m[d].size > 0
        /\ d + m[d].size <= top
    BY BlockNumbers
  <2>2. /\ b + sb <= d \/ d + m[d].size <= b
        /\ c + sc <= d \/ d + m[d].size <= c
    BY BlocksApart DEF sb, sc
  <2>3. d + m[d].size <= b \/ b + len <= d
    BY <1>1, <1>2, <2>1, <2>2
  <2>4. \A w \in d..(d + m[d].size - 1) :
          w \in Words /\ w # b /\ w # b + len - 1 /\ w # b + sb - 1 /\ w # c
    BY <1>1, <1>2, <2>1, <2>3 DEF Words
  <2>5. \A w \in d..(d + m[d].size - 1) : n[w] = m[w]
    BY <1>3, <1>5, <2>4
  <2>6. Whole(m, d)
    BY DEF Tiling
  <2>7. QED
    BY <1>5, <2>1, <2>3, <2>5, <2>6, WholeStays
<1>9. Tiling(B \ {c}, n, top)
  <2>1. B \ {c} \subseteq Words /\ top \in 0..PartWords
    BY DEF Tiling
  <2>2. ASSUME NEW d \in B \ {c} PROVE Whole(n, d) /\ d + n[d].size <= top
    <3>1. CASE d = b
      BY <1>1, <1>2, <1>6, <1>7, <3>1
    <3>2. CASE d # b
      BY <1>8, <3>2
    <3>3. QED
      BY <3>1, <3>2
  <2>3. ASSUME NEW d \in B \ {c}, NEW e \in B \ {c}, d < e
        PROVE  d + n[d].size <= e
    <3>1. CASE d = b
      <4>1. e # b /\ e \in Nat
        BY <1>1, <1>8, <2>3, <3>1
      <4>2. QED
        BY <1>1, <1>2, <1>6, <1>8, <2>3, <3>1, <4>1
    <3>2. CASE d # b
      BY <1>8, <2>3, <3>2 DEF Tiling
    <3>3. QED
      BY <3>1, <3>2
  <2>4. ASSUME NEW w \in 0..(top - 1)
        PROVE  \E d \in B \ {c} : d <= w /\ w < d + n[d].size
    <3>1. PICK d \in B : d <= w /\ w < d + m[d].size
      BY DEF Tiling
    <3>2. CASE d = b \/ d = c
      <4>1. b <= w /\ w < b + len
        BY <1>1, <1>2, <3>1, <3>2 DEF sb, sc
      <4>2. b \in B \ {c}
        BY <1>1
      <4>3. QED
        BY <1>6, <4>1, <4>2
    <3>3. CASE d # b /\ d # c
      BY <1>8, <3>1, <3>3
    <3>4. QED
      BY <3>2, <3>3
  <2>5. ASSUME NEW w \in top..(PartWords - 1) PROVE n[w] = NoTag
    <3>1. w \in Words /\ w # b /\ w # b + len - 1 /\ w # b + sb - 1 /\ w # c
      BY <1>1, <1>2 DEF Words
    <3>2. m[w] = NoTag
      BY DEF Tiling
    <3>3. QED
      BY <1>3, <1>5, <3>1, <3>2
  <2>6. QED
    BY <2>1, <2>2, <2>3, <2>4, <2>5 DEF Tiling
<1>10. QED
  BY <1>5, <1>6, <1>8, <1>9 DEF n, len, sb, sc, FreeOf, Keeps

(* One block becomes two.                                                  *)
LEMMA CutTiling ==
  ASSUME NEW B, NEW m \in Mem, NEW top, Tiling(B, m, top), NEW b \in B,
         NEW len \in Nat \ {0}, len < m[b].size
  PROVE  LET c == b + len
             n == Cleared(Cleared(m, b, len), c, m[b].size - len)
         IN  /\ c \notin B /\ c \in Words /\ c # b
             /\ n \in Mem /\ Tiling(B \cup {c}, n, top)
             /\ FreeOf(n, b, len) /\ FreeOf(n, c, m[b].size - len)
             /\ Keeps(n, m, B \ {b})
<1> DEFINE sb == m[b].size
           sc == sb - len
           c == b + len
           k == Cleared(m, b, len)
           n == Cleared(k, c, sc)
<1>1. /\ b \in Nat /\ b \in Words /\ sb \in Nat /\ sb > 0 /\ sb \in 1..PartWords
      /\ top \in Nat /\ b + sb <= top /\ top <= PartWords /\ PartWords \in Nat
  BY BlockNumbers, PartAssumption
<1>2. /\ c \in Nat /\ c \in Words /\ c > b /\ sc \in Nat /\ sc > 0 /\ c + sc = b + sb
      /\ len \in 1..PartWords /\ sc \in 1..PartWords /\ b + len <= PartWords
      /\ c + sc <= PartWords
  BY <1>1 DEF Words
<1> HIDE DEF sb, sc
<1>3. /\ k \in Mem
      /\ \A w \in Words : k[w] =
           IF w = b \/ w = b + len - 1 THEN [size |-> len, used |-> FALSE] ELSE m[w]
  BY <1>1, <1>2, StampFreeIs
<1>c. c = b + len
  OBVIOUS
<1> HIDE DEF k, c
<1>4. /\ n \in Mem
      /\ \A w \in Words : n[w] =
           IF w = c \/ w = c + sc - 1 THEN [size |-> sc, used |-> FALSE] ELSE k[w]
  BY <1>2, <1>3, StampFreeIs
<1> HIDE DEF n
<1>5. n[b] = [size |-> len, used |-> FALSE] /\ n[b].size = len /\ ~n[b].used
  <2>1. b # c /\ b # c + sc - 1
    BY <1>1, <1>2
  <2>2. n[b] = k[b]
    BY <1>1, <1>4, <2>1
  <2>3. k[b] = [size |-> len, used |-> FALSE]
    BY ONLY <1>1, <1>3
  <2>4. n[b] = [size |-> len, used |-> FALSE]
    BY <2>2, <2>3
  <2>5. QED
    BY <2>4
<1>6. n[c] = [size |-> sc, used |-> FALSE] /\ n[c].size = sc /\ ~n[c].used
  <2>1. n[c] = [size |-> sc, used |-> FALSE]
    BY ONLY <1>2, <1>4
  <2>2. QED
    BY <2>1
<1>7. \A w \in Words : w # b /\ w # b + len - 1 /\ w # c /\ w # c + sc - 1 => n[w] = m[w]
  BY <1>3, <1>4
<1>8. \A w \in (b + 1)..(b + sb - 2) : m[w] = NoTag
  BY DEF Tiling, Whole, sb
<1>9. Whole(n, b)
  <2>1. n[b + len - 1] = n[b]
    <3>1. b + len - 1 \in Words /\ b + len - 1 # c /\ b + len - 1 # c + sc - 1
      BY <1>1, <1>2, <1>c DEF Words
    <3>2. n[b + len - 1] = k[b + len - 1]
      BY <1>4, <3>1
    <3>3. k[b + len - 1] = [size |-> len, used |-> FALSE]
      BY ONLY <1>3, <3>1
    <3>4. QED
      BY <1>5, <3>2, <3>3
  <2>2. ASSUME NEW w \in (b + 1)..(b + len - 2) PROVE n[w] = NoTag
    <3>1. /\ w \in Words /\ w # b /\ w # b + len - 1 /\ w # c /\ w # c + sc - 1
          /\ w \in (b + 1)..(b + sb - 2)
      BY <1>1, <1>2, <1>c DEF Words
    <3>2. QED
      BY <1>7, <1>8, <3>1
  <2>3. QED
    BY <1>2, <1>5, <2>1, <2>2 DEF Whole
<1>10. Whole(n, c)
  <2>1. n[c + sc - 1] = n[c]
    <3>1. c + sc - 1 \in Words
      BY <1>1, <1>2 DEF Words
    <3>2. n[c + sc - 1] = [size |-> sc, used |-> FALSE]
      BY ONLY <1>4, <3>1
    <3>3. QED
      BY <1>6, <3>2
  <2>2. ASSUME NEW w \in (c + 1)..(c + sc - 2) PROVE n[w] = NoTag
    <3>1. /\ w \in Words /\ w # b /\ w # b + len - 1 /\ w # c /\ w # c + sc - 1
          /\ w \in (b + 1)..(b + sb - 2)
      BY <1>1, <1>2, <1>c DEF Words
    <3>2. QED
      BY <1>7, <1>8, <3>1
  <2>3. QED
    BY <1>2, <1>6, <2>1, <2>2 DEF Whole
<1>11. ASSUME NEW d \in B \ {b}
       PROVE  /\ Whole(n, d) /\ n[d] = m[d] /\ d + m[d].size <= top
              /\ d \in Nat /\ m[d].size \in Nat /\ m[d].size > 0
              /\ d + m[d].size <= b \/ b + sb <= d
  <2>1. /\ d \in Nat /\ d \in Words /\ m[d].size \in Nat /\ m[d].size > 0
        /\ d + m[d].size <= top
    BY BlockNumbers
  <2>2. d + m[d].size <= b \/ b + sb <= d
    BY BlocksApart DEF sb
  <2>3. \A w \in d..(d + m[d].size - 1) :
          w \in Words /\ w # b /\ w # b + len - 1 /\ w # c /\ w # c + sc - 1
    BY <1>1, <1>2, <1>c, <2>1, <2>2 DEF Words
  <2>4. Whole(m, d)
    BY DEF Tiling
  <2>5. QED
    BY <1>4, <1>7, <2>1, <2>2, <2>3, <2>4, WholeStays
<1>12. c \notin B
  <2>1. SUFFICES ASSUME c \in B PROVE FALSE
    OBVIOUS
  <2>2. c \in B \ {b}
    BY <1>1, <1>2, <2>1
  <2>3. c + m[c].size <= b \/ b + sb <= c
    BY <1>11, <2>2
  <2>4. QED
    BY <1>1, <1>2, <1>11, <2>2, <2>3
<1>13. Tiling(B \cup {c}, n, top)
  <2>1. B \cup {c} \subseteq Words /\ top \in 0..PartWords
    BY <1>2 DEF Tiling
  <2>2. ASSUME NEW d \in B \cup {c} PROVE Whole(n, d) /\ d + n[d].size <= top
    <3>1. CASE d = b
      BY <1>1, <1>2, <1>c, <1>5, <1>9, <3>1
    <3>2. CASE d = c
      BY <1>1, <1>2, <1>6, <1>10, <3>2
    <3>3. CASE d # b /\ d # c
      BY <1>11, <3>3
    <3>4. QED
      BY <3>1, <3>2, <3>3
  <2>3. ASSUME NEW d \in B \cup {c}, NEW e \in B \cup {c}, d < e
        PROVE  d + n[d].size <= e
    <3>1. CASE d = b
      <4>1. CASE e = c
        BY <1>1, <1>2, <1>c, <1>5, <3>1, <4>1
      <4>2. CASE e # c
        <5>1. e \in B \ {b}
          BY <1>1, <2>3, <3>1, <4>2
        <5>2. b + sb <= e
          BY <1>1, <1>11, <2>3, <3>1, <5>1
        <5>3. b + len <= e
          <6>1. e \in Nat /\ c + sc <= e
            BY <1>2, <1>11, <5>1, <5>2
          <6>2. QED
            BY <1>2, <1>c, <6>1
        <5>4. QED
          BY <1>5, <3>1, <5>3
      <4>3. QED
        BY <4>1, <4>2
    <3>2. CASE d = c
      <4>1. e \in B \ {b}
        BY <1>1, <1>2, <2>3, <3>2
      <4>2. b + sb <= e
        BY <1>1, <1>2, <1>11, <2>3, <3>2, <4>1
      <4>3. QED
        BY <1>2, <1>6, <3>2, <4>2
    <3>3. CASE d # b /\ d # c
      <4>1. d \in B \ {b}
        BY <3>3
      <4>2. CASE e = c
        <5>1. d + m[d].size <= b
          BY <1>1, <1>2, <1>11, <2>3, <4>1, <4>2
        <5>2. QED
          BY <1>1, <1>2, <1>11, <4>1, <4>2, <5>1
      <4>3. CASE e # c
        BY <1>11, <2>3, <4>1, <4>3 DEF Tiling
      <4>4. QED
        BY <4>2, <4>3
    <3>4. QED
      BY <3>1, <3>2, <3>3
  <2>4. ASSUME NEW w \in 0..(top - 1)
        PROVE  \E d \in B \cup {c} : d <= w /\ w < d + n[d].size
    <3>1. PICK d \in B : d <= w /\ w < d + m[d].size
      BY DEF Tiling
    <3>2. CASE d = b
      <4>1. CASE w < c
        BY <1>c, <1>5, <3>1, <3>2, <4>1
      <4>2. CASE c <= w
        BY <1>1, <1>2, <1>6, <3>1, <3>2, <4>2 DEF sb
      <4>3. QED
        BY <1>1, <1>2, <4>1, <4>2
    <3>3. CASE d # b
      BY <1>11, <3>1, <3>3
    <3>4. QED
      BY <3>2, <3>3
  <2>5. ASSUME NEW w \in top..(PartWords - 1) PROVE n[w] = NoTag
    <3>1. w \in Words /\ w # b /\ w # b + len - 1 /\ w # c /\ w # c + sc - 1
      BY <1>1, <1>2, <1>c DEF Words
    <3>2. m[w] = NoTag
      BY DEF Tiling
    <3>3. QED
      BY <1>7, <3>1, <3>2
  <2>6. QED
    BY <2>1, <2>2, <2>3, <2>4, <2>5 DEF Tiling
<1>14. c # b
  BY <1>1, <1>2
<1>15. QED
  BY <1>2, <1>4, <1>5, <1>6, <1>11, <1>12, <1>13, <1>14 DEF n, k, c, sc, sb, FreeOf, Keeps

------------------------------------------------------------------------------
(* The lists depend on the free blocks only.                               *)
LEMMA FiledFrame ==
  ASSUME NEW hs, NEW F, NEW G, NEW m, NEW n, Filed(hs, F, m),
         \A i \in Classes : {b \in F : ~m[b].used /\ m[b].size = BlockSize(i)}
                            = {b \in G : ~n[b].used /\ n[b].size = BlockSize(i)}
  PROVE  Filed(hs, G, n)
BY DEF Filed

(* A block of a class goes to the front of the list of its class.          *)
LEMMA FiledInsert ==
  ASSUME NEW hs \in Lists, NEW F \in SUBSET Words, NEW m \in Mem, Filed(hs, F, m),
         NEW b \in Words, b \notin F, ~m[b].used, NEW k \in Classes, m[b].size = BlockSize(k)
  PROVE  LET ls == segregated_fits_insert_block_head(hs, k, b)
         IN  /\ ls \in Lists /\ Filed(ls, F \cup {b}, m)
             /\ NonEmpty(ls, k) /\ Others(ls, hs, k)
<1> DEFINE ls == segregated_fits_insert_block_head(hs, k, b)
           Free(S, i) == {c \in S : ~m[c].used /\ m[c].size = BlockSize(i)}
<1>1. /\ hs[k] \in Seq(Words) /\ IsInjective(hs[k]) /\ Range(hs[k]) = Free(F, k)
      /\ b \notin Range(hs[k])
  BY DEF Lists, Filed
<1>2. /\ <<b>> \o hs[k] \in Seq(Words) /\ <<b>> \o hs[k] # <<>>
      /\ IsInjective(<<b>> \o hs[k]) /\ Range(<<b>> \o hs[k]) = Free(F, k) \cup {b}
  <2> HIDE DEF Free
  <2>1. QED
    BY <1>1, ConsProperties
<1>3. ls \in Lists /\ ls[k] = <<b>> \o hs[k] /\ \A i \in Classes \ {k} : ls[i] = hs[i]
  BY <1>2 DEF segregated_fits_insert_block_head, Lists
<1>4. Free(F \cup {b}, k) = Free(F, k) \cup {b}
  OBVIOUS
<1>5. \A i \in Classes \ {k} : Free(F \cup {b}, i) = Free(F, i)
  BY Sizes
<1>6. \A i \in Classes : Range(hs[i]) = Free(F, i) /\ IsInjective(hs[i])
  BY DEF Filed
<1> HIDE DEF ls, Free
<1>7. \A i \in Classes : Range(ls[i]) = Free(F \cup {b}, i) /\ IsInjective(ls[i])
  BY <1>2, <1>3, <1>4, <1>5, <1>6
<1>8. Filed(ls, F \cup {b}, m)
  BY <1>7 DEF Filed, Free
<1>9. QED
  BY <1>2, <1>3, <1>8 DEF ls, NonEmpty, Others

(* A list that is replaced by one without a block lacks just that block.   *)
LEMMA FiledRemove ==
  ASSUME NEW hs, NEW F, NEW m, Filed(hs, F, m),
         NEW b, NEW k \in Classes, m[b].size = BlockSize(k),
         NEW ls, IsInjective(ls[k]), Range(ls[k]) = Range(hs[k]) \ {b},
         \A i \in Classes \ {k} : ls[i] = hs[i]
  PROVE  Filed(ls, F \ {b}, m)
<1> DEFINE Free(S, i) == {c \in S : ~m[c].used /\ m[c].size = BlockSize(i)}
<1>2. Free(F \ {b}, k) = Free(F, k) \ {b}
  OBVIOUS
<1>3. \A i \in Classes \ {k} : Free(F \ {b}, i) = Free(F, i)
  BY Sizes
<1>4. \A i \in Classes : Range(hs[i]) = Free(F, i) /\ IsInjective(hs[i])
  BY DEF Filed
<1> HIDE DEF Free
<1>5. \A i \in Classes : Range(ls[i]) = Free(F \ {b}, i) /\ IsInjective(ls[i])
  BY <1>2, <1>3, <1>4
<1>6. QED
  BY <1>5 DEF Filed, Free

(* The first block of a list is a free one of its class; the rest of the   *)
(* list is without it.                                                     *)
LEMMA FiledTail ==
  ASSUME NEW hs \in Lists, NEW F \in SUBSET Words, NEW m \in Mem, Filed(hs, F, m),
         NEW k \in Classes, hs[k] # <<>>
  PROVE  LET b  == Head(hs[k])
             ls == Popped(hs, k)
         IN  /\ b \in F /\ FreeOf(m, b, BlockSize(k))
             /\ ls \in Lists /\ Filed(ls, F \ {b}, m)
             /\ Others(ls, hs, k)
<1> DEFINE b == Head(hs[k])
           ls == Popped(hs, k)
<1>1. /\ hs[k] \in Seq(Words) /\ IsInjective(hs[k])
      /\ Range(hs[k]) = {c \in F : ~m[c].used /\ m[c].size = BlockSize(k)}
  BY DEF Lists, Filed
<1>2. /\ b \in Range(hs[k]) /\ Tail(hs[k]) \in Seq(Words) /\ IsInjective(Tail(hs[k]))
      /\ Range(Tail(hs[k])) = Range(hs[k]) \ {b}
  BY <1>1, TailProperties
<1>3. b \in F /\ ~m[b].used /\ m[b].size = BlockSize(k)
  BY <1>1, <1>2
<1>4. ls \in Lists /\ ls[k] = Tail(hs[k]) /\ \A i \in Classes \ {k} : ls[i] = hs[i]
  BY <1>2 DEF Lists, Popped
<1> HIDE DEF b, ls
<1>5. IsInjective(ls[k]) /\ Range(ls[k]) = Range(hs[k]) \ {b}
  BY <1>2, <1>4
<1>6. Filed(ls, F \ {b}, m)
  BY <1>3, <1>4, <1>5, FiledRemove
<1>7. QED
  BY <1>3, <1>4, <1>6 DEF b, ls, FreeOf, Others

(* A free block that is not too large for a class leaves its list; one too *)
(* small is in none.  Nothing is found missing: the merges' assertion.     *)
LEMMA FiledUnlist ==
  ASSUME NEW hs \in Lists, NEW F \in SUBSET Words, NEW m \in Mem, Filed(hs, F, m),
         NEW b \in F, ~m[b].used, m[b].size < MaxSize
  PROVE  LET ls == Unlist(hs, b, m[b].size)
             k  == BlockClass(m[b].size)
         IN  /\ ls \in Lists /\ Filed(ls, F \ {b}, m)
             /\ k >= 0 => /\ k \in Classes /\ k = ListOf(m[b].size)
                          /\ b \in Range(hs[k])
             /\ Others(ls, hs, k)
<1> DEFINE k == BlockClass(m[b].size)
           ls == Unlist(hs, b, m[b].size)
<1>1. m[b].size \in Nat /\ k \in Int /\ k < ClassCount /\ ClassCount \in Nat
  BY PartAssumption DEF Mem, BlockClass, MaxSize, BlockSize
<1>2. CASE k < 0
  <2>1. ls = hs
    BY <1>2 DEF Unlist
  <2>2. \A i \in Classes : m[b].size # BlockSize(i)
    BY <1>1, <1>2, Sizes DEF BlockClass
  <2>3. \A i \in Classes : {c \in F : ~m[c].used /\ m[c].size = BlockSize(i)}
                           = {c \in F \ {b} : ~m[c].used /\ m[c].size = BlockSize(i)}
    BY <2>2
  <2>4. Filed(ls, F \ {b}, m)
    BY <2>1, <2>3, FiledFrame
  <2>5. QED
    BY <1>1, <1>2, <2>1, <2>4 DEF Others
<1>3. CASE k >= 0
  <2>1. k \in Classes /\ m[b].size = BlockSize(k) /\ ListOf(m[b].size) = k
    BY <1>1, <1>3, PartAssumption DEF Classes, BlockSize, BlockClass, ListOf
  <2>2. hs[k] \in Seq(Words) /\ IsInjective(hs[k]) /\ b \in Range(hs[k])
    BY <2>1 DEF Lists, Filed
  <2>4. /\ RemoveFirst(hs[k], b) \in Seq(Words) /\ IsInjective(RemoveFirst(hs[k], b))
        /\ Range(RemoveFirst(hs[k], b)) = Range(hs[k]) \ {b}
    BY <2>2, RemoveFirstProperties
  <2>5. /\ ls \in Lists /\ ls[k] = RemoveFirst(hs[k], b)
        /\ \A i \in Classes \ {k} : ls[i] = hs[i]
    BY <1>1, <1>3, <2>1, <2>4 DEF Unlist, Lists
  <2> HIDE DEF k, ls
  <2>6. IsInjective(ls[k]) /\ Range(ls[k]) = Range(hs[k]) \ {b}
    BY <2>4, <2>5
  <2>7. Filed(ls, F \ {b}, m)
    BY <2>1, <2>5, <2>6, FiledRemove
  <2>8. QED
    BY <2>1, <2>2, <2>5, <2>7 DEF k, ls, Others
<1>4. QED
  BY <1>1, <1>2, <1>3

------------------------------------------------------------------------------
(* A block in use comes back: it is in hand.                               *)
LEMMA ShapeFreed ==
  ASSUME NEW B, NEW m, NEW hs, NEW own, NEW top, Shape(B, m, hs, own, {}, top),
         NEW b \in own
  PROVE  LET n == Cleared(m, b, m[b].size)
         IN  /\ Shape(B, n, hs, own \ {b}, {b}, top)
             /\ FreeOf(n, b, m[b].size) /\ m[b].size < MaxSize /\ b \in Words
             /\ Keeps(n, m, own \ {b})
<1> DEFINE n == Cleared(m, b, m[b].size)
<1>1. /\ m \in Mem /\ hs \in Lists /\ Tiling(B, m, top) /\ own \subseteq B /\ b \in B
      /\ \A c \in B : m[c].used <=> c \in own
      /\ Filed(hs, B, m) /\ \A c \in B : m[c].size < MaxSize /\ B \subseteq Words
  <2>1. B \ {} = B
    OBVIOUS
  <2>2. QED
    BY <2>1 DEF Shape, Tiling
<1>2. n \in Mem /\ Tiling(B, n, top) /\ FreeOf(n, b, m[b].size) /\ Keeps(n, m, B \ {b})
  BY <1>1, ClearTiling
<1> HIDE DEF n
<1>3. n[b].size = m[b].size /\ ~n[b].used /\ \A c \in B \ {b} : n[c] = m[c]
  BY <1>2 DEF FreeOf, Keeps
<1>4. \A i \in Classes : {c \in B : ~m[c].used /\ m[c].size = BlockSize(i)}
                        = {c \in B \ {b} : ~n[c].used /\ n[c].size = BlockSize(i)}
  BY <1>1, <1>3
<1>5. Filed(hs, B \ {b}, n)
  BY <1>1, <1>4, FiledFrame
<1>6. Shape(B, n, hs, own \ {b}, {b}, top)
  BY <1>1, <1>2, <1>3, <1>5 DEF Shape
<1>7. Keeps(n, m, own \ {b})
  BY <1>1, <1>3 DEF Keeps
<1>8. QED
  BY <1>1, <1>2, <1>6, <1>7 DEF n

(* The first block of a list is taken out of it: it is in hand.            *)
LEMMA ShapeTaken ==
  ASSUME NEW B, NEW m, NEW hs, NEW own, NEW top, Shape(B, m, hs, own, {}, top),
         NEW k \in Classes, NonEmpty(hs, k)
  PROVE  LET b  == Head(hs[k])
             ls == Popped(hs, k)
         IN  /\ Shape(B, m, ls, own, {b}, top)
             /\ FreeOf(m, b, BlockSize(k)) /\ b \in Words /\ b \notin own
             /\ Others(ls, hs, k)
<1> DEFINE b  == Head(hs[k])
           ls == Popped(hs, k)
<1>1. /\ m \in Mem /\ hs \in Lists /\ Tiling(B, m, top) /\ own \subseteq B
      /\ \A c \in B : m[c].used <=> c \in own
      /\ Filed(hs, B, m) /\ \A c \in B : m[c].size < MaxSize /\ B \in SUBSET Words
  <2>1. B \ {} = B
    OBVIOUS
  <2>2. QED
    BY <2>1 DEF Shape, Tiling
<1>2. hs[k] # <<>>
  BY DEF NonEmpty
<1>3. /\ b \in B /\ FreeOf(m, b, BlockSize(k))
      /\ ls \in Lists /\ Filed(ls, B \ {b}, m)
      /\ Others(ls, hs, k)
  BY <1>1, <1>2, FiledTail
<1> HIDE DEF b, ls
<1>4. b \notin own /\ b \in Words
  BY <1>1, <1>3 DEF FreeOf
<1>5. Shape(B, m, ls, own, {b}, top)
  BY <1>1, <1>3, <1>4 DEF Shape
<1>6. QED
  BY <1>3, <1>4, <1>5 DEF b, ls

(* The block in hand is handed out.                                        *)
LEMMA ShapeGiven ==
  ASSUME NEW B, NEW m, NEW hs, NEW own, NEW top, NEW b, Shape(B, m, hs, own, {b}, top),
         m[b].size < MaxSize
  PROVE  LET n == Marked(m, b, m[b].size)
         IN  /\ Shape(B, n, hs, own \cup {b}, {}, top)
             /\ UsedOf(n, b, m[b].size) /\ Keeps(n, m, own)
<1> DEFINE n == Marked(m, b, m[b].size)
<1>1. /\ m \in Mem /\ hs \in Lists /\ Tiling(B, m, top) /\ own \subseteq B
      /\ b \in B /\ b \notin own
      /\ \A c \in B : m[c].used <=> c \in own
      /\ Filed(hs, B \ {b}, m) /\ \A c \in B : m[c].size < MaxSize /\ B \subseteq Words
  BY DEF Shape, Tiling
<1>2. n \in Mem /\ Tiling(B, n, top) /\ UsedOf(n, b, m[b].size) /\ Keeps(n, m, B \ {b})
  BY <1>1, MarkTiling
<1> HIDE DEF n
<1>3. n[b].size = m[b].size /\ n[b].used /\ \A c \in B \ {b} : n[c] = m[c]
  BY <1>2 DEF UsedOf, Keeps
<1>4. \A i \in Classes : {c \in B \ {b} : ~m[c].used /\ m[c].size = BlockSize(i)}
                        = {c \in B : ~n[c].used /\ n[c].size = BlockSize(i)}
  BY <1>3
<1>5. Filed(hs, B, n)
  BY <1>1, <1>4, FiledFrame
<1>6. B \ {} = B
  OBVIOUS
<1>7. Shape(B, n, hs, own \cup {b}, {}, top)
  BY <1>1, <1>2, <1>3, <1>5, <1>6 DEF Shape
<1>8. Keeps(n, m, own)
  BY <1>1, <1>3 DEF Keeps
<1>9. QED
  BY <1>2, <1>7, <1>8 DEF n

(* The block in hand goes to the list of its class, if it has one.         *)
FiledIn(hs, k, b) == IF k < 0 THEN hs ELSE segregated_fits_insert_block_head(hs, k, b)

LEMMA ShapeFiled ==
  ASSUME NEW B, NEW m, NEW hs, NEW own, NEW top, NEW b, Shape(B, m, hs, own, {b}, top),
         m[b].size < MaxSize
  PROVE  LET k  == BlockClass(m[b].size)
             ls == FiledIn(hs, k, b)
         IN  /\ Shape(B, m, ls, own, {}, top)
             /\ k >= 0 => k \in Classes /\ NonEmpty(ls, k)
             /\ Others(ls, hs, k)
<1> DEFINE k  == BlockClass(m[b].size)
           ls == FiledIn(hs, k, b)
           F  == B \ {b}
<1>1. /\ m \in Mem /\ hs \in Lists /\ Tiling(B, m, top) /\ own \subseteq B
      /\ b \in B /\ b \notin own /\ ~m[b].used /\ b \in Words
      /\ \A c \in B : m[c].used <=> c \in own
      /\ Filed(hs, F, m) /\ \A c \in B : m[c].size < MaxSize /\ B \subseteq Words
      /\ F \in SUBSET Words /\ F \cup {b} = B /\ b \notin F
  BY DEF Shape, Tiling
<1>2. m[b].size \in Nat /\ k \in Int /\ k < ClassCount /\ ClassCount \in Nat
  BY <1>1, PartAssumption DEF Mem, BlockClass, MaxSize, BlockSize
<1>3. SUFFICES /\ ls \in Lists /\ Filed(ls, B, m)
               /\ k >= 0 => k \in Classes /\ NonEmpty(ls, k)
               /\ Others(ls, hs, k)
  <2>1. B \ {} = B
    OBVIOUS
  <2> HIDE DEF k, ls
  <2>2. Shape(B, m, ls, own, {}, top)
    BY <1>1, <1>3, <2>1 DEF Shape
  <2>3. QED
    BY <1>3, <2>2 DEF k, ls
<1>4. CASE k < 0
  <2>1. ls = hs
    BY <1>4 DEF FiledIn
  <2>2. \A i \in Classes : m[b].size # BlockSize(i)
    BY <1>2, <1>4, Sizes DEF BlockClass
  <2>3. \A i \in Classes : {c \in F : ~m[c].used /\ m[c].size = BlockSize(i)}
                          = {c \in B : ~m[c].used /\ m[c].size = BlockSize(i)}
    BY <1>1, <2>2
  <2>4. Filed(hs, B, m)
    BY <1>1, <2>3, FiledFrame
  <2>5. QED
    BY <1>1, <1>2, <1>4, <2>1, <2>4 DEF Others
<1>5. CASE k >= 0
  <2>1. k \in Classes /\ m[b].size = BlockSize(k)
    BY <1>2, <1>5, PartAssumption DEF Classes, BlockSize, BlockClass
  <2>2. ls = segregated_fits_insert_block_head(hs, k, b)
    BY <1>2, <1>5 DEF FiledIn
  <2> HIDE DEF k, ls, F
  <2>3. /\ ls \in Lists /\ Filed(ls, F \cup {b}, m)
        /\ NonEmpty(ls, k) /\ Others(ls, hs, k)
    BY <1>1, <2>1, <2>2, FiledInsert
  <2>4. QED
    BY <1>1, <2>1, <2>3
<1>6. QED
  BY <1>2, <1>4, <1>5

(* A free neighbour of the block in hand is fused with it.                 *)
LEMMA ShapeFused ==
  ASSUME NEW B, NEW m, NEW hs, NEW own, NEW top, NEW x, NEW y,
         Shape(B, m, hs, own, {x}, top),
         NEW b \in B, NEW c \in B, c = b + m[b].size,
         (x = b /\ y = c) \/ (x = c /\ y = b), ~m[y].used
  PROVE  LET n  == Fuse(m, b, m[b].size, m[c].size)
             ls == Unlist(hs, y, m[y].size)
             k  == BlockClass(m[y].size)
         IN  /\ Shape(B \ {c}, n, ls, own, {b}, top)
             /\ FreeOf(n, b, m[b].size + m[c].size) /\ Keeps(n, m, own)
             /\ Small(m, y) /\ m[b].size \in Nat /\ m[c].size \in Nat
             /\ k >= 0 => k = ListOf(m[y].size) /\ y \in Range(hs[k])
             /\ Others(ls, hs, k)
<1> DEFINE n  == Fuse(m, b, m[b].size, m[c].size)
           ls == Unlist(hs, y, m[y].size)
           k  == BlockClass(m[y].size)
           F  == B \ {x}
<1>1. /\ m \in Mem /\ hs \in Lists /\ Tiling(B, m, top) /\ own \subseteq B
      /\ x \in B /\ x \notin own
      /\ \A d \in B : m[d].used <=> d \in own
      /\ Filed(hs, F, m) /\ \A d \in B \ {x} : m[d].size < MaxSize
      /\ B \subseteq Words
  BY DEF Shape, Tiling
<1>2. m[b].size \in Nat /\ m[b].size > 0 /\ m[c].size \in Nat /\ b \in Nat /\ b # c
  <2>1. m[b].size \in Nat /\ m[b].size > 0 /\ m[c].size \in Nat /\ b \in Nat
    BY <1>1, BlockNumbers
  <2>2. QED
    BY <2>1
<1>3. /\ n \in Mem /\ Tiling(B \ {c}, n, top)
      /\ FreeOf(n, b, m[b].size + m[c].size) /\ Keeps(n, m, B \ {b, c})
  BY <1>1, <1>2, FuseTiling
<1>4. /\ y \in F /\ y \notin own /\ F \in SUBSET Words /\ m[y].size < MaxSize
      /\ F \ {y} = B \ {b, c}
  BY <1>1, <1>2
<1> HIDE DEF F
<1>5. /\ ls \in Lists /\ Filed(ls, F \ {y}, m)
      /\ k >= 0 => k \in Classes /\ k = ListOf(m[y].size) /\ y \in Range(hs[k])
      /\ Others(ls, hs, k)
  BY <1>1, <1>4, FiledUnlist
<1> HIDE DEF n, ls, k
<1>6. /\ n[b].size = m[b].size + m[c].size /\ ~n[b].used
      /\ \A d \in B \ {b, c} : n[d] = m[d]
  BY <1>3 DEF FreeOf, Keeps
<1>7. Filed(ls, (B \ {c}) \ {b}, n)
  <2>1. \A i \in Classes : {d \in F \ {y} : ~m[d].used /\ m[d].size = BlockSize(i)}
                          = {d \in (B \ {c}) \ {b} : ~n[d].used /\ n[d].size = BlockSize(i)}
    BY <1>4, <1>6
  <2>2. QED
    BY <1>5, <2>1, FiledFrame
<1>8. Shape(B \ {c}, n, ls, own, {b}, top)
  <2>1. own \subseteq B \ {c} /\ \A d \in B \ {c} : n[d].used <=> d \in own
    BY <1>1, <1>4, <1>6
  <2>2. {b} \subseteq (B \ {c}) \ own
    BY <1>1, <1>2, <1>4
  <2>3. \A d \in (B \ {c}) \ {b} : n[d].size < MaxSize
    BY <1>1, <1>4, <1>6 DEF F
  <2>4. QED
    BY <1>3, <1>5, <1>7, <2>1, <2>2, <2>3 DEF Shape
<1>9. Keeps(n, m, own)
  BY <1>1, <1>4, <1>6 DEF Keeps
<1>10. QED
  BY <1>2, <1>3, <1>4, <1>5, <1>8, <1>9 DEF n, ls, k, Small

(* A block of a class is cut off the front of the block in hand and filed. *)
LEMMA ShapeCut ==
  ASSUME NEW B, NEW m, NEW hs, NEW own, NEW top, NEW b, Shape(B, m, hs, own, {b}, top),
         NEW k \in Classes, BlockSize(k) < m[b].size
  PROVE  LET c  == b + BlockSize(k)
             n  == Cleared(Cleared(m, b, BlockSize(k)), c, m[b].size - BlockSize(k))
             ls == segregated_fits_insert_block_head(hs, k, b)
         IN  /\ Shape(B \cup {c}, n, ls, own, {c}, top)
             /\ FreeOf(n, c, m[b].size - BlockSize(k)) /\ Keeps(n, m, own)
             /\ c \in Words /\ m[b].size \in Nat
             /\ NonEmpty(ls, k) /\ Others(ls, hs, k)
<1> DEFINE c  == b + BlockSize(k)
           n  == Cleared(Cleared(m, b, BlockSize(k)), c, m[b].size - BlockSize(k))
           ls == segregated_fits_insert_block_head(hs, k, b)
           F  == B \ {b}
<1>1. /\ m \in Mem /\ hs \in Lists /\ Tiling(B, m, top) /\ own \subseteq B
      /\ b \in B /\ b \notin own /\ b \in Words
      /\ \A d \in B : m[d].used <=> d \in own
      /\ Filed(hs, F, m) /\ \A d \in F : m[d].size < MaxSize
      /\ B \subseteq Words /\ F \in SUBSET Words /\ b \notin F
  BY DEF Shape, Tiling
<1>2. BlockSize(k) \in Nat \ {0} /\ BlockSize(k) < MaxSize
  BY Sizes
<1>3. /\ c \notin B /\ c \in Words /\ c # b
      /\ n \in Mem /\ Tiling(B \cup {c}, n, top)
      /\ FreeOf(n, b, BlockSize(k)) /\ FreeOf(n, c, m[b].size - BlockSize(k))
      /\ Keeps(n, m, B \ {b})
  BY <1>1, <1>2, CutTiling
<1>4. m[b].size \in Nat
  BY <1>1, BlockNumbers
<1> HIDE DEF n, c
<1>5. /\ n[b].size = BlockSize(k) /\ ~n[b].used
      /\ n[c].size = m[b].size - BlockSize(k) /\ ~n[c].used
      /\ \A d \in F : n[d] = m[d]
  BY <1>3 DEF FreeOf, Keeps
<1>6. Filed(hs, F, n)
  <2>1. \A i \in Classes : {d \in F : ~m[d].used /\ m[d].size = BlockSize(i)}
                          = {d \in F : ~n[d].used /\ n[d].size = BlockSize(i)}
    BY <1>5
  <2> HIDE DEF F
  <2>2. QED
    BY <1>1, <2>1, FiledFrame
<1> HIDE DEF F
<1>7. /\ ls \in Lists /\ Filed(ls, F \cup {b}, n)
      /\ NonEmpty(ls, k) /\ Others(ls, hs, k)
  BY <1>1, <1>3, <1>5, <1>6, FiledInsert
<1> HIDE DEF ls
<1>8. Shape(B \cup {c}, n, ls, own, {c}, top)
  <2>1. F \cup {b} = (B \cup {c}) \ {c}
    BY <1>1, <1>3 DEF F
  <2>2. /\ own \subseteq B \cup {c} /\ {c} \subseteq (B \cup {c}) \ own
        /\ \A d \in B \cup {c} : n[d].used <=> d \in own
    BY <1>1, <1>3, <1>5 DEF F
  <2>3. \A d \in (B \cup {c}) \ {c} : n[d].size < MaxSize
    BY <1>1, <1>2, <1>3, <1>5 DEF F
  <2>4. QED
    BY <1>3, <1>7, <2>1, <2>2, <2>3 DEF Shape
<1>9. Keeps(n, m, own)
  BY <1>1, <1>5 DEF Keeps, F
<1>10. QED
  BY <1>3, <1>4, <1>7, <1>8, <1>9 DEF n, ls, c

(* A new block behind the others is in hand.                               *)
LEMMA ShapeExtended ==
  ASSUME NEW B, NEW m, NEW hs, NEW own, NEW top, Shape(B, m, hs, own, {}, top),
         NEW len \in 1..PartWords, top + len <= PartWords
  PROVE  LET n == Cleared(m, top, len)
         IN  /\ Shape(B \cup {top}, n, hs, own, {top}, top + len)
             /\ FreeOf(n, top, len) /\ Keeps(n, m, own)
<1> DEFINE n == Cleared(m, top, len)
<1>1. /\ m \in Mem /\ hs \in Lists /\ Tiling(B, m, top) /\ own \subseteq B
      /\ \A c \in B : m[c].used <=> c \in own
      /\ Filed(hs, B, m) /\ \A c \in B : m[c].size < MaxSize
  <2>1. B \ {} = B
    OBVIOUS
  <2>2. QED
    BY <2>1 DEF Shape
<1>2. /\ top \notin B /\ n \in Mem /\ Tiling(B \cup {top}, n, top + len)
      /\ FreeOf(n, top, len) /\ Keeps(n, m, B)
  BY <1>1, ExtendTiling
<1> HIDE DEF n
<1>3. n[top].size = len /\ ~n[top].used /\ \A c \in B : n[c] = m[c]
  BY <1>2 DEF FreeOf, Keeps
<1>4. B = (B \cup {top}) \ {top}
  BY <1>2
<1>5. \A i \in Classes : {c \in B : ~m[c].used /\ m[c].size = BlockSize(i)}
                        = {c \in (B \cup {top}) \ {top} : ~n[c].used /\ n[c].size = BlockSize(i)}
  BY <1>3, <1>4
<1>6. Filed(hs, (B \cup {top}) \ {top}, n)
  BY <1>1, <1>5, FiledFrame
<1>7. /\ own \subseteq B \cup {top} /\ {top} \subseteq (B \cup {top}) \ own
      /\ \A c \in B \cup {top} : n[c].used <=> c \in own
      /\ \A c \in (B \cup {top}) \ {top} : n[c].size < MaxSize
  BY <1>1, <1>2, <1>3, <1>4
<1>8. Shape(B \cup {top}, n, hs, own, {top}, top + len)
  BY <1>1, <1>2, <1>6, <1>7 DEF Shape
<1>9. Keeps(n, m, own)
  BY <1>1, <1>3 DEF Keeps
<1>10. QED
  BY <1>2, <1>8, <1>9 DEF n

==============================================================================
