---------------------------- MODULE BucketProofs -----------------------------
(***************************************************************************)
(* Proofs about the bucket pool, for any number of threads, buckets and    *)
(* spares and any assignment of main buckets to threads: no lock is        *)
(* assumed, except for the last theorem.  The argument is that spares are  *)
(* claimed from the first one up and never given back, so a thread that is *)
(* about to link a spare has one above its bucket that no link leads to    *)
(* and no other thread holds.                                              *)
(***************************************************************************)
EXTENDS Bucket, TLAPS

InHand(t, s) == call[t].at = "link" /\ call[t].spare = s

LinksTo(b, s) == link[b] # 0 /\ b + link[b] = s

(* The claimed spares are the first ones.                                  *)
PrefixClaimed ==
  \A s \in Spares : version[s] # 0 => \A r \in Spares : r < s => version[r] # 0

(* A thread looking for a spare has passed only claimed ones.              *)
CursorPassed ==
  \A t \in Threads : call[t].at = "claim" =>
    \A r \in Spares : r < call[t].spare => version[r] # 0

(* A thread that works in a spare bucket works in a claimed one.           *)
WalksClaimed ==
  \A t \in Threads : call[t].at \in (RunningLabels \cup {"found"}) =>
    (call[t].bkt \in Spares => version[call[t].bkt] # 0)

(* A claimed spare that is about to be linked lies above the bucket it     *)
(* extends, and nothing else has it.                                       *)
HandsExclusive ==
  \A t \in Threads : call[t].at = "link" =>
    /\ call[t].spare \in Spares /\ version[call[t].spare] # 0
    /\ call[t].bkt < call[t].spare
    /\ \A b \in Buckets : ~LinksTo(b, call[t].spare)
    /\ \A u \in Threads \ {t} : ~InHand(u, call[t].spare)

ClaimInv ==
  ChainsDisjoint /\ PrefixClaimed /\ CursorPassed /\ WalksClaimed /\ HandsExclusive

ChainInv == TypeOK /\ ClaimInv

(* A frame with which a thread disturbs nothing of ClaimInv.               *)
QuietFrame(f) ==
  /\ f.at # "link"
  /\ f.at = "claim" => \A r \in Spares : r < f.spare => version[r] # 0
  /\ f.at \in (RunningLabels \cup {"found"}) =>
       (f.bkt \in Spares => version[f.bkt] # 0)

------------------------------------------------------------------------------
(* A remainder is below its divisor.                                       *)
LEMMA ModRange ==
  ASSUME NEW n \in Nat \ {0}, NEW a \in Int
  PROVE  a % n \in 0..(n - 1)
OBVIOUS

(* A number below the divisor is its own remainder: a short distance is    *)
(* stored uncut.                                                           *)
LEMMA ModSmall ==
  ASSUME NEW n \in Nat \ {0}, NEW a \in Nat, a < n
  PROVE  a % n = a
OBVIOUS

(* The tag of a hash is never 0, so no published entry looks empty.        *)
LEMMA TagRange ==
  ASSUME NEW h \in Nat
  PROVE  lookup_key_tag_hash_portion(h) \in Tags
BY ModRange, HashAssumption DEF lookup_key_tag_hash_portion, Tags

(* The pool is its main and its spare buckets.                             *)
LEMMA SpareInBuckets == Spares \subseteq Buckets /\ Mains \subseteq Buckets
BY HashAssumption, BucketAssumption DEF Spares, Buckets, Mains

(* An empty pool without a call satisfies the invariant.                   *)
LEMMA InitInv == Init => ChainInv
<1>1. NoCall \in Frames
  BY HashAssumption, BucketAssumption DEF NoCall, Frames, NULL
<1>2. EmptyEntry \in [tag : Tags \cup {0}, offset : Offsets \cup {0}]
  BY DEF EmptyEntry
<1>3. SUFFICES ASSUME Init PROVE ChainInv
  OBVIOUS
<1>4. TypeOK
  BY <1>1, <1>2, <1>3, PoolFits
     DEF Init, PoolInit, TypeOK, NoCall, RunningLabels
<1>5. ChainsDisjoint /\ PrefixClaimed
  BY <1>3, SpareInBuckets DEF Init, PoolInit, ChainsDisjoint, PrefixClaimed
<1>6. CursorPassed /\ WalksClaimed /\ HandsExclusive
  BY <1>3 DEF Init, PoolInit, CursorPassed, WalksClaimed, HandsExclusive, NoCall,
              RunningLabels
<1>7. QED
  BY <1>4, <1>5, <1>6 DEF ChainInv, ClaimInv

(* A call starts with a frame of its type, at its main bucket.             *)
LEMMA FrameType ==
  ASSUME NEW label \in {"probe", "scan", "match"}, NEW b \in Mains, NEW h \in Hashes,
         NEW off \in Offsets \cup {0}
  PROVE  /\ Frame(label, b, h, off) \in Frames
         /\ Frame(label, b, h, off).bkt = b
         /\ Frame(label, b, h, off).at = label
<1>1. MainSize \in MainSize..(MainSize + SpareSize) /\ 0 \in 0..BUCKET_ENTRY_SIZE
  BY HashAssumption, BucketAssumption
<1>2. QED
  BY <1>1, SpareInBuckets DEF Frame, Frames, RunningLabels

(* Replacing one thread's frame by a frame keeps the frames' types.        *)
LEMMA CallUpdate ==
  ASSUME TypeOK, NEW t \in Threads, NEW f \in Frames,
         f.at \in (RunningLabels \cup {"found"}) => f.bkt \in Buckets,
         call' = [call EXCEPT ![t] = f]
  PROVE  /\ call' \in [Threads -> Frames]
         /\ \A u \in Threads :
              call'[u].at \in (RunningLabels \cup {"found"}) => call'[u].bkt \in Buckets
BY DEF TypeOK

------------------------------------------------------------------------------
(* Every step keeps the types.  A followed link leads to a spare and a     *)
(* stored tag is never 0, so neither leaves its range.                     *)

LEMMA TypeStep ==
  ASSUME TypeOK, ChainsDisjoint, HandsExclusive, Next
  PROVE  TypeOK'
<1> USE DEF TypeOK
<1>1. PICK t \in Threads : Start(t) \/ Finish(t) \/ IndexStep(t)
  BY DEF Next
<1>2. call[t] \in Frames
  OBVIOUS
<1>3. CASE Start(t)
  <2>1. PICK b \in Mains, h \in Hashes, off \in Offsets \cup {0},
             label \in {"probe", "scan", "match"} :
               call' = [call EXCEPT ![t] = Frame(label, b, h, off)]
    BY <1>3, BucketAssumption DEF Start
  <2>2. /\ Frame(label, b, h, off) \in Frames
        /\ Frame(label, b, h, off).bkt \in Buckets
    BY FrameType, SpareInBuckets
  <2>3. /\ call' \in [Threads -> Frames]
        /\ \A u \in Threads :
             call'[u].at \in (RunningLabels \cup {"found"}) => call'[u].bkt \in Buckets
    BY <2>1, <2>2, CallUpdate
  <2>4. QED
    BY <1>3, <2>3 DEF Start
<1>4. CASE Finish(t)
  <2>1. NoCall \in Frames
    BY HashAssumption, BucketAssumption DEF NoCall, Frames, NULL
  <2>2. QED
    BY <1>4, <2>1 DEF Finish, NoCall, RunningLabels
<1>5. CASE SlotHit(t)
  <2>1. OnHit[call[t].at] \in {"found", "store", "clear"}
    BY <1>5 DEF SlotHit, Walking, OnHit
  <2>2. call[t].bkt \in Buckets
    BY <1>5 DEF SlotHit, Walking, OnHit, RunningLabels
  <2>3. QED
    BY <1>2, <1>5, <2>1, <2>2 DEF SlotHit, Frames, RunningLabels, ResultLabels
<1>6. CASE SlotMiss(t)
  <2>1. call[t].index + 1 \in 0..BUCKET_ENTRY_SIZE
    BY <1>6, BucketAssumption DEF SlotMiss, Slots
  <2>2. QED
    BY <1>2, <1>6, <2>1 DEF SlotMiss, Frames
<1>7. CASE FollowLink(t)
  <2>1. call[t].bkt \in Buckets
    BY <1>7 DEF FollowLink, AtBucketEnd, Walking, OnHit, RunningLabels
  <2>2. next_spare_bucket(call[t].bkt) \in Buckets
    BY <1>7, <2>1, SpareInBuckets DEF FollowLink, next_spare_bucket, ChainsDisjoint
  <2> DEFINE f == [call[t] EXCEPT !.bkt = next_spare_bucket(@), !.index = 0]
  <2>3. f \in Frames /\ f.bkt \in Buckets
    <3>1. 0 \in 0..BUCKET_ENTRY_SIZE
      BY BucketAssumption
    <3>2. QED
      BY <1>2, <2>2, <3>1 DEF Frames
  <2>4. call' = [call EXCEPT ![t] = f]
    BY <1>7 DEF FollowLink
  <2> HIDE DEF f
  <2>5. QED
    BY <1>7, <2>3, <2>4, CallUpdate DEF FollowLink
<1>8. CASE ChainEnd(t)
  <2>1. /\ call[t].bkt \in Buckets
        /\ OnEnd[call[t].at] \in {"missing", "claim", "absent"}
    BY <1>8 DEF ChainEnd, AtBucketEnd, Walking, OnHit, OnEnd, RunningLabels
  <2> DEFINE f == [call[t] EXCEPT !.at = OnEnd[@], !.index = 0, !.spare = MainSize,
                     !.bkt = IF OnEnd[call[t].at] = "claim" THEN @ ELSE NULL]
  <2>2. MainSize \in MainSize..(MainSize + SpareSize) /\ 0 \in 0..BUCKET_ENTRY_SIZE
    BY HashAssumption, BucketAssumption
  <2>3. f \in Frames
    BY <1>2, <2>1, <2>2 DEF Frames, RunningLabels, ResultLabels
  <2>4. f.at \in (RunningLabels \cup {"found"}) => f.bkt \in Buckets
    BY <1>2, <2>1 DEF RunningLabels, Frames
  <2>5. call' = [call EXCEPT ![t] = f]
    BY <1>8 DEF ChainEnd
  <2> HIDE DEF f
  <2>6. QED
    BY <1>8, <2>3, <2>4, <2>5, CallUpdate DEF ChainEnd
<1>9. CASE InsertStore(t)
  <2>1. /\ call[t].bkt \in Buckets /\ call[t].index \in Slots
        /\ call[t].off \in Offsets \cup {0}
    BY <1>2, <1>9 DEF InsertStore, AtSlot, RunningLabels, Frames
  <2>2. PICK loaded \in {0, Entry(t).tag} :
          entries' = [entries EXCEPT ![call[t].bkt][call[t].index] =
                        [tag |-> loaded, offset |-> call[t].off]]
    BY <1>9 DEF InsertStore
  <2>3. loaded \in Tags \cup {0}
    BY <2>1, <2>2 DEF Entry
  <2>4. entries' \in [Buckets -> [Slots ->
                       [tag : Tags \cup {0}, offset : Offsets \cup {0}]]]
    BY <2>1, <2>2, <2>3
  <2>5. QED
    BY <1>2, <1>9, <2>1, <2>4 DEF InsertStore, AtSlot, Frames, RunningLabels
<1>10. CASE InsertPublish(t)
  <2>1. call[t].bkt \in Buckets /\ call[t].index \in Slots /\ call[t].hash \in Nat
    BY <1>2, <1>10, BucketAssumption DEF InsertPublish, AtSlot, RunningLabels, Frames
  <2>2. lookup_key_tag_hash_portion(call[t].hash) \in Tags
    BY <2>1, TagRange
  <2> DEFINE tag == lookup_key_tag_hash_portion(call[t].hash)
             e == [Entry(t) EXCEPT !.tag = tag]
  <2>3. e \in [tag : Tags \cup {0}, offset : Offsets \cup {0}]
    <3>1. Entry(t) \in [tag : Tags \cup {0}, offset : Offsets \cup {0}]
      BY <2>1 DEF Entry
    <3> HIDE DEF tag
    <3>2. tag \in Tags \cup {0}
      BY <2>2 DEF tag
    <3>3. QED
      BY <3>1, <3>2
  <2>4. entries' = [entries EXCEPT ![call[t].bkt][call[t].index] = e]
    BY <1>10, <2>1 DEF InsertPublish, Entry
  <2>5. entries' \in [Buckets -> [Slots ->
                       [tag : Tags \cup {0}, offset : Offsets \cup {0}]]]
    <3> HIDE DEF e
    <3> QED BY <2>1, <2>3, <2>4
  <2>6. QED
    BY <1>2, <1>10, <2>5 DEF InsertPublish, AtSlot, Frames, RunningLabels, ResultLabels
<1>11. CASE ClaimSkip(t)
  <2>1. call[t].spare + 1 \in MainSize..(MainSize + SpareSize)
    BY <1>11, HashAssumption, BucketAssumption DEF ClaimSkip, Spares
  <2>2. QED
    BY <1>2, <1>11, <2>1 DEF ClaimSkip, Frames
<1>12. CASE ClaimTake(t)
  BY <1>2, <1>12, SpareInBuckets DEF ClaimTake, Frames, RunningLabels
<1>13. CASE InsertFull(t)
  BY <1>2, <1>13 DEF InsertFull, Frames, RunningLabels, ResultLabels
<1>14. CASE InsertLink(t)
  <2>1. call[t].bkt \in Buckets
    BY <1>14 DEF InsertLink, RunningLabels
  <2>2. call[t].spare \in Buckets
    BY <1>14, SpareInBuckets DEF InsertLink, HandsExclusive
  <2>3. (call[t].spare - call[t].bkt) % LinkSpan \in 0..(LinkSpan - 1)
    <3>1. call[t].spare - call[t].bkt \in Int
      BY <2>1, <2>2 DEF Buckets
    <3>2. QED
      BY <3>1, ModRange, PoolFits
  <2>4. link' \in [Buckets -> 0..(LinkSpan - 1)]
    BY <1>14, <2>1, <2>3 DEF InsertLink
  <2> DEFINE f == [call[t] EXCEPT !.at = "scan", !.bkt = call[t].spare, !.index = 0]
  <2>5. f \in Frames /\ f.bkt \in Buckets
    <3>1. 0 \in 0..BUCKET_ENTRY_SIZE
      BY BucketAssumption
    <3>2. QED
      BY <1>2, <2>2, <3>1 DEF Frames, RunningLabels
  <2>6. call' = [call EXCEPT ![t] = f]
    BY <1>14 DEF InsertLink
  <2> HIDE DEF f
  <2>7. QED
    BY <1>14, <2>4, <2>5, <2>6, CallUpdate DEF InsertLink
<1>15. CASE DeleteClear(t)
  <2>1. call[t].bkt \in Buckets /\ call[t].index \in Slots
    BY <1>2, <1>15 DEF DeleteClear, AtSlot, RunningLabels
  <2>2. EmptyEntry \in [tag : Tags \cup {0}, offset : Offsets \cup {0}]
    BY DEF EmptyEntry
  <2>3. entries' \in [Buckets -> [Slots ->
                       [tag : Tags \cup {0}, offset : Offsets \cup {0}]]]
    BY <1>15, <2>1, <2>2 DEF DeleteClear
  <2>4. QED
    BY <1>2, <1>15, <2>3 DEF DeleteClear, AtSlot, Frames, RunningLabels, ResultLabels
<1>16. QED
  BY <1>1, <1>3, <1>4, <1>5, <1>6, <1>7, <1>8, <1>9, <1>10, <1>11, <1>12, <1>13,
     <1>14, <1>15 DEF IndexStep

------------------------------------------------------------------------------
(* Every step keeps the invariant.  Most steps change one frame and        *)
(* neither a link nor a version.                                           *)

LEMMA QuietStep ==
  ASSUME ChainInv, NEW t \in Threads, NEW f,
         UNCHANGED <<link, version>>, call' = [call EXCEPT ![t] = f],
         QuietFrame(f)
  PROVE  ClaimInv'
<1>1. /\ call \in [Threads -> Frames]
      /\ \A u \in Threads : call'[u] = IF u = t THEN f ELSE call[u]
  BY DEF ChainInv, TypeOK
<1>2. ChainsDisjoint' /\ PrefixClaimed'
  BY DEF ChainInv, ClaimInv, ChainsDisjoint, PrefixClaimed
<1>3. CursorPassed'
  BY <1>1 DEF ChainInv, ClaimInv, QuietFrame, CursorPassed
<1>4. WalksClaimed'
  BY <1>1 DEF ChainInv, ClaimInv, QuietFrame, WalksClaimed
<1>5. HandsExclusive'
  BY <1>1 DEF ChainInv, ClaimInv, QuietFrame, HandsExclusive, InHand, LinksTo
<1>6. QED
  BY <1>2, <1>3, <1>4, <1>5 DEF ClaimInv

(* A claim takes the first spare that is free, so every claimed bucket is  *)
(* below it: the chain's last bucket is, and no link leads to it yet.      *)
LEMMA TakeStep ==
  ASSUME ChainInv, NEW t \in Threads, ClaimTake(t)
  PROVE  ClaimInv'
<1> USE DEF ChainInv, ClaimInv
<1>0. PICK s \in Spares : s = call[t].spare
  BY DEF ClaimTake
<1>1. /\ s \in Buckets /\ version[s] = 0
      /\ \A r \in Spares : r < s => version[r] # 0
      /\ call[t].bkt \in Buckets
      /\ call[t].bkt \in Spares => version[call[t].bkt] # 0
  BY <1>0, SpareInBuckets DEF ClaimTake, CursorPassed, WalksClaimed, TypeOK,
     RunningLabels
<1>2. \A r \in Spares : version[r] # 0 => r < s
  <2>1. \A r \in Spares : r = s \/ r < s \/ s < r
    BY <1>1, HashAssumption, BucketAssumption DEF Spares
  <2>2. QED
    BY <1>1, <2>1 DEF PrefixClaimed
<1>3. call[t].bkt < s
  BY <1>1, <1>2, HashAssumption, BucketAssumption DEF Buckets, Spares
<1>4. /\ version' = [version EXCEPT ![s] = 2]
      /\ \A r \in Buckets : version'[r] = IF r = s THEN 2 ELSE version[r]
      /\ link' = link
      /\ call'[t].at = "link" /\ call'[t].spare = s /\ call'[t].bkt = call[t].bkt
      /\ \A u \in Threads \ {t} : call'[u] = call[u]
  BY <1>0, <1>1 DEF ClaimTake, TypeOK, Frames
<1>5. ChainsDisjoint'
  BY <1>4, SpareInBuckets DEF ChainsDisjoint
<1>6. PrefixClaimed'
  BY <1>1, <1>2, <1>4, SpareInBuckets DEF PrefixClaimed
<1>7. CursorPassed'
  BY <1>4, SpareInBuckets DEF CursorPassed
<1>8. WalksClaimed'
  BY <1>1, <1>4, SpareInBuckets DEF WalksClaimed, RunningLabels
<1>9. HandsExclusive'
  <2>1. \A b \in Buckets : ~LinksTo(b, s)
    BY <1>1 DEF LinksTo, ChainsDisjoint
  <2>2. \A u \in Threads \ {t} : ~InHand(u, s)
    BY <1>1 DEF InHand, HandsExclusive
  <2>3. ASSUME NEW u \in Threads, call'[u].at = "link"
        PROVE  /\ call'[u].spare \in Spares /\ version'[call'[u].spare] # 0
               /\ call'[u].bkt < call'[u].spare
               /\ \A b \in Buckets : ~(link'[b] # 0 /\ b + link'[b] = call'[u].spare)
               /\ \A x \in Threads \ {u} :
                    ~(call'[x].at = "link" /\ call'[x].spare = call'[u].spare)
    <3>1. CASE u = t
      BY <1>1, <1>3, <1>4, <2>1, <2>2, <3>1 DEF InHand, LinksTo
    <3>2. CASE u # t
      BY <1>1, <1>4, <2>2, <2>3, <3>2, SpareInBuckets
         DEF HandsExclusive, InHand, LinksTo
    <3>3. QED
      BY <3>1, <3>2
  <2>4. QED
    BY <2>3 DEF HandsExclusive, LinksTo, InHand
<1>10. QED
  BY <1>5, <1>6, <1>7, <1>8, <1>9

(* The distance is positive and small, so it is stored uncut; the spare it *)
(* leads to had no other link and leaves the hand it was in.               *)
LEMMA LinkStep ==
  ASSUME ChainInv, NEW t \in Threads, InsertLink(t)
  PROVE  ClaimInv'
<1> USE DEF ChainInv, ClaimInv
<1>0. PICK s \in Spares, k \in Buckets : s = call[t].spare /\ k = call[t].bkt
  BY DEF InsertLink, HandsExclusive, TypeOK, RunningLabels
<1>1. /\ call[t].at = "link"
      /\ s \in Buckets /\ version[s] # 0 /\ k < s
      /\ \A b \in Buckets : ~LinksTo(b, s)
      /\ \A u \in Threads \ {t} : ~InHand(u, s)
  BY <1>0, SpareInBuckets DEF InsertLink, HandsExclusive
<1>2. (s - k) % LinkSpan = s - k /\ s - k # 0 /\ k + (s - k) = s
  <2>1. s - k \in Nat /\ s - k < LinkSpan /\ s - k # 0 /\ k + (s - k) = s
    BY <1>1, HashAssumption, BucketAssumption, PoolFits DEF Buckets
  <2>2. QED
    BY <2>1, ModSmall, PoolFits
<1>3. /\ link'[k] = s - k
      /\ \A b \in Buckets \ {k} : link'[b] = link[b]
      /\ version' = version
      /\ call'[t].at = "scan" /\ call'[t].bkt = s
      /\ \A u \in Threads \ {t} : call'[u] = call[u]
  BY <1>0, <1>1, <1>2 DEF InsertLink, TypeOK, Frames
<1>4. \A b \in Buckets : link'[b] # 0 /\ b + link'[b] = s => b = k
  BY <1>1, <1>3 DEF LinksTo
<1>5. \A b \in Buckets : \A r \in Buckets \ {s} :
        link'[b] # 0 /\ b + link'[b] = r => LinksTo(b, r)
  BY <1>1, <1>2, <1>3 DEF LinksTo
<1>6. ChainsDisjoint'
  <2>1. ASSUME NEW b \in Buckets, link'[b] # 0
        PROVE  /\ b + link'[b] \in Spares /\ version'[b + link'[b]] # 0
               /\ \A c \in Buckets \ {b} : link'[c] # 0 => c + link'[c] # b + link'[b]
    <3>1. CASE b = k
      BY <1>1, <1>2, <1>3, <1>4, <3>1 DEF LinksTo
    <3>2. CASE b # k
      BY <1>1, <1>2, <1>3, <2>1, <3>2 DEF ChainsDisjoint, LinksTo
    <3>3. QED
      BY <3>1, <3>2
  <2>2. QED
    BY <2>1 DEF ChainsDisjoint
<1>7. PrefixClaimed' /\ CursorPassed' /\ WalksClaimed'
  BY <1>1, <1>3 DEF PrefixClaimed, CursorPassed, WalksClaimed
<1>8. HandsExclusive'
  <2>1. ASSUME NEW u \in Threads, call'[u].at = "link"
        PROVE  /\ call'[u].spare \in Spares /\ version'[call'[u].spare] # 0
               /\ call'[u].bkt < call'[u].spare
               /\ \A b \in Buckets : ~(link'[b] # 0 /\ b + link'[b] = call'[u].spare)
               /\ \A x \in Threads \ {u} :
                    ~(call'[x].at = "link" /\ call'[x].spare = call'[u].spare)
    <3>1. u # t /\ call'[u] = call[u] /\ call[u].spare # s /\ call[u].at = "link"
      BY <1>0, <1>1, <1>3, <2>1 DEF InHand
    <3>2. /\ call[u].spare \in Spares /\ version[call[u].spare] # 0
          /\ call[u].bkt < call[u].spare
          /\ \A b \in Buckets : ~LinksTo(b, call[u].spare)
          /\ \A x \in Threads \ {u} : ~InHand(x, call[u].spare)
      BY <3>1 DEF HandsExclusive
    <3>3. \A b \in Buckets : ~(link'[b] # 0 /\ b + link'[b] = call'[u].spare)
      BY <1>5, <3>1, <3>2, SpareInBuckets DEF LinksTo
    <3>4. \A x \in Threads \ {u} :
            ~(call'[x].at = "link" /\ call'[x].spare = call'[u].spare)
      BY <1>3, <3>1, <3>2 DEF InHand
    <3>5. QED
      BY <1>3, <3>1, <3>2, <3>3, <3>4
  <2>2. QED
    BY <2>1 DEF HandsExclusive, LinksTo, InHand
<1>9. QED
  BY <1>6, <1>7, <1>8

------------------------------------------------------------------------------
(* Every step keeps the invariant: a claim by TakeStep, a link by LinkStep *)
(* and every other step because its new frame is quiet.                    *)
LEMMA InvStep ==
  ASSUME ChainInv, [Next]_bucketVars
  PROVE  ChainInv'
<1>1. CASE UNCHANGED bucketVars
  BY <1>1 DEF ChainInv, ClaimInv, bucketVars, TypeOK, ChainsDisjoint, PrefixClaimed,
     CursorPassed,
              WalksClaimed, HandsExclusive, InHand, LinksTo
<1> SUFFICES ASSUME Next PROVE ChainInv'
  BY <1>1
<1> USE DEF ChainInv, ClaimInv
<1>2. PICK t \in Threads : Start(t) \/ Finish(t) \/ IndexStep(t)
  BY DEF Next
<1>3. call[t] \in Frames /\ Spares \cap Mains = {}
  BY HashAssumption, BucketAssumption DEF TypeOK, Spares, Mains
<1>4. SUFFICES ClaimInv'
  BY TypeStep
<1>5. CASE Start(t)
  <2>1. PICK b \in Mains, h \in Hashes, off \in Offsets \cup {0},
             label \in {"probe", "scan", "match"} :
               call' = [call EXCEPT ![t] = Frame(label, b, h, off)]
    BY <1>5, BucketAssumption DEF Start
  <2> DEFINE f == Frame(label, b, h, off)
  <2>2. QuietFrame(f)
    BY <1>3, FrameType DEF QuietFrame
  <2> HIDE DEF f
  <2>3. call' = [call EXCEPT ![t] = f] /\ UNCHANGED <<link, version>>
    BY <1>5, <2>1 DEF Start, f
  <2>4. QED
    BY <2>2, <2>3, QuietStep
<1>6. CASE Finish(t)
  <2> DEFINE f == NoCall
  <2>1. call' = [call EXCEPT ![t] = f] /\ UNCHANGED <<link, version>>
    BY <1>6 DEF Finish
  <2>2. QuietFrame(f)
    BY <1>3, <1>6
       DEF QuietFrame, Finish, NoCall, RunningLabels
  <2> HIDE DEF f
  <2>3. QED
    BY <2>1, <2>2, QuietStep
<1>7. CASE SlotHit(t)
  <2> DEFINE f == [call[t] EXCEPT !.at = OnHit[@]]
  <2>1. call' = [call EXCEPT ![t] = f] /\ UNCHANGED <<link, version>>
    BY <1>7 DEF SlotHit
  <2>2. QuietFrame(f)
    BY <1>3, <1>7
       DEF QuietFrame, SlotHit, Frames, Walking, OnHit, WalksClaimed, RunningLabels
  <2> HIDE DEF f
  <2>3. QED
    BY <2>1, <2>2, QuietStep
<1>8. CASE SlotMiss(t)
  <2> DEFINE f == [call[t] EXCEPT !.index = @ + 1]
  <2>1. call' = [call EXCEPT ![t] = f] /\ UNCHANGED <<link, version>>
    BY <1>8 DEF SlotMiss
  <2>2. QuietFrame(f)
    BY <1>3, <1>8
       DEF QuietFrame, SlotMiss, Frames, Walking, OnHit, WalksClaimed, RunningLabels
  <2> HIDE DEF f
  <2>3. QED
    BY <2>1, <2>2, QuietStep
<1>9. CASE FollowLink(t)
  <2> DEFINE f == [call[t] EXCEPT !.bkt = next_spare_bucket(@), !.index = 0]
  <2>1. call' = [call EXCEPT ![t] = f] /\ UNCHANGED <<link, version>>
    BY <1>9 DEF FollowLink
  <2>2. QuietFrame(f)
    BY <1>3, <1>9
       DEF QuietFrame, FollowLink, Frames, AtBucketEnd, Walking, OnHit,
       next_spare_bucket, ChainsDisjoint, TypeOK, RunningLabels
  <2> HIDE DEF f
  <2>3. QED
    BY <2>1, <2>2, QuietStep
<1>10. CASE ChainEnd(t)
  <2> DEFINE f == [call[t] EXCEPT !.at = OnEnd[@], !.index = 0, !.spare = MainSize,
                     !.bkt = IF OnEnd[call[t].at] = "claim" THEN @ ELSE NULL]
  <2>1. call' = [call EXCEPT ![t] = f] /\ UNCHANGED <<link, version>>
    BY <1>10 DEF ChainEnd
  <2>2. QuietFrame(f)
    BY <1>3, <1>10, HashAssumption, BucketAssumption
       DEF QuietFrame, ChainEnd, Frames, AtBucketEnd, Walking, OnHit, OnEnd,
       WalksClaimed, RunningLabels, Spares
  <2> HIDE DEF f
  <2>3. QED
    BY <2>1, <2>2, QuietStep
<1>11. CASE InsertStore(t)
  <2> DEFINE f == [call[t] EXCEPT !.at = "publish"]
  <2>1. call' = [call EXCEPT ![t] = f] /\ UNCHANGED <<link, version>>
    BY <1>11 DEF InsertStore
  <2>2. QuietFrame(f)
    BY <1>3, <1>11
       DEF QuietFrame, InsertStore, AtSlot, Frames, WalksClaimed, RunningLabels
  <2> HIDE DEF f
  <2>3. QED
    BY <2>1, <2>2, QuietStep
<1>12. CASE InsertPublish(t)
  <2> DEFINE f == [call[t] EXCEPT !.at = "inserted"]
  <2>1. call' = [call EXCEPT ![t] = f] /\ UNCHANGED <<link, version>>
    BY <1>12 DEF InsertPublish
  <2>2. QuietFrame(f)
    BY <1>3, <1>12
       DEF QuietFrame, InsertPublish, Frames, RunningLabels
  <2> HIDE DEF f
  <2>3. QED
    BY <2>1, <2>2, QuietStep
<1>13. CASE ClaimSkip(t)
  <2> DEFINE f == [call[t] EXCEPT !.spare = @ + 1]
  <2>1. call' = [call EXCEPT ![t] = f] /\ UNCHANGED <<link, version>>
    BY <1>13 DEF ClaimSkip
  <2>2. QuietFrame(f)
    BY <1>3, <1>13, HashAssumption, BucketAssumption
       DEF QuietFrame, ClaimSkip, Frames, CursorPassed, WalksClaimed, RunningLabels,
       Spares
  <2> HIDE DEF f
  <2>3. QED
    BY <2>1, <2>2, QuietStep
<1>14. CASE InsertFull(t)
  <2> DEFINE f == [call[t] EXCEPT !.at = "full", !.bkt = NULL]
  <2>1. call' = [call EXCEPT ![t] = f] /\ UNCHANGED <<link, version>>
    BY <1>14 DEF InsertFull
  <2>2. QuietFrame(f)
    BY <1>3, <1>14
       DEF QuietFrame, InsertFull, Frames, RunningLabels
  <2> HIDE DEF f
  <2>3. QED
    BY <2>1, <2>2, QuietStep
<1>15. CASE DeleteClear(t)
  <2> DEFINE f == [call[t] EXCEPT !.at = "deleted"]
  <2>1. call' = [call EXCEPT ![t] = f] /\ UNCHANGED <<link, version>>
    BY <1>15 DEF DeleteClear
  <2>2. QuietFrame(f)
    BY <1>3, <1>15
       DEF QuietFrame, DeleteClear, Frames, RunningLabels
  <2> HIDE DEF f
  <2>3. QED
    BY <2>1, <2>2, QuietStep
<1>16. QED
  BY <1>2, <1>5, <1>6, <1>7, <1>8, <1>9, <1>10, <1>11, <1>12, <1>13, <1>14, <1>15,
     TakeStep, LinkStep DEF IndexStep

(* A version that is not 0 stays so, and an insert fails when its cursor   *)
(* has passed the last spare.                                              *)
LEMMA FullStep ==
  ASSUME ChainInv, FullMeansExhausted, [Next]_bucketVars
  PROVE  FullMeansExhausted'
<1>1. CASE UNCHANGED bucketVars
  BY <1>1 DEF bucketVars, FullMeansExhausted
<1> SUFFICES ASSUME Next PROVE FullMeansExhausted'
  BY <1>1
<1> USE DEF ChainInv, ClaimInv
<1>2. PICK t \in Threads : Start(t) \/ Finish(t) \/ IndexStep(t)
  BY DEF Next
<1>3. \A s \in Spares : version[s] # 0 => version'[s] # 0
  <2>1. CASE ClaimTake(t)
    BY <2>1, SpareInBuckets DEF ClaimTake, TypeOK
  <2>2. CASE ~ClaimTake(t)
    <3>1. version' = version
      BY <1>2, <2>2 DEF Start, Finish, IndexStep, SlotHit, SlotMiss, FollowLink,
         ChainEnd,
         InsertStore, InsertPublish, ClaimSkip, InsertFull, InsertLink, DeleteClear
    <3>2. QED
      BY <3>1
  <2>3. QED
    BY <2>1, <2>2
<1>4. SUFFICES ASSUME NEW u \in Threads, call'[u].at = "full"
               PROVE  \A s \in Spares : version[s] # 0
  BY <1>3 DEF FullMeansExhausted
<1>5. CASE call[u].at = "full"
  BY <1>5 DEF FullMeansExhausted
<1>6. CASE call[u].at # "full"
  <2>1. InsertFull(u)
    <3>1. u = t
      BY <1>2, <1>4, <1>6 DEF Start, Finish, IndexStep, SlotHit, SlotMiss, FollowLink,
         ChainEnd, InsertStore, InsertPublish, ClaimSkip, ClaimTake, InsertFull,
         InsertLink,
         DeleteClear, TypeOK
    <3>2. ~Start(t) /\ ~Finish(t)
      BY <1>4, <3>1, FrameType, BucketAssumption DEF Start, Finish, NoCall, TypeOK
    <3>3. call \in [Threads -> Frames] /\ call'[t].at = "full" /\ call[t].at # "full"
      BY <1>4, <1>6, <3>1 DEF TypeOK
    <3>4. ~SlotHit(t) /\ ~SlotMiss(t)
      BY <3>3 DEF SlotHit, SlotMiss, Walking, OnHit, Frames
    <3>5. ~FollowLink(t)
      <4> DEFINE f == [call[t] EXCEPT !.bkt = next_spare_bucket(@), !.index = 0]
      <4>1. f.at = call[t].at
        BY <3>3 DEF Frames
      <4>2. FollowLink(t) => call'[t] = f
        BY <3>3 DEF FollowLink
      <4> HIDE DEF f
      <4>3. QED
        BY <3>3, <4>1, <4>2
    <3>6. ~ChainEnd(t)
      <4> DEFINE f == [call[t] EXCEPT !.at = OnEnd[@], !.index = 0, !.spare = MainSize,
                         !.bkt = IF OnEnd[call[t].at] = "claim" THEN @ ELSE NULL]
      <4>1. f.at = OnEnd[call[t].at]
        BY <3>3 DEF Frames
      <4>2. ChainEnd(t) => call'[t] = f
        BY <3>3 DEF ChainEnd
      <4> HIDE DEF f
      <4>3. ChainEnd(t) => OnEnd[call[t].at] \in {"missing", "claim", "absent"}
        BY DEF ChainEnd, AtBucketEnd, Walking, OnHit, OnEnd
      <4>4. QED
        BY <3>3, <4>1, <4>2, <4>3
    <3>7. ~InsertStore(t) /\ ~InsertPublish(t) /\ ~ClaimSkip(t) /\ ~ClaimTake(t)
      BY <1>4, <1>6, <3>1 DEF InsertStore, InsertPublish, ClaimSkip, ClaimTake, TypeOK,
         Frames
    <3>8. ~InsertLink(t) /\ ~DeleteClear(t)
      BY <3>3 DEF InsertLink, DeleteClear, Frames
    <3>9. QED
      BY <1>2, <3>1, <3>2, <3>4, <3>5, <3>6, <3>7, <3>8 DEF IndexStep
  <2>2. QED
    BY <2>1, HashAssumption, BucketAssumption
       DEF InsertFull, CursorPassed, Spares, TypeOK, Frames
<1>7. QED
  BY <1>5, <1>6

------------------------------------------------------------------------------
(* The strengthened invariant of the bucket pool: spares are claimed in    *)
(* order, and a spare in a hand is in no other hand and in no chain.       *)
THEOREM ChainInvariant == Spec => []ChainInv
BY InitInv, InvStep, PTL DEF Spec

(* Every variable keeps its type: in particular no cursor leaves the pool  *)
(* along a link that was cut to its 32 bits (bucket.c, next_spare_bucket). *)
THEOREM TypeCorrect == Spec => []TypeOK
<1>1. ChainInv => TypeOK
  BY DEF ChainInv
<1>2. QED
  BY <1>1, ChainInvariant, PTL

(* However many threads extend chains at once, no spare bucket is in two   *)
(* chains and every link leads to a claimed one.                           *)
THEOREM ChainsStayDisjoint == Spec => []ChainsDisjoint
<1>1. ChainInv => ChainsDisjoint
  BY DEF ChainInv, ClaimInv
<1>2. QED
  BY <1>1, ChainInvariant, PTL

(* insert_index_entry returns false only when every spare bucket is taken. *)
THEOREM FullPoolExhausted == Spec => []FullMeansExhausted
<1>1. Init => FullMeansExhausted
  BY DEF Init, FullMeansExhausted, NoCall
<1>2. QED
  BY <1>1, FullStep, ChainInvariant, PTL DEF Spec

------------------------------------------------------------------------------
(* No spare bucket is lost, for any number of threads that call on main    *)
(* buckets of their own (what the lock of circular_log.h is for): every    *)
(* bucket in use belongs to one main bucket, so the last bucket of a chain *)
(* has no link until the thread that found it so writes one.               *)

(* No two threads call on the same main bucket.                            *)
HomesDisjoint ==
  \A t, u \in Threads : t # u => Homes[t] \cap Homes[u] = {}

Within == RunningLabels \cup {"found"}

(* A frame whose cursor is in a chain of one of t's buckets, and which     *)
(* looks for a spare, or holds one, only at the end of the chain.          *)
Homed(t, f, own) ==
  /\ f.at \in Within =>
       f.main \in Homes[t] /\ f.bkt \in Buckets /\ own[f.bkt] = f.main
  /\ f.at \in {"claim", "link"} => link[f.bkt] = 0

(* own takes a bucket to the main bucket whose chain it is in: a link does *)
(* not leave a chain, and a spare that is in one has a bucket before it.   *)
Owns(own) ==
  /\ own \in [Buckets -> Mains \cup {NULL}]
  /\ \A m \in Mains : own[m] = m
  /\ \A b \in Buckets :
       link[b] # 0 => own[b] # NULL /\ own[b + link[b]] = own[b]
  /\ \A s \in Spares : own[s] # NULL => \E b \in Buckets : LinksTo(b, s)
  /\ \A t \in Threads : Homed(t, call[t], own)

OwnInv == \E own : Owns(own)

------------------------------------------------------------------------------
(* Main buckets and spares are different buckets, and none is NULL.        *)
LEMMA MainsNotSpares ==
  /\ Mains \cap Spares = {} /\ NULL \notin Buckets /\ NULL \notin Mains
  /\ \A b \in Buckets : b \in Mains \/ b \in Spares
BY HashAssumption, BucketAssumption DEF Mains, Spares, Buckets, NULL

(* An empty pool: a main bucket is its own chain, a spare is in none.      *)
LEMMA OwnInit == Init => OwnInv /\ NoSpareLost
<1> SUFFICES ASSUME Init PROVE OwnInv /\ NoSpareLost
  OBVIOUS
<1>1. NoSpareLost
  BY SpareInBuckets DEF Init, PoolInit, NoSpareLost
<1> DEFINE own == [b \in Buckets |-> IF b \in Mains THEN b ELSE NULL]
<1>2. own \in [Buckets -> Mains \cup {NULL}]
  OBVIOUS
<1>3. /\ \A m \in Mains : own[m] = m
      /\ \A s \in Spares : own[s] = NULL
  BY SpareInBuckets, MainsNotSpares
<1> HIDE DEF own
<1>4. \A b \in Buckets : link[b] = 0
  BY DEF Init, PoolInit
<1>5. \A t \in Threads : Homed(t, call[t], own)
  BY DEF Init, Homed, NoCall, Within, RunningLabels
<1>6. Owns(own)
  BY <1>2, <1>3, <1>4, <1>5 DEF Owns
<1>7. QED
  BY <1>1, <1>6 DEF OwnInv

(* A step that only replaces a frame by one that is at home as well, and   *)
(* that holds and held no spare, keeps both.                               *)
LEMMA OwnQuiet ==
  ASSUME TypeOK, NEW own, Owns(own), NoSpareLost, NEW t \in Threads, NEW f,
         UNCHANGED <<link, version>>, call' = [call EXCEPT ![t] = f],
         call[t].at # "link", Homed(t, f, own)
  PROVE  OwnInv' /\ NoSpareLost'
<1>1. \A u \in Threads : call'[u] = IF u = t THEN f ELSE call[u]
  BY DEF TypeOK
<1>2. \A u \in Threads : Homed(u, call[u], own)
  BY DEF Owns
<1>3. \A u \in Threads : Homed(u, call'[u], own)
  BY <1>1, <1>2
<1>4. \A u \in Threads : Homed(u, call[u], own)'
  BY <1>3 DEF Homed
<1>5. Owns(own)'
  BY <1>4 DEF Owns, LinksTo
<1>6. NoSpareLost'
  BY <1>1 DEF NoSpareLost
<1>7. QED
  BY <1>5, <1>6 DEF OwnInv

(* A walk stays in the chain it is in: every frame but those of a claim    *)
(* and of a link.                                                          *)
LEMMA WalkHomed ==
  ASSUME ChainInv, NEW own, Owns(own), NoSpareLost, NEW t \in Threads,
         SlotHit(t) \/ SlotMiss(t) \/ FollowLink(t) \/ ChainEnd(t)
  PROVE  OwnInv' /\ NoSpareLost'
<1>1. TypeOK /\ call[t] \in Frames /\ Homed(t, call[t], own)
  BY DEF ChainInv, TypeOK, Owns
<1>2. /\ call[t].at \in {"probe", "scan", "match"}
      /\ UNCHANGED <<link, version>>
  BY DEF SlotHit, SlotMiss, FollowLink, ChainEnd, AtBucketEnd, Walking, OnHit
<1>3. /\ call[t].main \in Homes[t] /\ call[t].bkt \in Buckets
      /\ own[call[t].bkt] = call[t].main
  BY <1>1, <1>2 DEF Homed, Within, RunningLabels
<1>4. CASE SlotHit(t)
  <2> DEFINE f == [call[t] EXCEPT !.at = OnHit[@]]
  <2>1. call' = [call EXCEPT ![t] = f]
    BY <1>4 DEF SlotHit
  <2>2. /\ f.at \in {"found", "store", "clear"}
        /\ f.main = call[t].main /\ f.bkt = call[t].bkt
    BY <1>1, <1>2 DEF OnHit, Frames
  <2>3. Homed(t, f, own)
    BY <1>3, <2>2 DEF Homed
  <2> HIDE DEF f
  <2>4. QED
    BY <1>1, <1>2, <2>1, <2>3, OwnQuiet
<1>5. CASE SlotMiss(t)
  <2> DEFINE f == [call[t] EXCEPT !.index = @ + 1]
  <2>1. call' = [call EXCEPT ![t] = f]
    BY <1>5 DEF SlotMiss
  <2>2. f.at = call[t].at /\ f.main = call[t].main /\ f.bkt = call[t].bkt
    BY <1>1 DEF Frames
  <2>3. Homed(t, f, own)
    BY <1>2, <1>3, <2>2 DEF Homed
  <2> HIDE DEF f
  <2>4. QED
    BY <1>1, <1>2, <2>1, <2>3, OwnQuiet
<1>6. CASE FollowLink(t)
  <2> DEFINE f == [call[t] EXCEPT !.bkt = next_spare_bucket(@), !.index = 0]
  <2>1. call' = [call EXCEPT ![t] = f]
    BY <1>6 DEF FollowLink
  <2>2. /\ f.at = call[t].at /\ f.main = call[t].main
        /\ f.bkt = next_spare_bucket(call[t].bkt)
    BY <1>1 DEF Frames
  <2>3. /\ link[call[t].bkt] # 0
        /\ next_spare_bucket(call[t].bkt) = call[t].bkt + link[call[t].bkt]
    BY <1>6 DEF FollowLink, next_spare_bucket
  <2>4. /\ call[t].bkt + link[call[t].bkt] \in Buckets
        /\ own[call[t].bkt + link[call[t].bkt]] = own[call[t].bkt]
    BY <1>3, <2>3, SpareInBuckets DEF ChainInv, ClaimInv, ChainsDisjoint, Owns
  <2>5. Homed(t, f, own)
    BY <1>2, <1>3, <2>2, <2>3, <2>4 DEF Homed
  <2> HIDE DEF f
  <2>6. QED
    BY <1>1, <1>2, <2>1, <2>5, OwnQuiet
<1>7. CASE ChainEnd(t)
  <2> DEFINE f == [call[t] EXCEPT !.at = OnEnd[@], !.index = 0, !.spare = MainSize,
                     !.bkt = IF OnEnd[call[t].at] = "claim" THEN @ ELSE NULL]
  <2>1. call' = [call EXCEPT ![t] = f]
    BY <1>7 DEF ChainEnd
  <2>2. OnEnd[call[t].at] \in {"missing", "claim", "absent"}
    BY <1>2 DEF OnEnd
  <2>3. /\ f.at = OnEnd[call[t].at] /\ f.main = call[t].main
        /\ f.at = "claim" => f.bkt = call[t].bkt
    BY <1>1 DEF Frames
  <2>4. link[call[t].bkt] = 0
    <3>1. next_spare_bucket(call[t].bkt) = NULL
      BY <1>7 DEF ChainEnd
    <3>2. link[call[t].bkt] # 0 => call[t].bkt + link[call[t].bkt] \in Buckets
      BY <1>3, SpareInBuckets DEF ChainInv, ClaimInv, ChainsDisjoint
    <3>3. QED
      BY <3>1, <3>2, MainsNotSpares DEF next_spare_bucket
  <2>5. Homed(t, f, own)
    BY <1>3, <2>2, <2>3, <2>4 DEF Homed, Within, RunningLabels
  <2> HIDE DEF f
  <2>6. QED
    BY <1>1, <1>2, <2>1, <2>5, OwnQuiet
<1>8. QED
  BY <1>4, <1>5, <1>6, <1>7

(* The calls begin at a bucket of the thread's own and end outside.        *)
LEMMA EndsHomed ==
  ASSUME ChainInv, NEW own, Owns(own), NoSpareLost, NEW t \in Threads,
         Start(t) \/ Finish(t) \/ InsertFull(t)
  PROVE  OwnInv' /\ NoSpareLost'
<1>1. TypeOK /\ call[t] \in Frames /\ Homed(t, call[t], own)
  BY DEF ChainInv, TypeOK, Owns
<1>2. UNCHANGED <<link, version>> /\ call[t].at # "link"
  BY DEF Start, Finish, InsertFull, ResultLabels
<1>3. CASE Start(t)
  <2>1. PICK b \in Homes[t], h \in Hashes, off \in Offsets \cup {0},
             label \in {"probe", "scan", "match"} :
               call' = [call EXCEPT ![t] = Frame(label, b, h, off)]
    BY <1>3 DEF Start
  <2>2. b \in Mains /\ b \in Buckets /\ own[b] = b
    BY SpareInBuckets, BucketAssumption DEF Owns
  <2> DEFINE f == Frame(label, b, h, off)
  <2>3. f.at = label /\ f.main = b /\ f.bkt = b
    BY DEF Frame
  <2>4. Homed(t, f, own)
    BY <2>2, <2>3 DEF Homed
  <2> HIDE DEF f
  <2>5. call' = [call EXCEPT ![t] = f]
    BY <2>1 DEF f
  <2>6. QED
    BY <1>1, <1>2, <2>4, <2>5, OwnQuiet
<1>4. CASE Finish(t)
  <2> DEFINE f == NoCall
  <2>1. Homed(t, f, own)
    BY DEF Homed, NoCall, Within, RunningLabels
  <2>2. call' = [call EXCEPT ![t] = f]
    BY <1>4 DEF Finish
  <2> HIDE DEF f
  <2>3. QED
    BY <1>1, <1>2, <2>1, <2>2, OwnQuiet
<1>5. CASE InsertFull(t)
  <2> DEFINE f == [call[t] EXCEPT !.at = "full", !.bkt = NULL]
  <2>1. f.at = "full"
    BY <1>1 DEF Frames
  <2>2. Homed(t, f, own)
    BY <2>1 DEF Homed, Within, RunningLabels
  <2>3. call' = [call EXCEPT ![t] = f]
    BY <1>5 DEF InsertFull
  <2> HIDE DEF f
  <2>4. QED
    BY <1>1, <1>2, <2>2, <2>3, OwnQuiet
<1>6. QED
  BY <1>3, <1>4, <1>5

(* The stores to an entry, and the search for a spare, do not move the     *)
(* cursor.                                                                 *)
LEMMA StoresHomed ==
  ASSUME ChainInv, NEW own, Owns(own), NoSpareLost, NEW t \in Threads,
         InsertStore(t) \/ InsertPublish(t) \/ ClaimSkip(t) \/ DeleteClear(t)
  PROVE  OwnInv' /\ NoSpareLost'
<1>1. TypeOK /\ call[t] \in Frames /\ Homed(t, call[t], own)
  BY DEF ChainInv, TypeOK, Owns
<1>2. /\ UNCHANGED <<link, version>>
      /\ call[t].at \in {"store", "publish", "claim", "clear"}
  BY DEF InsertStore, InsertPublish, ClaimSkip, DeleteClear, AtSlot
<1>3. /\ call[t].main \in Homes[t] /\ call[t].bkt \in Buckets
      /\ own[call[t].bkt] = call[t].main
  BY <1>1, <1>2 DEF Homed, Within, RunningLabels
<1>4. CASE ClaimSkip(t)
  <2> DEFINE f == [call[t] EXCEPT !.spare = @ + 1]
  <2>1. call' = [call EXCEPT ![t] = f] /\ call[t].at = "claim"
    BY <1>4 DEF ClaimSkip
  <2>2. f.at = call[t].at /\ f.main = call[t].main /\ f.bkt = call[t].bkt
    BY <1>1 DEF Frames
  <2>3. Homed(t, f, own)
    BY <1>1, <2>2 DEF Homed
  <2> HIDE DEF f
  <2>4. QED
    BY <1>1, <1>2, <2>1, <2>3, OwnQuiet
<1>5. CASE InsertStore(t) \/ InsertPublish(t) \/ DeleteClear(t)
  <2>1. PICK label \in {"publish", "inserted", "deleted"} :
          call' = [call EXCEPT ![t].at = label]
    BY <1>5 DEF InsertStore, InsertPublish, DeleteClear
  <2>2. call[t].at \in {"store", "publish", "clear"}
    BY <1>5 DEF InsertStore, InsertPublish, DeleteClear, AtSlot
  <2> DEFINE f == [call[t] EXCEPT !.at = label]
  <2>3. call' = [call EXCEPT ![t] = f]
    BY <2>1
  <2>4. f.at = label /\ f.main = call[t].main /\ f.bkt = call[t].bkt
    BY <1>1 DEF Frames
  <2>5. Homed(t, f, own)
    BY <1>3, <2>4 DEF Homed
  <2> HIDE DEF f
  <2>6. QED
    BY <1>1, <1>2, <2>2, <2>3, <2>5, OwnQuiet
<1>6. QED
  BY <1>4, <1>5

(* A claimed spare is in the hand of the thread that claimed it.           *)
LEMMA TakeHomed ==
  ASSUME ChainInv, NEW own, Owns(own), NoSpareLost, NEW t \in Threads, ClaimTake(t)
  PROVE  OwnInv' /\ NoSpareLost'
<1>1. TypeOK /\ call[t] \in Frames /\ Homed(t, call[t], own)
  BY DEF ChainInv, TypeOK, Owns
<1>2. /\ call[t].at = "claim" /\ call[t].spare \in Spares
      /\ version' = [version EXCEPT ![call[t].spare] = 2]
      /\ call' = [call EXCEPT ![t].at = "link"]
      /\ link' = link
  BY DEF ClaimTake
<1>3. /\ call'[t].at = "link" /\ call'[t].spare = call[t].spare
      /\ call'[t].main = call[t].main /\ call'[t].bkt = call[t].bkt
      /\ \A u \in Threads \ {t} : call'[u] = call[u]
  BY <1>1, <1>2 DEF TypeOK, Frames
<1>4. ASSUME NEW u \in Threads PROVE Homed(u, call[u], own)'
  <2>1. Homed(u, call[u], own)
    BY DEF Owns
  <2>2. QED
    BY <1>2, <1>3, <2>1 DEF Homed, Within, RunningLabels
<1>5. Owns(own)'
  BY <1>2, <1>4 DEF Owns, LinksTo
<1>6. ASSUME NEW s \in Spares, version'[s] # 0
      PROVE  \/ \E b \in Buckets : link'[b] # 0 /\ b + link'[b] = s
             \/ \E u \in Threads : call'[u].at = "link" /\ call'[u].spare = s
  <2>1. CASE s = call[t].spare
    BY <1>3, <2>1
  <2>2. CASE s # call[t].spare
    <3>1. version[s] # 0
      BY <1>1, <1>2, <1>6, <2>2, SpareInBuckets DEF TypeOK
    <3>2. CASE \E b \in Buckets : link[b] # 0 /\ b + link[b] = s
      BY <1>2, <3>2
    <3>3. CASE \E u \in Threads : call[u].at = "link" /\ call[u].spare = s
      BY <1>2, <1>3, <3>3
    <3>4. QED
      BY <3>1, <3>2, <3>3 DEF NoSpareLost
  <2>3. QED
    BY <2>1, <2>2
<1>7. QED
  BY <1>5, <1>6 DEF OwnInv, NoSpareLost

(* A link is written behind the last bucket of the thread's own chain, so  *)
(* no link is overwritten, and the spare joins the chain.                  *)
LEMMA LinkHomed ==
  ASSUME HomesDisjoint, ChainInv, ChainInv', NEW own, Owns(own), NoSpareLost,
         NEW t \in Threads, InsertLink(t)
  PROVE  OwnInv' /\ NoSpareLost'
<1> USE DEF ClaimInv
<1>0. PICK s \in Spares, k \in Buckets : s = call[t].spare /\ k = call[t].bkt
  BY DEF InsertLink, ChainInv, HandsExclusive, TypeOK, RunningLabels
<1>1. /\ call[t].at = "link" /\ k < s /\ s \in Buckets
      /\ \A b \in Buckets : ~LinksTo(b, s)
  BY <1>0, SpareInBuckets DEF InsertLink, ChainInv, HandsExclusive
<1>2. call[t].main \in Homes[t] /\ own[k] = call[t].main /\ link[k] = 0
  <2>1. Homed(t, call[t], own)
    BY DEF Owns
  <2>2. QED
    BY <1>0, <1>1, <2>1 DEF Homed, Within, RunningLabels
<1>3. (s - k) % LinkSpan = s - k /\ s - k # 0 /\ k + (s - k) = s
  <2>1. s - k \in Nat /\ s - k < LinkSpan /\ s - k # 0 /\ k + (s - k) = s
    BY <1>1, HashAssumption, BucketAssumption, PoolFits DEF Buckets
  <2>2. QED
    BY <2>1, ModSmall, PoolFits
<1>4. /\ link'[k] # 0 /\ k + link'[k] = s
      /\ \A b \in Buckets \ {k} : link'[b] = link[b]
      /\ version' = version
      /\ call'[t].at = "scan" /\ call'[t].main = call[t].main /\ call'[t].bkt = s
      /\ \A u \in Threads \ {t} : call'[u] = call[u]
  BY <1>0, <1>3 DEF InsertLink, ChainInv, TypeOK, Frames
<1>5. own[s] = NULL /\ link[s] = 0
  BY <1>1 DEF Owns
<1>6. own[k] \in Mains /\ own[k] # NULL /\ s # k
  <2>1. call[t].main \in Mains
    BY <1>2, BucketAssumption
  <2>2. QED
    BY <1>2, <1>5, <2>1, MainsNotSpares
<1> DEFINE joined == [own EXCEPT ![s] = own[k]]
<1>7. /\ joined \in [Buckets -> Mains \cup {NULL}]
      /\ joined[s] = own[k]
      /\ \A b \in Buckets : b # s => joined[b] = own[b]
  BY <1>1, <1>6 DEF Owns
<1> HIDE DEF joined
<1>8. \A m \in Mains : joined[m] = m
  BY <1>7, MainsNotSpares, SpareInBuckets DEF Owns
<1>9. ASSUME NEW b \in Buckets, link'[b] # 0
      PROVE  joined[b] # NULL /\ joined[b + link'[b]] = joined[b]
  <2>1. CASE b = k
    BY <1>4, <1>6, <1>7, <2>1
  <2>2. CASE b # k
    <3>1. link[b] # 0 /\ link'[b] = link[b]
      BY <1>4, <1>9, <2>2
    <3>2. b # s
      BY <1>5, <3>1
    <3>3. b + link[b] \in Buckets /\ b + link[b] # s
      BY <1>1, <3>1, SpareInBuckets DEF ChainInv, ChainsDisjoint, LinksTo
    <3>4. own[b] # NULL /\ own[b + link[b]] = own[b]
      BY <3>1 DEF Owns
    <3>5. QED
      BY <1>7, <3>1, <3>2, <3>3, <3>4
  <2>3. QED
    BY <2>1, <2>2
<1>10. ASSUME NEW b \in Buckets, NEW r \in Spares, LinksTo(b, r)
       PROVE  link'[b] # 0 /\ b + link'[b] = r
  BY <1>2, <1>4, <1>10 DEF LinksTo
<1>11. ASSUME NEW r \in Spares, joined[r] # NULL
       PROVE  \E b \in Buckets : link'[b] # 0 /\ b + link'[b] = r
  <2>1. CASE r = s
    BY <1>4, <2>1
  <2>2. CASE r # s
    <3>1. own[r] # NULL
      BY <1>7, <1>11, <2>2, SpareInBuckets
    <3>2. PICK b \in Buckets : LinksTo(b, r)
      BY <3>1 DEF Owns
    <3>3. QED
      BY <1>10, <3>2
  <2>3. QED
    BY <2>1, <2>2
<1>12. ASSUME NEW u \in Threads PROVE Homed(u, call[u], joined)'
  <2>1. CASE u = t
    BY <1>1, <1>2, <1>4, <1>7, <2>1 DEF Homed, Within, RunningLabels
  <2>2. CASE u # t
    <3>1. Homed(u, call[u], own) /\ call'[u] = call[u]
      BY <1>4, <2>2 DEF Owns
    <3>2. call[u].at \in Within =>
            /\ call[u].main \in Homes[u] /\ call[u].bkt \in Buckets
            /\ own[call[u].bkt] = call[u].main
            /\ call[u].bkt # k /\ call[u].bkt # s
      <4>1. call[u].at \in Within => call[u].main # call[t].main
        BY <1>2, <2>2, <3>1 DEF Homed, HomesDisjoint
      <4>2. Homes[u] \subseteq Mains
        BY BucketAssumption
      <4>3. QED
        BY <1>2, <1>5, <3>1, <4>1, <4>2, MainsNotSpares DEF Homed
    <3>3. call[u].at \in {"claim", "link"} => call[u].at \in Within
      BY DEF Within, RunningLabels
    <3>4. call[u].at \in {"claim", "link"} => link[call[u].bkt] = 0
      BY <3>1 DEF Homed
    <3>5. call[u].at \in Within => joined[call[u].bkt] = call[u].main
      BY <1>7, <3>2
    <3>6. call[u].at \in {"claim", "link"} => link'[call[u].bkt] = 0
      BY <1>4, <3>2, <3>3, <3>4
    <3>7. QED
      BY <3>1, <3>2, <3>5, <3>6 DEF Homed
  <2>3. QED
    BY <2>1, <2>2
<1>13. Owns(joined)'
  BY <1>7, <1>8, <1>9, <1>11, <1>12 DEF Owns, LinksTo
<1>14. ASSUME NEW r \in Spares, version'[r] # 0
       PROVE  \/ \E b \in Buckets : link'[b] # 0 /\ b + link'[b] = r
              \/ \E u \in Threads : call'[u].at = "link" /\ call'[u].spare = r
  <2>1. CASE r = s
    BY <1>4, <2>1
  <2>2. CASE \E b \in Buckets : LinksTo(b, r)
    BY <1>10, <2>2
  <2>3. CASE r # s /\ \E u \in Threads : call[u].at = "link" /\ call[u].spare = r
    BY <1>0, <1>4, <2>3
  <2>4. QED
    BY <1>4, <1>14, <2>1, <2>2, <2>3 DEF NoSpareLost, LinksTo
<1>15. QED
  BY <1>13, <1>14 DEF OwnInv, NoSpareLost

------------------------------------------------------------------------------
(* Every step keeps the chains' owners, and no step loses a spare.         *)
LEMMA OwnStep ==
  ASSUME HomesDisjoint, ChainInv, ChainInv', OwnInv, NoSpareLost, [Next]_bucketVars
  PROVE  OwnInv' /\ NoSpareLost'
<1>1. PICK own : Owns(own)
  BY DEF OwnInv
<1>2. CASE UNCHANGED bucketVars
  <2>1. Owns(own)'
    BY <1>1, <1>2 DEF bucketVars, Owns, Homed, LinksTo
  <2>2. NoSpareLost'
    BY <1>2 DEF bucketVars, NoSpareLost
  <2>3. QED
    BY <2>1, <2>2 DEF OwnInv
<1>3. CASE Next
  <2>1. PICK t \in Threads : Start(t) \/ Finish(t) \/ IndexStep(t)
    BY <1>3 DEF Next
  <2>2. QED
    BY <1>1, <2>1, WalkHomed, EndsHomed, StoresHomed, TakeHomed, LinkHomed DEF IndexStep
<1>4. QED
  BY <1>2, <1>3

(* Claims that run side by side leak no spare bucket, as long as no two    *)
(* threads extend the chain of one main bucket.  Without that hypothesis   *)
(* the second link overwrites the first.                                   *)
THEOREM NoSpareGetsLost ==
  ASSUME HomesDisjoint
  PROVE  Spec => []NoSpareLost
<1>1. Init => OwnInv /\ NoSpareLost
  BY OwnInit
<1>2. (OwnInv /\ NoSpareLost) /\ ChainInv /\ ChainInv' /\ [Next]_bucketVars
        => (OwnInv /\ NoSpareLost)'
  BY OwnStep
<1>3. QED
  BY <1>1, <1>2, ChainInvariant, PTL DEF Spec

==============================================================================
