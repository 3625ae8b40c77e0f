---------------------------- MODULE BasicLemmas ------------------------------
(***************************************************************************)
(* Facts about numbers and sequences that the proofs of several components *)
(* use.  Induction is stated over sets, as a least element: a property of  *)
(* numbers is the set of the numbers that have it.                         *)
(***************************************************************************)
EXTENDS Bits, SequencesExt, SequenceTheorems, WellFoundedInduction, TLAPS

(* Every set of naturals that is not empty has a least element.            *)
LEMMA LeastNatural ==
  ASSUME NEW S \in SUBSET Nat, S # {}
  PROVE  \E n \in S : \A m \in S : n <= m
<1>1. PICK x \in S : \A y \in S : <<y, x>> \notin OpToRel(<, Nat)
  BY NatLessThanWellFounded, WFMin
<1>2. \A y \in S : ~(y < x)
  BY <1>1 DEF OpToRel
<1>3. QED
  BY <1>2

(* A set that has 0 and with every number the next one has all of them.    *)
LEMMA NaturalsIn ==
  ASSUME NEW S, 0 \in S, \A n \in Nat : n \in S => n + 1 \in S
  PROVE  Nat \subseteq S
<1>1. SUFFICES ASSUME Nat \ S # {} PROVE FALSE
  OBVIOUS
<1>2. PICK n \in Nat \ S : \A m \in Nat \ S : n <= m
  BY <1>1, LeastNatural
<1>3. n # 0 /\ n - 1 \in Nat
  BY <1>2
<1>4. n - 1 \in S
  BY <1>2, <1>3
<1>5. QED
  BY <1>2, <1>3, <1>4

------------------------------------------------------------------------------
(* What a sequence without its i-th element has.                           *)
LEMMA RemoveAtProperties ==
  ASSUME NEW S, NEW s \in Seq(S), NEW i \in 1..Len(s)
  PROVE  /\ RemoveAt(s, i) \in Seq(S)
         /\ Len(RemoveAt(s, i)) = Len(s) - 1
         /\ \A j \in 1..(Len(s) - 1) :
              RemoveAt(s, i)[j] = IF j < i THEN s[j] ELSE s[j + 1]
<1> DEFINE f == SubSeq(s, 1, i - 1)
           g == SubSeq(s, i + 1, Len(s))
<1>1. Len(s) \in Nat /\ \A j \in 1..Len(s) : s[j] \in S
  BY ElementOfSeq, LenProperties
<1>2. /\ f \in Seq(S) /\ Len(f) = i - 1 /\ \A j \in 1..(i - 1) : f[j] = s[j]
  BY <1>1, SubSeqProperties
<1>3. /\ g \in Seq(S) /\ Len(g) = Len(s) - i /\ \A j \in 1..(Len(s) - i) : g[j] = s[j + i]
  BY <1>1, SubSeqProperties
<1> HIDE DEF f, g
<1>4. RemoveAt(s, i) = f \o g
  BY DEF RemoveAt, f, g
<1>5. /\ f \o g \in Seq(S) /\ Len(f \o g) = Len(f) + Len(g)
      /\ \A j \in 1..(Len(f) + Len(g)) :
           (f \o g)[j] = IF j <= Len(f) THEN f[j] ELSE g[j - Len(f)]
  BY <1>2, <1>3, ConcatProperties
<1>6. \A j \in 1..(Len(s) - 1) : ~(j <= i - 1) =>
        /\ j - (i - 1) \in 1..(Len(s) - i)
        /\ (j - (i - 1)) + i = j + 1
  BY <1>1
<1>7. \A j \in 1..(Len(s) - 1) : ~(j <= i - 1) => g[j - (i - 1)] = s[j + 1]
  BY <1>3, <1>6
<1>8. Len(f) + Len(g) = Len(s) - 1
  BY <1>1, <1>2, <1>3
<1>9. ASSUME NEW j \in 1..(Len(s) - 1)
      PROVE  (f \o g)[j] = IF j < i THEN s[j] ELSE s[j + 1]
  <2>1. CASE j < i
    <3>1. j <= Len(f) /\ j \in 1..(i - 1)
      BY <1>1, <1>2, <2>1
    <3>2. QED
      BY <1>2, <1>5, <1>8, <2>1, <3>1
  <2>2. CASE ~(j < i)
    <3>1. ~(j <= Len(f)) /\ ~(j <= i - 1)
      BY <1>1, <1>2, <2>2
    <3>2. (f \o g)[j] = g[j - Len(f)]
      BY <1>5, <1>8, <3>1
    <3>3. QED
      BY <1>2, <1>7, <2>2, <3>1, <3>2
  <2>3. QED
    BY <2>1, <2>2
<1>10. QED
  BY <1>4, <1>5, <1>8, <1>9

(* A list without repetitions loses just the element that is removed.      *)
LEMMA RemoveFirstProperties ==
  ASSUME NEW S, NEW s \in Seq(S), IsInjective(s), NEW e \in Range(s)
  PROVE  /\ RemoveFirst(s, e) \in Seq(S)
         /\ IsInjective(RemoveFirst(s, e))
         /\ Range(RemoveFirst(s, e)) = Range(s) \ {e}
<1> DEFINE I == {i \in 1..Len(s) : s[i] = e}
           k == Min(I)
           r == RemoveAt(s, k)
<1>1. Len(s) \in Nat /\ DOMAIN s = 1..Len(s)
  BY LenProperties
<1>2. I # {} /\ I \in SUBSET Nat
  BY <1>1 DEF Range
<1>3. k \in I
  <2>1. \E n \in I : \A m \in I : n <= m
    BY <1>2, LeastNatural
  <2>2. QED
    BY <2>1 DEF Min
<1>4. RemoveFirst(s, e) = r
  BY <1>2 DEF RemoveFirst, SelectInSeq
<1> HIDE DEF k
<1>5. /\ k \in 1..Len(s) /\ s[k] = e /\ \A j \in 1..Len(s) : j # k => s[j] # e
  BY <1>1, <1>3 DEF IsInjective
<1>6. /\ r \in Seq(S) /\ Len(r) = Len(s) - 1 /\ DOMAIN r = 1..(Len(s) - 1)
      /\ \A j \in 1..(Len(s) - 1) : r[j] = IF j < k THEN s[j] ELSE s[j + 1]
  BY <1>5, RemoveAtProperties, LenProperties
<1> HIDE DEF r, I
<1>7. IsInjective(r)
  <2>1. SUFFICES ASSUME NEW a \in 1..(Len(s) - 1), NEW b \in 1..(Len(s) - 1), r[a] = r[b]
                 PROVE  a = b
    BY <1>6 DEF IsInjective
  <2> DEFINE p(x) == IF x < k THEN x ELSE x + 1
  <2>2. p(a) \in 1..Len(s) /\ p(b) \in 1..Len(s) /\ r[a] = s[p(a)] /\ r[b] = s[p(b)]
    BY <1>1, <1>6
  <2>3. p(a) = p(b)
    BY <1>1, <2>1, <2>2 DEF IsInjective
  <2>4. QED
    BY <1>1, <1>5, <2>3
<1>8. Range(r) \subseteq Range(s) \ {e}
  <2>1. SUFFICES ASSUME NEW j \in 1..(Len(s) - 1)
                 PROVE  r[j] \in Range(s) \ {e}
    BY <1>6 DEF Range
  <2>2. CASE j < k
    <3>1. j \in 1..Len(s) /\ j # k
      BY <1>1, <1>5, <2>2
    <3>2. QED
      BY <1>1, <1>5, <1>6, <2>2, <3>1 DEF Range
  <2>3. CASE ~(j < k)
    <3>1. j + 1 \in 1..Len(s) /\ j + 1 # k
      BY <1>1, <1>5, <2>3
    <3>2. QED
      BY <1>1, <1>5, <1>6, <2>3, <3>1 DEF Range
  <2>4. QED
    BY <2>2, <2>3
<1>9. Range(s) \ {e} \subseteq Range(r)
  <2>1. SUFFICES ASSUME NEW j \in 1..Len(s), s[j] # e
                 PROVE  s[j] \in Range(r)
    BY <1>1 DEF Range
  <2>2. CASE j < k
    <3>1. j \in 1..(Len(s) - 1)
      BY <1>1, <1>5, <2>2
    <3>2. QED
      BY <1>6, <2>2, <3>1 DEF Range
  <2>3. CASE j > k
    <3>1. j - 1 \in 1..(Len(s) - 1) /\ ~(j - 1 < k) /\ (j - 1) + 1 = j
      BY <1>1, <1>5, <2>3
    <3>2. r[j - 1] = s[j]
      BY <1>6, <3>1
    <3>3. QED
      BY <1>6, <3>1, <3>2 DEF Range
  <2>4. QED
    BY <1>1, <1>5, <2>1, <2>2, <2>3
<1>10. QED
  BY <1>4, <1>6, <1>7, <1>8, <1>9 DEF r

(* What a list has with an element put in front that it did not have.      *)
LEMMA ConsProperties ==
  ASSUME NEW S, NEW s \in Seq(S), IsInjective(s), NEW e \in S, e \notin Range(s)
  PROVE  /\ <<e>> \o s \in Seq(S) /\ <<e>> \o s # <<>>
         /\ IsInjective(<<e>> \o s)
         /\ Range(<<e>> \o s) = Range(s) \cup {e}
<1> DEFINE r == <<e>> \o s
<1>1. Len(s) \in Nat /\ DOMAIN s = 1..Len(s)
  BY LenProperties
<1>2. <<e>> \in Seq(S) /\ Len(<<e>>) = 1 /\ <<e>>[1] = e
  OBVIOUS
<1>3. /\ r \in Seq(S) /\ Len(r) = Len(s) + 1
      /\ \A j \in 1..(Len(s) + 1) : r[j] = IF j <= 1 THEN <<e>>[j] ELSE s[j - 1]
  BY <1>1, <1>2, ConcatProperties
<1> HIDE DEF r
<1>4. DOMAIN r = 1..(Len(s) + 1) /\ r[1] = e
  BY <1>1, <1>2, <1>3, LenProperties
<1>5. \A j \in 1..(Len(s) + 1) : j # 1 => j - 1 \in 1..Len(s) /\ r[j] = s[j - 1]
  BY <1>1, <1>3
<1>6. IsInjective(r)
  <2>1. SUFFICES ASSUME NEW a \in 1..(Len(s) + 1), NEW b \in 1..(Len(s) + 1), r[a] = r[b]
                 PROVE  a = b
    BY <1>4 DEF IsInjective
  <2>2. a # 1 => r[a] \in Range(s)
    BY <1>1, <1>5 DEF Range
  <2>3. b # 1 => r[b] \in Range(s)
    BY <1>1, <1>5 DEF Range
  <2>4. CASE a # 1 /\ b # 1
    <3>1. a - 1 = b - 1
      BY <1>1, <1>5, <2>1, <2>4 DEF IsInjective
    <3>2. QED
      BY <3>1
  <2>5. QED
    BY <1>4, <2>1, <2>2, <2>3, <2>4
<1>7. Range(r) = Range(s) \cup {e}
  <2>1. Range(r) \subseteq Range(s) \cup {e}
    BY <1>1, <1>4, <1>5 DEF Range
  <2>2. ASSUME NEW j \in 1..Len(s) PROVE s[j] \in Range(r)
    <3>1. j + 1 \in 1..(Len(s) + 1) /\ j + 1 # 1 /\ (j + 1) - 1 = j
      BY <1>1
    <3>2. r[j + 1] = s[j]
      BY <1>5, <3>1
    <3>3. QED
      BY <1>4, <3>1, <3>2 DEF Range
  <2>3. e \in Range(r)
    BY <1>1, <1>4 DEF Range
  <2>4. QED
    BY <1>1, <2>1, <2>2, <2>3 DEF Range
<1>8. r # <<>>
  BY <1>1, <1>3, EmptySeq
<1>9. QED
  BY <1>3, <1>6, <1>7, <1>8 DEF r

(* What a list without repetitions has behind its head.                    *)
LEMMA TailProperties ==
  ASSUME NEW S, NEW s \in Seq(S), IsInjective(s), s # <<>>
  PROVE  /\ Head(s) \in Range(s) /\ Tail(s) \in Seq(S)
         /\ IsInjective(Tail(s))
         /\ Range(Tail(s)) = Range(s) \ {Head(s)}
<1> DEFINE r == Tail(s)
<1>1. Len(s) \in Nat /\ Len(s) # 0 /\ DOMAIN s = 1..Len(s)
  BY LenProperties, EmptySeq
<1>2. /\ r \in Seq(S) /\ Len(r) = Len(s) - 1
      /\ \A j \in 1..(Len(s) - 1) : r[j] = s[j + 1]
  BY HeadTailProperties
<1>3. DOMAIN r = 1..(Len(s) - 1)
  BY <1>2, LenProperties
<1>4. Head(s) = s[1]
  BY <1>1
<1> HIDE DEF r
<1>5. \A j \in 1..(Len(s) - 1) : j + 1 \in 1..Len(s) /\ j + 1 # 1
  BY <1>1
<1>6. IsInjective(r)
  BY <1>1, <1>2, <1>3, <1>5 DEF IsInjective
<1>7. Range(r) \subseteq Range(s) \ {s[1]}
  BY <1>1, <1>2, <1>3, <1>5 DEF IsInjective, Range
<1>8. ASSUME NEW j \in 1..Len(s), j # 1 PROVE s[j] \in Range(r)
  <2>1. j - 1 \in 1..(Len(s) - 1) /\ (j - 1) + 1 = j
    BY <1>1, <1>8
  <2>2. r[j - 1] = s[j]
    BY <1>2, <2>1
  <2>3. QED
    BY <1>3, <2>1, <2>2 DEF Range
<1>9. Range(r) = Range(s) \ {s[1]}
  BY <1>1, <1>7, <1>8 DEF Range
<1>10. s[1] \in Range(s)
  BY <1>1 DEF Range
<1>11. QED
  BY <1>2, <1>4, <1>6, <1>9, <1>10 DEF r

------------------------------------------------------------------------------
(* One step of the bitwise and of two numbers, on the ands of their halves *)
(* in f; f has them, as the recursion does, for second numbers up to k.    *)
AndRule(f, n, m) ==
  IF n = 0 THEN 0
  ELSE (IF m % 2 = 1 /\ n % 2 = 1 THEN 1 ELSE 0) + 2 * f[n \div 2][m \div 2]

Ands(f, x, k) ==
  /\ f \in [0..k -> [0..x -> Nat]]
  /\ \A n \in 0..k, m \in 0..x : f[n][m] = AndRule(f, n, m)

(* The half of a number is below it, but for 0.                            *)
LEMMA Halves ==
  ASSUME NEW k \in Nat, NEW n \in 0..k
  PROVE  /\ n \div 2 \in 0..k /\ n % 2 \in {0, 1} /\ n = 2 * (n \div 2) + (n % 2)
         /\ n # 0 => n \div 2 < n
<1>1. n \in Nat
  OBVIOUS
<1>2. n \div 2 \in Nat
  BY <1>1
<1>3. n % 2 \in 0..1
  BY <1>1
<1>4. n = 2 * (n \div 2) + (n % 2)
  BY <1>1
<1>5. QED
  BY <1>2, <1>3, <1>4

(* The recursion defines a function, of numbers at most the second one.    *)
LEMMA AndStep ==
  ASSUME NEW x \in Nat, NEW k \in Nat, NEW f, Ands(f, x, k)
  PROVE  \E g : Ands(g, x, k + 1)
<1> DEFINE p == k + 1
           g == [n \in 0..p |-> [m \in 0..x |->
                   IF n = p THEN AndRule(f, p, m) ELSE f[n][m]]]
<1>1. p \in Nat /\ p # 0 /\ p \in 0..p /\ 0..p = (0..k) \cup {p} /\ p \notin 0..k
  OBVIOUS
<1>2. \A n \in 0..p, m \in 0..x : g[n][m] = IF n = p THEN AndRule(f, p, m) ELSE f[n][m]
  OBVIOUS
<1>3. ASSUME NEW m \in 0..x PROVE AndRule(f, p, m) \in Nat
  <2>1. p \div 2 \in 0..k /\ m \div 2 \in 0..x
    BY <1>1, Halves
  <2>2. f[p \div 2][m \div 2] \in Nat
    BY <2>1 DEF Ands
  <2>3. QED
    BY <1>1, <2>2 DEF AndRule
<1>4. g \in [0..p -> [0..x -> Nat]]
  BY <1>1, <1>3 DEF Ands
<1> HIDE DEF g
<1>5. ASSUME NEW n \in 0..p, NEW m \in 0..x, n # 0
      PROVE  g[n \div 2][m \div 2] = f[n \div 2][m \div 2]
  <2>1. n \div 2 \in 0..p /\ n \div 2 # p /\ m \div 2 \in 0..x
    BY <1>1, <1>5, Halves
  <2>2. QED
    BY <1>2, <2>1
<1>6. ASSUME NEW n \in 0..p, NEW m \in 0..x
      PROVE  g[n][m] = AndRule(g, n, m)
  <2>1. AndRule(g, n, m) = AndRule(f, n, m)
    BY <1>5 DEF AndRule
  <2>2. CASE n = p
    BY <1>2, <1>3, <2>1, <2>2
  <2>3. CASE n # p
    <3>1. n \in 0..k
      BY <1>1, <2>3
    <3>2. QED
      BY <1>2, <2>1, <2>3, <3>1 DEF Ands
  <2>4. QED
    BY <2>2, <2>3
<1>7. QED
  BY <1>4, <1>6 DEF Ands

LEMMA AndExists ==
  ASSUME NEW x \in Nat, NEW y \in Nat
  PROVE  \E f : Ands(f, x, y)
<1> DEFINE S == {k \in Nat : \E f : Ands(f, x, k)}
<1>1. 0 \in S
  <2> DEFINE f == [n \in 0..0 |-> [m \in 0..x |-> 0]]
  <2>1. f \in [0..0 -> [0..x -> Nat]] /\ \A n \in 0..0, m \in 0..x : n = 0 /\ f[n][m] = 0
    OBVIOUS
  <2> HIDE DEF f
  <2>2. Ands(f, x, 0)
    BY <2>1 DEF Ands, AndRule
  <2>3. QED
    BY <2>2
<1>2. \A n \in Nat : n \in S => n + 1 \in S
  BY AndStep
<1> HIDE DEF S
<1>3. y \in S
  BY <1>1, <1>2, NaturalsIn
<1>4. QED
  BY <1>3 DEF S

(* A bitwise and is at most its second argument.                           *)
LEMMA BitAndRange ==
  ASSUME NEW x \in Nat, NEW y \in Nat
  PROVE  BitAnd(x, y) \in 0..y
<1> DEFINE A == CHOOSE f : f = [n \in 0..y |-> [m \in 0..x |->
                   IF n = 0 THEN 0
                   ELSE (IF m % 2 = 1 /\ n % 2 = 1 THEN 1 ELSE 0)
                          + 2 * f[n \div 2][m \div 2]]]
<1>1. BitAnd(x, y) = A[y][x]
  BY DEF BitAnd
<1>2. A = CHOOSE f : f = [n \in 0..y |-> [m \in 0..x |-> AndRule(f, n, m)]]
  BY DEF AndRule
<1> HIDE DEF A
<1>3. PICK f : Ands(f, x, y)
  BY AndExists
<1>4. f = [n \in 0..y |-> [m \in 0..x |-> AndRule(f, n, m)]]
  <2>1. ASSUME NEW n \in 0..y PROVE f[n] = [m \in 0..x |-> AndRule(f, n, m)]
    BY <1>3 DEF Ands
  <2>2. QED
    BY <1>3, <2>1 DEF Ands
<1>5. A = [n \in 0..y |-> [m \in 0..x |-> AndRule(A, n, m)]]
  BY <1>2, <1>4
<1>6. ASSUME NEW n \in 0..y, NEW m \in 0..x
      PROVE  A[n][m] = AndRule(A, n, m)
  <2> DEFINE row(k) == [i \in 0..x |-> AndRule(A, k, i)]
  <2>1. A[n] = row(n)
    BY <1>5
  <2>2. QED
    BY <2>1
<1>7. SUFFICES ASSUME NEW bad \in SUBSET (0..y),
                      bad = {n \in 0..y : ~(\A m \in 0..x : A[n][m] \in 0..n)},
                      bad # {}
               PROVE  FALSE
  <2>1. {n \in 0..y : ~(\A m \in 0..x : A[n][m] \in 0..n)} = {}
    BY <1>7
  <2>2. x \in 0..x /\ y \in 0..y
    OBVIOUS
  <2>3. QED
    BY <1>1, <2>1, <2>2
<1>8. PICK n \in bad : \A k \in bad : n <= k
  BY <1>7, LeastNatural
<1>9. PICK m \in 0..x : ~(A[n][m] \in 0..n)
  BY <1>7, <1>8
<1>10. n \in 0..y /\ A[n][m] = AndRule(A, n, m)
  BY <1>6, <1>8
<1>11. n # 0
  BY <1>9, <1>10 DEF AndRule
<1>12. /\ n \div 2 \in 0..y /\ m \div 2 \in 0..x /\ n \div 2 < n
       /\ n % 2 \in {0, 1} /\ n = 2 * (n \div 2) + (n % 2)
  BY <1>10, <1>11, Halves
<1>13. A[n \div 2][m \div 2] \in 0..(n \div 2)
  <2>1. n \div 2 \notin bad
    BY <1>8, <1>12
  <2>2. QED
    BY <1>7, <1>12, <2>1
<1>14. QED
  BY <1>9, <1>10, <1>11, <1>12, <1>13 DEF AndRule

==============================================================================
