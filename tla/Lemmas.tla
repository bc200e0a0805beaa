------------------------------- MODULE Lemmas -------------------------------
(***************************************************************************)
(* Lemmas the proofs share: induction, division, powers of two, and        *)
(* FoldLeft of an operator along a sequence, by its intermediate results.  *)
(***************************************************************************)
EXTENDS Integers, SequencesExt, FiniteSetTheorems, WellFoundedInduction, TLAPS

CONSTANT Op(_, _) \* what is folded

LEMMA LeastOne ==
  ASSUME NEW S, S \subseteq Nat, S # {}
  PROVE  \E i \in S : \A j \in S : i =< j
<1> DEFINE Less == {ss \in Nat \X Nat : ss[1] < ss[2]}
<1>1. IsWellFoundedOn(Less, Nat)
  BY NatLessThanWellFounded DEF OpToRel
<1>2. PICK i \in S : \A j \in S : ~(<<j, i>> \in Less)
  <2> HIDE DEF Less
  <2> QED
    BY <1>1, WFMin
<1>3. ASSUME NEW j \in S
      PROVE  i =< j
  <2> DEFINE p == <<j, i>>
  <2>1. i \in Nat /\ j \in Nat
    OBVIOUS
  <2>2. p \in Nat \X Nat /\ p[1] = j /\ p[2] = i
    BY <2>1
  <2>3. p \notin Less
    BY <1>2
  <2>4. ~(p[1] < p[2])
    BY <2>2, <2>3, Zenon
  <2> QED
    BY <2>1, <2>2, <2>4
<1> QED
  BY <1>3

\* Induction up to n, over the set of the numbers that have the property.
LEMMA Inductive ==
  \A G : \A n \in Nat :
    0 \in G /\ (\A k \in 1 .. n : k-1 \in G => k \in G) => n \in G
<1> SUFFICES ASSUME NEW G, NEW n \in Nat,
                    0 \in G, \A k \in 1 .. n : k-1 \in G => k \in G, n \notin G
             PROVE  FALSE
  OBVIOUS
<1> DEFINE Bad == {k \in 0 .. n : k \notin G}
<1>1. Bad \subseteq Nat /\ n \in Bad
  OBVIOUS
<1>2. PICK k \in Bad : \A j \in Bad : k =< j
  <2> HIDE DEF Bad
  <2> QED
    BY <1>1, LeastOne
<1>3. k \in 1 .. n /\ k-1 \notin Bad /\ k-1 \in 0 .. n
  BY <1>2
<1>4. k-1 \in G
  BY <1>3
<1> QED
  BY <1>3, <1>4

-----------------------------------------------------------------------------

LEMMA ProductOrder ==
  ASSUME NEW a \in Int, NEW b \in Int, NEW c \in Int, a =< b, 0 =< c
  PROVE  a * c =< b * c
<1>1. 0 =< (b - a) * c
  OBVIOUS
<1>2. (b - a) * c = b * c - a * c
  OBVIOUS
<1>3. a * c \in Int /\ b * c \in Int
  OBVIOUS
<1> QED
  BY <1>1, <1>2, <1>3

\* A number is divided when it is put together from a multiple and a remainder.
LEMMA DivisionIs ==
  ASSUME NEW a \in Int, NEW n \in Nat \ {0}, NEW q \in Int, NEW r \in 0 .. n-1,
         a = q * n + r
  PROVE  a \div n = q /\ a % n = r
<1> DEFINE d == a \div n
           m == a % n
<1>1. d \in Int /\ m \in 0 .. n-1 /\ a = n * d + m
  OBVIOUS
<1> HIDE DEF d, m
<1>2. (q - d) * n = m - r
  BY <1>1
<1>3. (d - q) * n = r - m
  BY <1>1
<1>4. ~(q - d >= 1)
  <2>1. ASSUME q - d >= 1
        PROVE  1 * n =< (q - d) * n
    BY <1>1, <2>1, ProductOrder
  <2> QED
    BY <1>1, <1>2, <2>1
<1>5. ~(d - q >= 1)
  <2>1. ASSUME d - q >= 1
        PROVE  1 * n =< (d - q) * n
    BY <1>1, <2>1, ProductOrder
  <2> QED
    BY <1>1, <1>3, <2>1
<1>6. d = q
  BY <1>1, <1>4, <1>5
<1>7. m = r
  BY <1>1, <1>6
<1> QED
  BY <1>6, <1>7 DEF d, m

LEMMA Division ==
  ASSUME NEW a \in Int, NEW n \in Nat \ {0}
  PROVE  /\ a \div n \in Int /\ a % n \in 0 .. n-1
         /\ a = (a \div n) * n + (a % n)
OBVIOUS

\* Dividing twice is dividing by the product.
LEMMA DivisionTwice ==
  ASSUME NEW a \in Int, NEW m \in Nat \ {0}, NEW n \in Nat \ {0}
  PROVE  (a \div m) \div n = a \div (m * n)
<1> DEFINE q == a \div m
           r == a % m
           s == q \div n
           t == q % n
           mn == m * n
<1>1. q \in Int /\ r \in 0 .. m-1 /\ a = q * m + r
  BY Division
<1> HIDE DEF q, r
<1>2. s \in Int /\ t \in 0 .. n-1 /\ q = s * n + t
  BY <1>1, Division
<1> HIDE DEF s, t
<1>3. t * m =< (n-1) * m /\ 0 * m =< t * m
  BY <1>2, ProductOrder
<1>4. (n-1) * m = mn - m /\ t * m \in Int /\ mn \in Nat \ {0}
  BY <1>2
<1>5. a = s * mn + (t * m + r)
  <2>1. a = (s * n + t) * m + r
    BY <1>1, <1>2
  <2>2. (s * n + t) * m = s * mn + t * m
    BY <1>2
  <2> QED
    BY <1>1, <1>2, <1>4, <2>1, <2>2
<1> HIDE DEF mn
<1>6. t * m + r \in 0 .. mn-1
  BY <1>1, <1>2, <1>3, <1>4
<1>7. a \div mn = s
  BY <1>2, <1>4, <1>5, <1>6, DivisionIs
<1> QED
  BY <1>7 DEF s, q, mn

-----------------------------------------------------------------------------

\* The library counts subsets by powers of two; adding an element doubles them.
LEMMA PowerOfTwo ==
  /\ 2 ^ 0 = 1
  /\ \A n \in Nat : 2 ^ n \in Nat \ {0} /\ 2 ^ (n + 1) = 2 * 2 ^ n
<1>1. ASSUME NEW n \in Nat
      PROVE  /\ IsFiniteSet(SUBSET (1 .. n)) /\ Cardinality(SUBSET (1 .. n)) = 2 ^ n
             /\ Cardinality(SUBSET (1 .. n)) \in Nat
  <2>1. IsFiniteSet(1 .. n) /\ Cardinality(1 .. n) = n
    <3>1. 1 =< n + 1 /\ 1 \in Int /\ n \in Int
      OBVIOUS
    <3>2. /\ IsFiniteSet(1 .. n)
          /\ Cardinality(1 .. n) = IF 1 > n THEN 0 ELSE n - 1 + 1
      BY <3>1, FS_Interval
    <3> QED
      BY <3>2
  <2>2. IsFiniteSet(SUBSET (1 .. n)) /\ Cardinality(SUBSET (1 .. n)) = 2 ^ n
    BY <2>1, FS_SUBSET, Zenon
  <2> QED
    BY <2>2, FS_CardinalityType
<1>2. 2 ^ 0 = 1
  <2>1. SUBSET (1 .. 0) = {{}}
    OBVIOUS
  <2> QED
    BY <1>1, <2>1, FS_Singleton
<1>3. ASSUME NEW n \in Nat
      PROVE  2 ^ n \in Nat \ {0} /\ 2 ^ (n + 1) = 2 * 2 ^ n
  <2> DEFINE A == SUBSET (1 .. n)
             B == {s \union {n + 1} : s \in A}
             C == SUBSET (1 .. n + 1)
             f == [s \in A |-> s \union {n + 1}]
  <2>1. n + 1 \in Nat /\ n + 1 \notin 1 .. n
    OBVIOUS
  <2>2. C = A \union B
    <3>1. A \union B \subseteq C
      <4>1. 1 .. n \subseteq 1 .. n + 1 /\ n + 1 \in 1 .. n + 1
        OBVIOUS
      <4> QED
        BY <4>1
    <3>2. ASSUME NEW s \in C
          PROVE  s \in A \union B
      <4>1. CASE n + 1 \notin s
        <5>1. s \subseteq 1 .. n
          BY <4>1
        <5> QED
          BY <5>1
      <4>2. CASE n + 1 \in s
        <5>1. s \ {n + 1} \in A /\ s = (s \ {n + 1}) \union {n + 1}
          BY <4>2
        <5> QED
          BY <5>1
      <4> QED
        BY <4>1, <4>2
    <3> QED
      BY <3>1, <3>2
  <2>3. A \intersect B = {}
    BY <2>1
  <2>4. f \in Bijection(A, B)
    <3>1. f \in [A -> B] /\ \A t \in B : \E s \in A : f[s] = t
      OBVIOUS
    <3>2. ASSUME NEW s \in A, NEW t \in A, f[s] = f[t]
          PROVE  s = t
      BY <2>1, <3>2
    <3> HIDE DEF A, B, f
    <3> QED
      BY <3>1, <3>2 DEF Bijection, Injection, Surjection, IsInjective
  <2> HIDE DEF f
  <2>5. IsFiniteSet(A) /\ Cardinality(A) = 2 ^ n /\ Cardinality(A) \in Nat
    BY <1>1
  <2>6. Cardinality(C) = 2 ^ (n + 1)
    BY <1>1, <2>1
  <2>7. {} \in A
    OBVIOUS
  <2> HIDE DEF A, B, C
  <2>8. IsFiniteSet(B) /\ Cardinality(B) = Cardinality(A)
    <3>1. ExistsBijection(A, B)
      BY <2>4 DEF ExistsBijection
    <3> QED
      BY <2>5, <3>1, FS_Bijection
  <2>9. Cardinality(C) = Cardinality(A) + Cardinality(A)
    <3>1. Cardinality(A \union B) = Cardinality(A) + Cardinality(B) - Cardinality(A \intersect B)
      BY <2>5, <2>8, FS_Union
    <3>2. Cardinality(A \intersect B) = 0
      BY <2>3, FS_EmptySet
    <3> QED
      BY <2>2, <2>5, <2>8, <3>1, <3>2
  <2>10. Cardinality(A) # 0
    BY <2>5, <2>7, FS_EmptySet
  <2> QED
    BY <2>5, <2>6, <2>9, <2>10
<1> QED
  BY <1>2, <1>3

LEMMA PowersAdd ==
  ASSUME NEW m \in Nat, NEW n \in Nat
  PROVE  2 ^ (m + n) = 2 ^ m * 2 ^ n
<1> DEFINE G == {k \in Nat : 2 ^ (m + k) = 2 ^ m * 2 ^ k}
<1>1. 0 \in G
  BY PowerOfTwo
<1>2. ASSUME NEW k \in 1 .. n, k-1 \in G
      PROVE  k \in G
  <2>1. k-1 \in Nat /\ 2 ^ (m + (k-1)) = 2 ^ m * 2 ^ (k-1)
    BY <1>2
  <2>2. 2 ^ ((k-1) + 1) = 2 * 2 ^ (k-1) /\ 2 ^ ((m + (k-1)) + 1) = 2 * 2 ^ (m + (k-1))
    BY <2>1, PowerOfTwo
  <2>3. (k-1) + 1 = k /\ (m + (k-1)) + 1 = m + k
    BY <2>1
  <2>4. 2 ^ m \in Nat /\ 2 ^ (k-1) \in Nat
    BY <2>1, PowerOfTwo
  <2>5. 2 * (2 ^ m * 2 ^ (k-1)) = 2 ^ m * (2 * 2 ^ (k-1))
    BY <2>4
  <2> QED
    BY <2>1, <2>2, <2>3, <2>5
<1>3. n \in G
  <2> HIDE DEF G
  <2> QED
    BY <1>1, <1>2, Inductive
<1> QED
  BY <1>3

-----------------------------------------------------------------------------

\* The function FoldLeft is defined with: the fold along the elements of s at
\* the positions in t.
IsFold(g, m, s, d) ==
  g = [t \in SUBSET d |->
         IF t = {} THEN m ELSE Op(g[t \ {Max(t)}], s[Max(t)])]

LEMMA MaxOfSubset ==
  ASSUME NEW n \in Nat, NEW t, t \subseteq 1 .. n, t # {}
  PROVE  Max(t) \in t /\ \A y \in t : Max(t) >= y
<1> DEFINE S == {n - y : y \in t}
<1>1. S \subseteq Nat /\ S # {}
  <2>1. \A y \in t : n - y \in Nat
    OBVIOUS
  <2>2. S \subseteq Nat
    BY <2>1
  <2>3. PICK y \in t : TRUE
    OBVIOUS
  <2>4. n - y \in S
    OBVIOUS
  <2> QED
    BY <2>2, <2>4
<1>2. PICK i \in S : \A j \in S : i =< j
  BY <1>1, LeastOne
<1>3. PICK x \in t : i = n - x
  OBVIOUS
<1>4. \A y \in t : x >= y
  <2> TAKE y \in t
  <2>1. i =< n - y
    BY <1>2
  <2> QED
    BY <1>3, <2>1
<1> QED
  BY <1>4, Zenon DEF Max

LEMMA FoldExtends ==
  ASSUME NEW m, NEW s, NEW k \in Nat \ {0}, \E g : IsFold(g, m, s, 1 .. k-1)
  PROVE  \E g : IsFold(g, m, s, 1 .. k)
<1>1. k \in Nat /\ k-1 \in Nat
  OBVIOUS
<1>2. PICK g : IsFold(g, m, s, 1 .. k-1)
  OBVIOUS
<1> DEFINE h == [t \in SUBSET (1 .. k) |->
                   IF k \in t THEN Op(g[t \ {k}], s[k]) ELSE g[t]]
<1>3. IsFold(h, m, s, 1 .. k)
  <2>1. ASSUME NEW t \in SUBSET (1 .. k), k \in t
        PROVE  h[t] = Op(h[t \ {Max(t)}], s[Max(t)])
    <3>1. Max(t) = k
      <4>1. Max(t) \in t /\ Max(t) >= k
        BY <1>1, <2>1, MaxOfSubset
      <4>2. Max(t) \in 1 .. k
        BY <4>1
      <4> HIDE DEF h
      <4> QED
        BY <4>1, <4>2, <1>1
    <3>2. t \ {k} \in SUBSET (1 .. k) /\ k \notin t \ {k}
      OBVIOUS
    <3>3. h[t \ {k}] = g[t \ {k}]
      BY <3>2, Zenon
    <3> QED
      BY <2>1, <3>1, <3>3
  <2>2. ASSUME NEW t \in SUBSET (1 .. k), k \notin t, t # {}
        PROVE  h[t] = Op(h[t \ {Max(t)}], s[Max(t)])
    <3>1. t \in SUBSET (1 .. k-1)
      BY <1>1, <2>2
    <3>2. g[t] = Op(g[t \ {Max(t)}], s[Max(t)])
      BY <1>2, <3>1, <2>2 DEF IsFold
    <3>3. h[t] = g[t] /\ h[t \ {Max(t)}] = g[t \ {Max(t)}]
      <4>1. t \ {Max(t)} \in SUBSET (1 .. k) /\ k \notin t \ {Max(t)}
        BY <2>2
      <4> QED
        BY <2>2, <4>1
    <3> QED
      BY <3>2, <3>3
  <2>3. h[{}] = m
    <3>1. {} \in SUBSET (1 .. k) /\ k \notin {} /\ {} \in SUBSET (1 .. k-1)
      OBVIOUS
    <3>2. g[{}] = m
      BY <1>2, <3>1 DEF IsFold
    <3> QED
      BY <3>1, <3>2
  <2>4. ASSUME NEW t \in SUBSET (1 .. k)
        PROVE  h[t] = IF t = {} THEN m ELSE Op(h[t \ {Max(t)}], s[Max(t)])
    BY <2>1, <2>2, <2>3
  <2>5. h = [t \in SUBSET (1 .. k) |-> h[t]]
    OBVIOUS
  <2> HIDE DEF h
  <2> QED
    BY <2>4, <2>5 DEF IsFold
<1> QED
  BY <1>3

LEMMA FoldExists ==
  ASSUME NEW m, NEW s, NEW n \in Nat
  PROVE  \E g : IsFold(g, m, s, 1 .. n)
<1> DEFINE G == {k \in Nat : \E g : IsFold(g, m, s, 1 .. k)}
<1>1. 0 \in G
  <2> DEFINE g == [t \in SUBSET (1 .. 0) |-> m]
  <2>1. \A t \in SUBSET (1 .. 0) : t = {}
    OBVIOUS
  <2>2. IsFold(g, m, s, 1 .. 0)
    BY <2>1 DEF IsFold
  <2> QED
    BY <2>2
<1>2. ASSUME NEW k \in 1 .. n, k-1 \in G
      PROVE  k \in G
  BY <1>2, FoldExtends
<1> QED
  <2> HIDE DEF G
  <2>1. n \in G
    BY <1>1, <1>2, Inductive
  <2> QED
    BY <2>1 DEF G

(***************************************************************************)
(* The results after each element of the sequence: from the start value,   *)
(* every element is folded into the result of those before it, and the     *)
(* last result is the fold.                                                *)
(***************************************************************************)
THEOREM FoldResults ==
  \A m, s : \A n \in Nat :
    DOMAIN s = 1 .. n =>
      \E r : /\ r[0] = m /\ r[n] = FoldLeft(Op, m, s)
             /\ \A k \in 1 .. n : r[k] = Op(r[k-1], s[k])
<1> SUFFICES ASSUME NEW m, NEW s, NEW n \in Nat, DOMAIN s = 1 .. n
             PROVE  \E r : /\ r[0] = m /\ r[n] = FoldLeft(Op, m, s)
                           /\ \A k \in 1 .. n : r[k] = Op(r[k-1], s[k])
  OBVIOUS
<1> DEFINE g == CHOOSE g : IsFold(g, m, s, DOMAIN s)
           r == [k \in 0 .. n |-> g[1 .. k]]
<1>1. IsFold(g, m, s, 1 .. n)
  BY FoldExists
<1>2. FoldLeft(Op, m, s) = g[1 .. n]
  BY DEF FoldLeft, MapThenFoldSet, IsFold
<1> HIDE DEF g
<1>3. r[0] = m
  <2>1. 1 .. 0 = {} /\ {} \in SUBSET (1 .. n)
    OBVIOUS
  <2> QED
    BY <1>1, <2>1 DEF IsFold
<1>4. ASSUME NEW k \in 1 .. n
      PROVE  r[k] = Op(r[k-1], s[k])
  <2>0. k \in Nat /\ k >= 1 /\ k =< n
    OBVIOUS
  <2>1. 1 .. k \in SUBSET (1 .. n) /\ k \in 1 .. k /\ 1 .. k # {}
    BY <2>0
  <2>2. Max(1 .. k) = k
    <3>1. Max(1 .. k) \in 1 .. k /\ Max(1 .. k) >= k
      BY <2>0, <2>1, MaxOfSubset
    <3> QED
      BY <2>0, <3>1
  <2>3. (1 .. k) \ {k} = 1 .. k-1
    BY <2>0
  <2>5. r[k] = g[1 .. k] /\ r[k-1] = g[1 .. k-1]
    BY <2>0
  <2>4. g[1 .. k] = Op(g[(1 .. k) \ {k}], s[k])
    BY <1>1, <2>1, <2>2, Zenon DEF IsFold
  <2> HIDE DEF r
  <2> QED
    BY <2>3, <2>4, <2>5
<1>5. r[n] = FoldLeft(Op, m, s)
  BY <1>2
<1> HIDE DEF r
<1> QED
  BY <1>3, <1>4, <1>5, Zenon
=============================================================================
