----------------------------- MODULE DistanceProofs -----------------------------
(***************************************************************************)
(* The distance board of SensorBoards, for any session, readings and       *)
(* bounds: what its filter publishes is the median of the readings it      *)
(* should be the median of, and every limit stays in range.                *)
(*                                                                         *)
(* A sequence of numbers of any length has an order that sorts it, by the  *)
(* least length that would have none.  The middle of such an order is a    *)
(* median, and stays one when the values are permuted, as they are in the  *)
(* ring.                                                                   *)
(***************************************************************************)
EXTENDS SensorBoards, FiniteSetTheorems, SequenceTheorems, WellFoundedInduction, TLAPS

-----------------------------------------------------------------------------
(* Orders that sort.                                                       *)

LEMMA LeastNatural ==
  ASSUME NEW T \in SUBSET Nat, T # {}
  PROVE  \E x \in T : \A y \in T : x <= y
<1> DEFINE R == OpToRel(<, Nat)
<1>1. IsWellFoundedOn(R, Nat)
  BY NatLessThanWellFounded
<1>2. ASSUME NEW x \in Nat, NEW y \in Nat, ~(<<y, x>> \in R) PROVE x <= y
  BY <1>2 DEF OpToRel
<1> HIDE DEF R
<1>3. PICK x \in T : \A y \in T : ~(<<y, x>> \in R)
  BY <1>1, WFMin
<1>4. x \in Nat /\ \A y \in T : y \in Nat
  OBVIOUS
<1> QED BY <1>2, <1>3, <1>4

\* Sequences of n numbers have a largest element, and an order that sorts them
HasLargest(n) == \A s \in [1 .. n + 1 -> Int] : \E k \in 1 .. n + 1 :
                    \A i \in 1 .. n + 1 : s[i] <= s[k]
Sortable(n) == \A s \in [1 .. n -> Int] : \E p \in Bijection(1 .. n, 1 .. n) : Sorts(p, s)

LEMMA LargestExists == \A n \in Nat : HasLargest(n)
<1> DEFINE T == {n \in Nat : ~HasLargest(n)}
<1>1. HasLargest(0)
  BY DEF HasLargest
<1>2. ASSUME NEW n \in Nat, HasLargest(n) PROVE HasLargest(n + 1)
  <2>0. (n + 1) + 1 = n + 2
    OBVIOUS
  <2> SUFFICES ASSUME NEW s \in [1 .. n + 2 -> Int]
               PROVE  \E k \in 1 .. n + 2 : \A i \in 1 .. n + 2 : s[i] <= s[k]
    BY <2>0 DEF HasLargest
  <2> DEFINE t == [i \in 1 .. n + 1 |-> s[i]]
  <2>1. PICK k \in 1 .. n + 1 : \A i \in 1 .. n + 1 : t[i] <= t[k]
    <3>1. t \in [1 .. n + 1 -> Int]
      OBVIOUS
    <3> HIDE DEF t
    <3> QED BY <1>2, <3>1 DEF HasLargest
  <2>2. \A i \in 1 .. n + 1 : s[i] <= s[k]
    BY <2>1
  <2>3. CASE s[n + 2] <= s[k]
    <3>1. \A i \in 1 .. n + 2 : s[i] <= s[k]
      BY <2>2, <2>3
    <3>2. k \in 1 .. n + 2
      OBVIOUS
    <3> QED BY <3>1, <3>2
  <2>4. CASE s[k] < s[n + 2]
    <3>1. ASSUME NEW i \in 1 .. n + 2 PROVE s[i] <= s[n + 2]
      <4>1. CASE i = n + 2
        BY <4>1
      <4>2. CASE i \in 1 .. n + 1
        <5>1. s[i] <= s[k] /\ s[i] \in Int /\ s[k] \in Int /\ s[n + 2] \in Int
          BY <2>2, <4>2
        <5> QED BY <2>4, <5>1
      <4> QED BY <4>1, <4>2
    <3>2. n + 2 \in 1 .. n + 2
      OBVIOUS
    <3> QED BY <3>1, <3>2
  <2>5. s[k] \in Int /\ s[n + 2] \in Int
    OBVIOUS
  <2> QED BY <2>3, <2>4, <2>5
<1>3. T = {}
  <2> SUFFICES ASSUME T # {} PROVE FALSE
    OBVIOUS
  <2>1. PICK n \in T : \A m \in T : n <= m
    BY LeastNatural
  <2>2. n \in Nat \ {0}
    BY <1>1, <2>1
  <2>3. n - 1 \in Nat /\ n - 1 \notin T /\ (n - 1) + 1 = n
    BY <2>1, <2>2
  <2> QED BY <1>2, <2>1, <2>3
<1> QED BY <1>3

LEMMA AllSortable == \A n \in Nat : Sortable(n)
<1> DEFINE T == {n \in Nat : ~Sortable(n)}
<1>1. Sortable(0)
  <2> SUFFICES ASSUME NEW s \in [1 .. 0 -> Int]
               PROVE  \E p \in Bijection(1 .. 0, 1 .. 0) : Sorts(p, s)
    BY DEF Sortable
  <2>1. [i \in 1 .. 0 |-> i] \in Bijection(1 .. 0, 1 .. 0)
    BY DEF Bijection, Injection, Surjection, IsInjective
  <2>2. Sorts([i \in 1 .. 0 |-> i], s)
    BY DEF Sorts
  <2> QED BY <2>1, <2>2
<1>2. ASSUME NEW n \in Nat, Sortable(n) PROVE Sortable(n + 1)
  <2> SUFFICES ASSUME NEW s \in [1 .. n + 1 -> Int]
               PROVE  \E q \in Bijection(1 .. n + 1, 1 .. n + 1) : Sorts(q, s)
    BY DEF Sortable
  <2>1. PICK k \in 1 .. n + 1 : \A i \in 1 .. n + 1 : s[i] <= s[k]
    BY LargestExists DEF HasLargest
  <2> DEFINE t == [i \in 1 .. n |-> IF i = k THEN s[n + 1] ELSE s[i]]
  <2>2. t \in [1 .. n -> Int]
    OBVIOUS
  <2>3. PICK p \in Bijection(1 .. n, 1 .. n) : Sorts(p, t)
    <3> HIDE DEF t
    <3> QED BY <1>2, <2>2 DEF Sortable
  <2>4. /\ p \in [1 .. n -> 1 .. n]
        /\ \A i, j \in 1 .. n : p[i] = p[j] => i = j
        /\ \A w \in 1 .. n : \E v \in 1 .. n : p[v] = w
    BY <2>3 DEF Bijection, Injection, Surjection, IsInjective
  <2> DEFINE q == [i \in 1 .. n + 1 |-> IF i = n + 1 THEN k
                                        ELSE IF p[i] = k THEN n + 1 ELSE p[i]]
  <2>q. /\ q[n + 1] = k
        /\ \A i \in 1 .. n : p[i] \in 1 .. n /\ q[i] = (IF p[i] = k THEN n + 1 ELSE p[i])
    <3>1. n + 1 \in 1 .. n + 1
      OBVIOUS
    <3>2. ASSUME NEW i \in 1 .. n PROVE p[i] \in 1 .. n
      BY <2>4
    <3>3. ASSUME NEW i \in 1 .. n PROVE i \in 1 .. n + 1 /\ i # n + 1
      OBVIOUS
    <3> QED BY <3>1, <3>2, <3>3
  <2>r. \A i \in 1 .. n + 1 : i = n + 1 \/ i \in 1 .. n
    OBVIOUS
  <2>5. q \in [1 .. n + 1 -> 1 .. n + 1]
    <3>1. ASSUME NEW i \in 1 .. n + 1 PROVE q[i] \in 1 .. n + 1
      <4>1. k \in 1 .. n + 1 /\ n + 1 \in 1 .. n + 1 /\ \A v \in 1 .. n : v \in 1 .. n + 1
        OBVIOUS
      <4> HIDE DEF q
      <4>2. CASE i = n + 1
        BY <2>q, <4>1, <4>2
      <4>3. CASE i \in 1 .. n
        BY <2>q, <4>1, <4>3
      <4> QED BY <2>r, <4>2, <4>3
    <3> QED BY <3>1
  <2>6. ASSUME NEW i \in 1 .. n + 1, NEW j \in 1 .. n + 1, q[i] = q[j] PROVE i = j
    <3> HIDE DEF q
    <3>1. CASE i = n + 1 /\ j \in 1 .. n
      BY <2>q, <2>6, <3>1
    <3>2. CASE j = n + 1 /\ i \in 1 .. n
      BY <2>q, <2>6, <3>2
    <3>3. CASE i \in 1 .. n /\ j \in 1 .. n
      <4>1. p[i] = p[j]
        BY <2>q, <2>6, <3>3
      <4> QED BY <2>4, <3>3, <4>1
    <3> QED BY <2>r, <3>1, <3>2, <3>3
  <2>7. \A w \in 1 .. n + 1 : \E v \in 1 .. n + 1 : q[v] = w
    <3> SUFFICES ASSUME NEW w \in 1 .. n + 1 PROVE \E v \in 1 .. n + 1 : q[v] = w
      OBVIOUS
    <3>1. CASE w = k
      <4>1. q[n + 1] = w /\ n + 1 \in 1 .. n + 1
        BY <3>1
      <4> QED BY <4>1
    <3>2. CASE w # k /\ w = n + 1
      <4>1. PICK v \in 1 .. n : p[v] = k
        BY <2>4, <3>2
      <4>2. q[v] = w /\ v \in 1 .. n + 1
        BY <3>2, <4>1
      <4> QED BY <4>2
    <3>3. CASE w # k /\ w # n + 1
      <4>1. PICK v \in 1 .. n : p[v] = w
        BY <2>4, <3>3
      <4>2. q[v] = w /\ v \in 1 .. n + 1
        BY <3>3, <4>1
      <4> QED BY <4>2
    <3> QED BY <3>1, <3>2, <3>3
  <2>8. ASSUME NEW i \in 1 .. n PROVE s[q[i]] = t[p[i]]
    <3>1. t[p[i]] = (IF p[i] = k THEN s[n + 1] ELSE s[p[i]])
      BY <2>q
    <3> HIDE DEF q, t
    <3> QED BY <2>q, <3>1
  <2>9. s[q[n + 1]] = s[k]
    OBVIOUS
  <2>10. \A i, j \in 1 .. n + 1 : i < j => s[q[i]] <= s[q[j]]
    <3> SUFFICES ASSUME NEW i \in 1 .. n + 1, NEW j \in 1 .. n + 1, i < j
                 PROVE  s[q[i]] <= s[q[j]]
      OBVIOUS
    <3>1. CASE j = n + 1
      <4>1. q[i] \in 1 .. n + 1
        BY <2>5
      <4> HIDE DEF q
      <4> QED BY <2>1, <2>9, <3>1, <4>1
    <3>2. CASE j # n + 1
      <4>1. i \in 1 .. n /\ j \in 1 .. n
        BY <3>2
      <4>2. t[p[i]] <= t[p[j]]
        <5> HIDE DEF t
        <5> QED BY <2>2, <2>3, <4>1 DEF Sorts
      <4> HIDE DEF q, t
      <4> QED BY <2>8, <4>1, <4>2
    <3> QED BY <3>1, <3>2
  <2>11. q \in Bijection(1 .. n + 1, 1 .. n + 1)
    <3> HIDE DEF q
    <3> QED BY <2>5, <2>6, <2>7 DEF Bijection, Injection, Surjection, IsInjective
  <2>12. Sorts(q, s)
    <3> HIDE DEF q
    <3> QED BY <2>10 DEF Sorts
  <2> QED BY <2>11, <2>12
<1>3. T = {}
  <2> SUFFICES ASSUME T # {} PROVE FALSE
    OBVIOUS
  <2>1. PICK n \in T : \A m \in T : n <= m
    BY LeastNatural
  <2>2. n \in Nat \ {0}
    BY <1>1, <2>1
  <2>3. n - 1 \in Nat /\ n - 1 \notin T /\ (n - 1) + 1 = n
    BY <2>1, <2>2
  <2> QED BY <1>2, <2>1, <2>3
<1> QED BY <1>3

-----------------------------------------------------------------------------
(* The median.                                                             *)

LEMMA UpToFinite ==
  ASSUME NEW n \in Nat
  PROVE  IsFiniteSet(1 .. n) /\ Cardinality(1 .. n) = n
<1>1. IsFiniteSet(1 .. n) /\ Cardinality(1 .. n) = (IF 1 > n THEN 0 ELSE n - 1 + 1)
  BY FS_Interval
<1> QED BY <1>1

LEMMA HalfFacts ==
  ASSUME NEW n \in Nat \ {0}
  PROVE  n \div 2 \in 0 .. n - 1
OBVIOUS

\* In any order that sorts a sequence the middle one is a median: the smaller
\* ones stand before it, and the larger ones after it.
LEMMA MiddleIsMedian ==
  ASSUME NEW n \in Nat \ {0}, NEW v \in [1 .. n -> Int],
         NEW c \in Surjection(1 .. n, 1 .. n), Sorts(c, v)
  PROVE  IsMedian(v[c[n \div 2 + 1]], v)
<1> DEFINE h == n \div 2
           m == v[c[h + 1]]
           below == {i \in 1 .. n : v[i] < m}
           upTo == {i \in 1 .. n : v[i] <= m}
           above == {i \in 1 .. n : m < v[i]}
           first == {c[j] : j \in 1 .. h}
           rest == {c[h + 1 + j] : j \in 1 .. n - h - 1}
<1> DEFINE Onto == \A w \in 1 .. n : \E j \in 1 .. n : c[j] = w
<1>c. c \in [1 .. n -> 1 .. n] /\ Onto
  BY DEF Surjection
<1> HIDE DEF Onto
<1>0. h \in 0 .. n - 1
  BY HalfFacts
<1> HIDE DEF h
<1>1. h \in 0 .. n - 1 /\ h \in Nat /\ n - h - 1 \in Nat /\ h + 1 \in 1 .. n
  BY <1>0
<1>3. m \in Int /\ \A i \in 1 .. n : v[i] \in Int
  BY <1>c, <1>1
<1>4. \A i, j \in 1 .. n : i < j => v[c[i]] <= v[c[j]]
  BY DEF Sorts
<1>v. \A j \in 1 .. n : v[c[j]] \in Int
  BY <1>c, <1>3
<1>5. below \subseteq first
  <2> SUFFICES ASSUME NEW i \in 1 .. n, v[i] < m PROVE i \in first
    OBVIOUS
  <2>1. PICK j \in 1 .. n : c[j] = i
    BY <1>c DEF Onto
  <2>2. ASSUME h + 1 <= j PROVE FALSE
    <3>1. m <= v[c[j]]
      <4>1. CASE j = h + 1
        BY <1>v, <4>1
      <4>2. CASE j # h + 1
        BY <1>1, <1>4, <2>2, <4>2
      <4> QED BY <4>1, <4>2
    <3> HIDE DEF m
    <3> QED BY <1>3, <2>1, <3>1
  <2>3. j \in 1 .. h
    BY <1>1, <2>2
  <2> QED BY <2>1, <2>3
<1>6. above \subseteq rest
  <2> SUFFICES ASSUME NEW i \in 1 .. n, m < v[i] PROVE i \in rest
    OBVIOUS
  <2>1. PICK j \in 1 .. n : c[j] = i
    BY <1>c DEF Onto
  <2>2. ASSUME j <= h + 1 PROVE FALSE
    <3>1. v[c[j]] <= m
      <4>1. CASE j = h + 1
        BY <1>v, <4>1
      <4>2. CASE j # h + 1
        BY <1>1, <1>4, <2>2, <4>2
      <4> QED BY <4>1, <4>2
    <3> HIDE DEF m
    <3> QED BY <1>3, <2>1, <3>1
  <2>3. j - h - 1 \in 1 .. n - h - 1 /\ h + 1 + (j - h - 1) = j
    BY <1>1, <2>2
  <2>4. i = c[h + 1 + (j - h - 1)]
    BY <2>1, <2>3
  <2> QED BY <2>3, <2>4
<1>7. IsFiniteSet(first) /\ Cardinality(first) <= h
  <2>1. [j \in 1 .. h |-> c[j]] \in Surjection(1 .. h, first)
    BY DEF Surjection
  <2>2. IsFiniteSet(1 .. h) /\ Cardinality(1 .. h) = h
    BY <1>1, UpToFinite
  <2> QED BY <2>1, <2>2, FS_Surjection
<1>8. IsFiniteSet(rest) /\ Cardinality(rest) <= n - h - 1
  <2> DEFINE k == n - h - 1
  <2>1. [j \in 1 .. k |-> c[h + 1 + j]] \in Surjection(1 .. k, rest)
    BY DEF Surjection
  <2>2. IsFiniteSet(1 .. k) /\ Cardinality(1 .. k) = k
    BY <1>1, UpToFinite
  <2> QED BY <2>1, <2>2, FS_Surjection
<1>9. Cardinality(below) <= h
  <2>1. Cardinality(below) <= Cardinality(first) /\ IsFiniteSet(below)
    BY <1>5, <1>7, FS_Subset
  <2>2. Cardinality(below) \in Nat /\ Cardinality(first) \in Nat
    BY <1>7, <2>1, FS_CardinalityType
  <2> HIDE DEF below, first
  <2> QED BY <1>1, <1>7, <2>1, <2>2
<1>10. Cardinality(upTo) > h
  <2>1. Cardinality(above) <= Cardinality(rest) /\ IsFiniteSet(above)
    BY <1>6, <1>8, FS_Subset
  <2>2. upTo = (1 .. n) \ above /\ (1 .. n) \cap above = above
    <3> HIDE DEF m
    <3>1. \A i \in 1 .. n : v[i] <= m <=> ~(m < v[i])
      BY <1>3
    <3> QED BY <3>1
  <2>3. IsFiniteSet(1 .. n) /\ Cardinality(1 .. n) = n
    BY UpToFinite
  <2>4. Cardinality(upTo) = n - Cardinality(above)
    <3> HIDE DEF upTo, above
    <3>1. Cardinality((1 .. n) \ above) = Cardinality(1 .. n) - Cardinality((1 .. n) \cap above)
      BY <2>3, FS_Difference
    <3> QED BY <2>2, <2>3, <3>1
  <2>5. Cardinality(above) \in Nat /\ Cardinality(rest) \in Nat
    BY <1>8, <2>1, FS_CardinalityType
  <2> HIDE DEF upTo, above, rest
  <2> QED BY <1>1, <1>8, <2>1, <2>4, <2>5
<1>11. v \in Seq(Int) /\ Len(v) = n /\ DOMAIN v = 1 .. n
  OBVIOUS
<1> QED
  <2>1. IsMedian(m, v) <=> /\ Cardinality(below) <= n \div 2
                           /\ Cardinality(upTo) > n \div 2
    BY <1>11 DEF IsMedian
  <2> QED BY <1>9, <1>10, <2>1 DEF h

\* The median of a sequence is one of its values, and one of any permutation
LEMMA MedianFacts ==
  ASSUME NEW n \in Nat \ {0}, NEW r \in [1 .. n -> Int], NEW v \in [1 .. n -> Int],
         NEW b \in Injection(1 .. n, 1 .. n), \A i \in 1 .. n : v[i] = r[b[i]]
  PROVE  Median(r) \in Int /\ IsMedian(Median(r), v)
<1>1. DOMAIN r = 1 .. n /\ Len(r) = n /\ DOMAIN v = 1 .. n
  OBVIOUS
<1>b. /\ b \in [1 .. n -> 1 .. n]
      /\ \A i, j \in 1 .. n : b[i] = b[j] => i = j
      /\ \A w \in 1 .. n : \E i \in 1 .. n : b[i] = w
  <2>1. b \in Surjection(1 .. n, 1 .. n)
    BY UpToFinite, FS_Injection
  <2> QED BY <2>1 DEF Injection, IsInjective, Surjection
<1> DEFINE p == SortingOrder(r)
           h == n \div 2
<1>2. p \in Bijection(1 .. n, 1 .. n) /\ Sorts(p, r)
  <2>1. \E q \in Bijection(1 .. n, 1 .. n) : Sorts(q, r)
    BY AllSortable DEF Sortable
  <2> QED BY <1>1, <2>1 DEF SortingOrder
<1>3. /\ p \in [1 .. n -> 1 .. n]
      /\ \A w \in 1 .. n : \E j \in 1 .. n : p[j] = w
  BY <1>2 DEF Bijection, Surjection
<1>4. Median(r) = r[p[h + 1]] /\ h + 1 \in 1 .. n
  <2>1. h \in 0 .. n - 1
    BY HalfFacts
  <2> HIDE DEF h
  <2>2. h + 1 \in 1 .. n
    BY <2>1
  <2> QED BY <1>1, <2>2 DEF Median, h
<1> DEFINE c == [j \in 1 .. n |-> CHOOSE i \in 1 .. n : b[i] = p[j]]
<1> HIDE DEF p, h
<1>5. ASSUME NEW j \in 1 .. n PROVE c[j] \in 1 .. n /\ b[c[j]] = p[j]
  <2>1. \E i \in 1 .. n : b[i] = p[j]
    BY <1>3, <1>b
  <2> QED BY <2>1
<1>7. c \in Surjection(1 .. n, 1 .. n)
  <2>0. c \in [1 .. n -> 1 .. n]
    BY <1>5
  <2> SUFFICES \A w \in 1 .. n : \E j \in 1 .. n : c[j] = w
    BY <2>0 DEF Surjection
  <2> SUFFICES ASSUME NEW w \in 1 .. n PROVE \E j \in 1 .. n : c[j] = w
    OBVIOUS
  <2>1. PICK j \in 1 .. n : p[j] = b[w]
    BY <1>3, <1>b
  <2>2. c[j] \in 1 .. n /\ b[c[j]] = b[w]
    BY <1>5, <2>1
  <2> HIDE DEF c
  <2> QED BY <1>b, <2>2
<1>8. \A j \in 1 .. n : v[c[j]] = r[p[j]]
  <2> HIDE DEF c
  <2> QED BY <1>5
<1> HIDE DEF c
<1>9. Sorts(c, v)
  BY <1>1, <1>2, <1>8 DEF Sorts
<1>10. IsMedian(v[c[h + 1]], v)
  BY <1>7, <1>9, MiddleIsMedian DEF h
<1>11. v[c[h + 1]] = Median(r) /\ r[p[h + 1]] \in Int
  BY <1>3, <1>4, <1>8
<1> QED BY <1>4, <1>10, <1>11

-----------------------------------------------------------------------------
(* The ring.                                                               *)

\* Where a ring keeps its i-th oldest reading: a full one starts at the slot
\* that is written next
Slot(w, n, at, i) ==
    IF n < w THEN i ELSE IF at - 1 + i <= w THEN at - 1 + i ELSE at - 1 + i - w

\* The ring of w slots holds the n readings of the window, each once
RingHolds(w, n, at, ring, recent) ==
    /\ n \in 0 .. w /\ at \in 1 .. w /\ (n < w => at = n + 1)
    /\ ring \in [1 .. w -> Int] /\ recent \in Seq(Int) /\ Len(recent) = n
    /\ \A i \in 1 .. n : recent[i] = ring[Slot(w, n, at, i)]

RingOK(proc) ==
    /\ DOMAIN proc = {"window", "ring", "count", "at", "recent"}
    /\ proc.window \in Windows
    /\ RingHolds(proc.window, proc.count, proc.at, proc.ring, proc.recent)

LEMMA WindowFacts ==
  ASSUME NEW w \in Windows, NEW at \in 1 .. w
  PROVE  w \in Nat \ {0} /\ (at % w) + 1 = (IF at = w THEN 1 ELSE at + 1)
<1>1. w \in {1, 3, 5, 7}
  BY DEF Windows
<1>2. CASE w = 1
  BY <1>2
<1>3. CASE w = 3
  BY <1>3
<1>4. CASE w = 5
  BY <1>4
<1>5. CASE w = 7
  BY <1>5
<1> QED BY <1>1, <1>2, <1>3, <1>4, <1>5

\* The slots of the readings are different ones
LEMMA SlotFacts ==
  ASSUME NEW w \in Nat \ {0}, NEW n \in 1 .. w, NEW at \in 1 .. w
  PROVE  /\ \A i \in 1 .. n : Slot(w, n, at, i) \in 1 .. n
         /\ \A i, j \in 1 .. n : Slot(w, n, at, i) = Slot(w, n, at, j) => i = j
<1>1. ASSUME NEW i \in 1 .. n PROVE Slot(w, n, at, i) \in 1 .. n
  BY DEF Slot
<1>2. ASSUME NEW i \in 1 .. n, NEW j \in 1 .. n, Slot(w, n, at, i) = Slot(w, n, at, j)
      PROVE  i = j
  BY <1>2 DEF Slot
<1> QED BY <1>1, <1>2

\* When a full ring takes a reading, each of the others is one older
LEMMA SlotMoves ==
  ASSUME NEW w \in Nat \ {0}, NEW at \in 1 .. w, NEW to,
         to = (IF at = w THEN 1 ELSE at + 1)
  PROVE  /\ Slot(w, w, to, w) = at
         /\ \A i \in 1 .. w - 1 : /\ Slot(w, w, to, i) = Slot(w, w, at, i + 1)
                                  /\ Slot(w, w, to, i) \in 1 .. w
                                  /\ Slot(w, w, to, i) # at
<1>1. CASE at = w
  BY <1>1 DEF Slot
<1>2. CASE at # w
  BY <1>2 DEF Slot
<1> QED BY <1>1, <1>2

LEMMA FilterFacts ==
  ASSUME NEW window \in Windows
  PROVE  RingOK(Filter(window))
<1> DEFINE f == Filter(window)
<1>1. window \in Nat \ {0}
  BY DEF Windows
<1>2. /\ DOMAIN f = {"window", "ring", "count", "at", "recent"}
      /\ f.window = window /\ f.count = 0 /\ f.at = 1 /\ f.recent = <<>>
      /\ f.ring = [i \in 1 .. window |-> 0]
  BY DEF Filter
<1> HIDE DEF f
<1>3. f.ring \in [1 .. window -> Int]
  BY <1>2
<1>4. f.recent \in Seq(Int) /\ Len(f.recent) = 0
  BY <1>2
<1>5. RingOK(f)
  BY <1>1, <1>2, <1>3, <1>4 DEF RingOK, RingHolds
<1> QED BY <1>5 DEF f

\* A ring takes a reading, in the parts of its record
LEMMA RingTakes ==
  ASSUME NEW w \in Nat \ {0}, NEW n, NEW at, NEW ring, NEW old,
         RingHolds(w, n, at, ring, old), NEW mm \in Int
  PROVE  LET m == IF n < w THEN n + 1 ELSE n
         IN  /\ m > 0
             /\ RingHolds(w, m, IF at = w THEN 1 ELSE at + 1, [ring EXCEPT ![at] = mm],
                          IF n < w THEN Append(old, mm) ELSE Append(Tail(old), mm))
<1> SUFFICES ASSUME NEW m, m = (IF n < w THEN n + 1 ELSE n),
                    NEW to, to = (IF at = w THEN 1 ELSE at + 1),
                    NEW slots, slots = [ring EXCEPT ![at] = mm],
                    NEW recent,
                    recent = (IF n < w THEN Append(old, mm) ELSE Append(Tail(old), mm))
             PROVE  m > 0 /\ RingHolds(w, m, to, slots, recent)
  OBVIOUS
<1>0. /\ n \in 0 .. w /\ at \in 1 .. w /\ (n < w => at = n + 1)
      /\ ring \in [1 .. w -> Int] /\ old \in Seq(Int) /\ Len(old) = n
      /\ \A i \in 1 .. n : old[i] = ring[Slot(w, n, at, i)]
  BY DEF RingHolds
<1>1. /\ slots \in [1 .. w -> Int] /\ slots[at] = mm
      /\ \A i \in 1 .. w : i # at => slots[i] = ring[i]
  BY <1>0
<1>2. m \in 1 .. w /\ to \in 1 .. w /\ (m < w => to = m + 1)
  BY <1>0
<1>3. CASE n < w
  <2>1. recent = Append(old, mm) /\ m = n + 1 /\ at = n + 1
    BY <1>0, <1>3
  <2>2. /\ recent \in Seq(Int) /\ Len(recent) = n + 1 /\ recent[n + 1] = mm
        /\ \A i \in 1 .. n : recent[i] = old[i]
    BY <1>0, <2>1
  <2>3. ASSUME NEW i \in 1 .. m PROVE recent[i] = slots[Slot(w, m, to, i)]
    <3>1. Slot(w, m, to, i) = i
      BY <1>0, <1>3, <2>1 DEF Slot
    <3>2. CASE i = n + 1
      BY <1>1, <2>1, <2>2, <3>1, <3>2
    <3>3. CASE i \in 1 .. n
      <4>1. Slot(w, n, at, i) = i
        BY <1>3 DEF Slot
      <4>2. old[i] = ring[i]
        BY <1>0, <3>3, <4>1
      <4>3. slots[i] = ring[i]
        BY <1>0, <1>1, <2>1, <3>3
      <4> QED BY <2>2, <3>1, <3>3, <4>2, <4>3
    <3> QED BY <1>0, <2>1, <3>2, <3>3
  <2> QED BY <1>0, <1>1, <1>2, <2>1, <2>2, <2>3 DEF RingHolds
<1>4. CASE n = w
  <2>0. /\ Slot(w, w, to, w) = at
        /\ \A i \in 1 .. w - 1 : /\ Slot(w, w, to, i) = Slot(w, w, at, i + 1)
                                 /\ Slot(w, w, to, i) \in 1 .. w
                                 /\ Slot(w, w, to, i) # at
    BY <1>0, SlotMoves
  <2>1. recent = Append(Tail(old), mm) /\ m = w
    BY <1>0, <1>4
  <2>2. /\ Tail(old) \in Seq(Int) /\ Len(Tail(old)) = w - 1
        /\ \A i \in 1 .. w - 1 : Tail(old)[i] = old[i + 1]
    BY <1>0, <1>4
  <2>3. /\ recent \in Seq(Int) /\ Len(recent) = w /\ recent[w] = mm
        /\ \A i \in 1 .. w - 1 : recent[i] = Tail(old)[i]
    BY <2>1, <2>2
  <2>4. ASSUME NEW i \in 1 .. m PROVE recent[i] = slots[Slot(w, m, to, i)]
    <3>1. CASE i = w
      BY <1>0, <1>1, <2>0, <2>1, <2>3, <3>1
    <3>2. CASE i \in 1 .. w - 1
      <4>1. /\ Slot(w, w, to, i) = Slot(w, w, at, i + 1)
            /\ Slot(w, w, to, i) \in 1 .. w /\ Slot(w, w, to, i) # at
        BY <2>0, <3>2
      <4>2. old[i + 1] = ring[Slot(w, n, at, i + 1)]
        BY <1>0, <1>4, <3>2
      <4>3. recent[i] = old[i + 1]
        BY <2>2, <2>3, <3>2
      <4> QED BY <1>1, <1>4, <2>1, <4>1, <4>2, <4>3
    <3>3. i = w \/ i \in 1 .. w - 1
      BY <2>1
    <3> QED BY <3>1, <3>2, <3>3
  <2>5. m > 0 /\ m \in 0 .. w
    BY <2>1
  <2> QED BY <1>1, <1>2, <2>1, <2>3, <2>4, <2>5 DEF RingHolds
<1>5. n < w \/ n = w
  BY <1>0
<1> QED BY <1>3, <1>4, <1>5

\* A reading takes the slot of the oldest one, or the first one not yet used
LEMMA FilteredFacts ==
  ASSUME NEW proc, RingOK(proc), NEW mm \in Int
  PROVE  RingOK(Filtered(proc, mm)) /\ Filtered(proc, mm).count > 0
<1> DEFINE next == Filtered(proc, mm)
<1>1. /\ proc.window \in Windows /\ proc.window \in Nat \ {0} /\ proc.at \in 1 .. proc.window
      /\ (proc.at % proc.window) + 1 = (IF proc.at = proc.window THEN 1 ELSE proc.at + 1)
      /\ Len(proc.recent) = proc.count
  BY WindowFacts DEF RingOK, RingHolds
<1>2. DOMAIN proc = {"window", "ring", "count", "at", "recent"}
  BY DEF RingOK
<1>3. /\ DOMAIN next = DOMAIN proc /\ next.window = proc.window
      /\ next.ring = [proc.ring EXCEPT ![proc.at] = mm]
      /\ next.at = (proc.at % proc.window) + 1
      /\ next.count = (IF proc.count < proc.window THEN proc.count + 1 ELSE proc.count)
      /\ next.recent = (IF Len(proc.recent) < proc.window THEN Append(proc.recent, mm)
                        ELSE Append(Tail(proc.recent), mm))
  BY <1>2 DEF Filtered
<1> HIDE DEF next
<1>4. next.count > 0
      /\ RingHolds(proc.window, next.count, next.at, next.ring, next.recent)
  BY <1>1, <1>3, RingTakes DEF RingOK
<1>5. RingOK(next)
  BY <1>1, <1>2, <1>3, <1>4 DEF RingOK
<1> QED BY <1>4, <1>5 DEF next

\* What is published is a median of the readings of the window
LEMMA RingMedian ==
  ASSUME NEW proc, RingOK(proc), proc.count > 0
  PROVE  /\ Median(RingValues(proc)) \in Int
         /\ IsMedian(Median(RingValues(proc)), proc.recent)
<1> DEFINE r == RingValues(proc)
           b == [i \in 1 .. proc.count |-> Slot(proc.window, proc.count, proc.at, i)]
<1>1. /\ proc.window \in Nat \ {0} /\ proc.count \in 1 .. proc.window
      /\ proc.count \in Nat \ {0} /\ proc.at \in 1 .. proc.window
      /\ proc.ring \in [1 .. proc.window -> Int]
      /\ proc.recent \in Seq(Int) /\ Len(proc.recent) = proc.count
  BY DEF RingOK, RingHolds, Windows
<1> HIDE DEF b
<1>2. r \in [1 .. proc.count -> Int] /\ \A i \in 1 .. proc.count : r[i] = proc.ring[i]
  <2>1. \A i \in 1 .. proc.count : proc.ring[i] \in Int
    BY <1>1
  <2>2. /\ r \in Seq(Int) /\ Len(r) = proc.count
        /\ \A i \in 1 .. proc.count : r[i] = proc.ring[i]
    BY <1>1, <2>1, SubSeqProperties DEF RingValues
  <2> HIDE DEF r
  <2> QED BY <2>2
<1>3. proc.recent \in [1 .. proc.count -> Int]
  BY <1>1
<1>4. /\ \A i \in 1 .. proc.count : b[i] \in 1 .. proc.count
      /\ \A i, j \in 1 .. proc.count : b[i] = b[j] => i = j
  BY <1>1, SlotFacts DEF b
<1>4a. b = [i \in 1 .. proc.count |-> b[i]]
  BY DEF b
<1>5. b \in Injection(1 .. proc.count, 1 .. proc.count)
  BY <1>4, <1>4a DEF Injection, IsInjective
<1>6. \A i \in 1 .. proc.count : proc.recent[i] = proc.ring[b[i]]
  BY DEF RingOK, RingHolds, b
<1> HIDE DEF r
<1>7. \A i \in 1 .. proc.count : proc.recent[i] = r[b[i]]
  BY <1>2, <1>4, <1>6
<1>8. Median(r) \in Int /\ IsMedian(Median(r), proc.recent)
  BY <1>1, <1>2, <1>3, <1>5, <1>7, MedianFacts
<1> QED BY <1>8 DEF r
-----------------------------------------------------------------------------
(* The board.                                                              *)

DistanceFields == {"period", "max", "window", "name"}
DistanceCfgOK(cfg) == DOMAIN cfg = DistanceFields /\ DistanceCfgIsValid(cfg)
Limits == DS_SENSOR_MIN_DISTANCE_MM .. DS_SENSOR_MAX_DISTANCE_MM

DistanceAppOK == /\ DOMAIN app = {"cfg", "loaded", "result"}
                 /\ DistanceCfgOK(app.cfg) /\ app.loaded \in BOOLEAN

DistanceDevOK == /\ DOMAIN dev = {"max", "holder"} /\ dev.max \in Limits
                 /\ dev.holder \in {"none", "comm", "task"}

DistanceTaskOK == /\ DOMAIN task = {"pc", "cfg", "applied", "sample", "proc"}
                  /\ task.pc = "max" => DistanceCfgOK(task.cfg)
                  /\ task.sample.raw \in Int
                  /\ RingOK(task.proc)

\* While a command on the configuration is on its way, what it leaves is valid
DistanceCommOK == /\ {"pc", "f"} \subseteq DOMAIN comm
                  /\ comm.pc \in {"idle", "test", "save", "max", "cfg", "mark", "take", "echo"}
                  /\ comm.pc \in {"max", "cfg"} => DistanceCfgOK(NextCfg(comm.f))

DistanceFlashOK(n) == /\ DOMAIN n = {"cfg", "cal", "works"}
                      /\ n.cfg # NoBlob => DOMAIN n.cfg[1] = DistanceFields

\* From the publication to the next change of the window
PublishedOK == task.pc \in {"cfg", "max"} /\ app.result.filtered # -1 =>
                  IsMedian(app.result.filtered, task.proc.recent)

DistanceInv == /\ DistanceAppOK /\ DistanceDevOK /\ DistanceTaskOK /\ DistanceCommOK
               /\ DistanceFlashOK(nvs) /\ PublishedOK

LEMMA DistanceCfgFacts ==
  ASSUME NEW cfg, DistanceCfgOK(cfg)
  PROVE  cfg.max \in Limits /\ cfg.window \in Windows
BY DEF DistanceCfgOK, DistanceCfgIsValid, Limits

LEMMA DistanceDefaultsOK == DistanceCfgOK(DistanceDefaults)
BY DEF DistanceCfgOK, DistanceFields, DistanceDefaults, DistanceCfgIsValid, Windows,
       NoName, DS_SENSOR_MIN_DISTANCE_MM, DS_SENSOR_MAX_DISTANCE_MM

LEMMA DistanceSetFields ==
  ASSUME NEW cfg, DOMAIN cfg = DistanceFields, NEW v,
         NEW key \in {"SAMPLE_MS", "MAX_MM", "FILTER", "NAME"}
  PROVE  DOMAIN DistanceCfgWith(cfg, key, v) = DistanceFields
BY DEF DistanceCfgWith

LEMMA DistanceBootFacts ==
  ASSUME DistanceFlashOK(nvs), comm = Idle,
         app = DistanceBoot(nvs).app, dev = DistanceBoot(nvs).dev, task = DistanceBoot(nvs).task
  PROVE  DistanceInv
<1> DEFINE start == DistanceLoadCfg(nvs.cfg)
<1>1. DistanceCfgOK(start.cfg) /\ start.loaded \in BOOLEAN
  <2>1. CASE nvs.cfg # NoBlob /\ DistanceCfgIsValid(nvs.cfg[1])
    BY <2>1 DEF DistanceLoadCfg, DistanceFlashOK, DistanceCfgOK
  <2>2. CASE ~(nvs.cfg # NoBlob => ~DistanceCfgIsValid(nvs.cfg[1]))
    BY <2>1, <2>2
  <2>3. CASE nvs.cfg # NoBlob => ~DistanceCfgIsValid(nvs.cfg[1])
    BY <2>3, DistanceDefaultsOK DEF DistanceLoadCfg
  <2> QED BY <2>2, <2>3
<1>2. /\ app = [cfg |-> start.cfg, loaded |-> start.loaded, result |-> NoResult]
      /\ dev = [max |-> start.cfg.max, holder |-> "none"]
      /\ task = [pc |-> "cfg", cfg |-> NoBlob, applied |-> start.cfg.max, sample |-> NoResult,
                 proc |-> Filter(start.cfg.window)]
  BY DEF DistanceBoot
<1> HIDE DEF start
<1>3. RingOK(Filter(start.cfg.window)) /\ start.cfg.max \in Limits
  BY <1>1, FilterFacts, DistanceCfgFacts
<1>4. DistanceAppOK /\ DistanceDevOK
  BY <1>1, <1>2, <1>3 DEF DistanceAppOK, DistanceDevOK
<1>5. DistanceTaskOK /\ PublishedOK
  BY <1>2, <1>3 DEF DistanceTaskOK, PublishedOK, NoResult
<1>6. DistanceCommOK
  BY DEF DistanceCommOK, Idle
<1> QED BY <1>4, <1>5, <1>6 DEF DistanceInv

\* A step of the serial task that leaves the sampling task alone, and of the
\* shared state the result
LEMMA DistanceRest ==
  ASSUME DistanceInv, UNCHANGED task, app'.result = app.result
  PROVE  DistanceTaskOK' /\ PublishedOK'
BY DEF DistanceInv, DistanceTaskOK, PublishedOK

LEMMA DistanceIdle ==
  ASSUME comm' = Idle
  PROVE  DistanceCommOK'
BY DEF Idle, DistanceCommOK

\* A step that leaves the configuration and the frame in hand alone
LEMMA DistanceHolds ==
  ASSUME DistanceInv, UNCHANGED comm, app'.cfg = app.cfg
  PROVE  DistanceCommOK'
<1>1. NextCfg(comm.f)' = NextCfg(comm.f)
  BY DEF NextCfg
<1> QED BY <1>1 DEF DistanceInv, DistanceCommOK

LEMMA DistanceSameInv ==
  ASSUME DistanceInv, UNCHANGED <<app, dev, task, nvs>>, comm' \in {comm, Idle}
  PROVE  DistanceInv'
<1>1. DistanceCommOK'
  BY DistanceIdle, DistanceHolds
<1>2. DistanceAppOK' /\ DistanceDevOK' /\ DistanceFlashOK(nvs)'
  BY DEF DistanceInv, DistanceAppOK, DistanceDevOK, DistanceFlashOK
<1> QED BY <1>1, <1>2, DistanceRest DEF DistanceInv

LEMMA DistanceCommandInv ==
  ASSUME DistanceInv, On("distance"), session \in DOMAIN Sessions,
         NEW f \in This.frames, DistanceCommand(f)
  PROVE  DistanceInv'
<1>0. UNCHANGED <<app, dev, nvs, task>>
  BY DEF DistanceCommand, Begins, Executes
<1>1. DistanceAppOK' /\ DistanceDevOK' /\ DistanceFlashOK(nvs)'
  BY <1>0 DEF DistanceInv, DistanceAppOK, DistanceDevOK, DistanceFlashOK
<1>2. DistanceCommOK'
  <2>1. CASE UNCHANGED comm
    BY <1>0, <2>1, DistanceHolds
  <2>2. CASE comm' = [pc |-> "test", f |-> f] \/ comm' = [pc |-> "save", f |-> f]
    BY <2>2 DEF DistanceCommOK
  <2>3. CASE comm' = [pc |-> "max", f |-> f] /\ DistanceCfgOK(NextCfg(f))
    <3>1. NextCfg(comm.f)' = NextCfg(f)
      BY <1>0, <2>3 DEF NextCfg
    <3> QED BY <2>3, <3>1 DEF DistanceCommOK
  <2>4. ASSUME IsCommand(f, "RESET CFG") PROVE DistanceCfgOK(NextCfg(f))
    BY <2>4, DistanceDefaultsOK DEF NextCfg
  <2>5. ASSUME IsCommand(f, "SET CFG"),
               DistanceCfgIsValid(DistanceCfgWith(app.cfg, f.c[2][1], f.c[2][2]))
        PROVE  DistanceCfgOK(NextCfg(f))
    <3>1. f.c[2][1] \in {"SAMPLE_MS", "MAX_MM", "FILTER", "NAME"}
      BY <2>5, DistanceSessions DEF IsCommand, On, This
    <3>2. DOMAIN DistanceCfgWith(app.cfg, f.c[2][1], f.c[2][2]) = DistanceFields
      BY <3>1, DistanceSetFields DEF DistanceInv, DistanceAppOK, DistanceCfgOK
    <3>3. NextCfg(f) = DistanceCfgWith(app.cfg, f.c[2][1], f.c[2][2])
      BY <2>5 DEF NextCfg, IsCommand
    <3> QED BY <2>5, <3>2, <3>3 DEF DistanceCfgOK
  <2> QED BY <2>1, <2>2, <2>3, <2>4, <2>5 DEF DistanceCommand, Executes, Begins
<1> QED BY <1>0, <1>1, <1>2, DistanceRest DEF DistanceInv

\* The driver keeps its limit in the range, whoever sets it
LEMMA DistanceDevFacts ==
  ASSUME DistanceDevOK,
         \/ \E mm \in Limits : SetMax(mm)
         \/ TakeTimesOut \/ Give \/ UNCHANGED dev
         \/ \E who \in {"comm", "task"} : Take(who)
  PROVE  DistanceDevOK'
BY DEF DistanceDevOK, SetMax, TakeTimesOut, Take, Give

LEMMA DistanceCommInv ==
  ASSUME DistanceInv, On("distance"), session \in DOMAIN Sessions, DistanceComm
  PROVE  DistanceInv'
<1>0. DistanceAppOK /\ DistanceDevOK /\ DistanceCommOK /\ DistanceFlashOK(nvs)
  BY DEF DistanceInv
<1>1. CASE \E f \in This.frames :
             Hears(f) /\ IF f.type = "HOST" THEN DistanceControlFrame(f) ELSE DistanceStreamFrame(f)
  <2>1. PICK f \in This.frames :
             Hears(f) /\ IF f.type = "HOST" THEN DistanceControlFrame(f) ELSE DistanceStreamFrame(f)
    BY <1>1
  <2>2. CASE DistanceCommand(f)
    BY <2>2, DistanceCommandInv
  <2>3. CASE DistanceControlFrame(f)
    BY <2>3, DistanceSameInv DEF DistanceControlFrame, HostFrame, Replies
  <2>4. CASE OtherFrame(f, "ERR")
    BY <2>4, DistanceSameInv DEF OtherFrame, Unknown, Replies, TelemetryFrame
  <2> QED BY <2>1, <2>2, <2>3, <2>4 DEF DistanceStreamFrame
<1>2. CASE CommMax
  <2>1. UNCHANGED <<app, task, nvs>> /\ NextCfg(comm.f).max \in Limits
    BY <1>0, <1>2, DistanceCfgFacts DEF CommMax, DistanceCommOK
  <2>2. DistanceDevOK'
    BY <1>0, <1>2, <2>1, DistanceDevFacts DEF CommMax
  <2>3. DistanceCommOK'
    <3>1. CASE comm' = Idle
      BY <3>1, DistanceIdle
    <3>2. CASE comm' = [comm EXCEPT !.pc = "cfg"]
      <4>1. comm'.pc = "cfg" /\ comm'.f = comm.f /\ DOMAIN comm' = DOMAIN comm
        BY <1>0, <3>2 DEF DistanceCommOK
      <4>2. NextCfg(comm.f)' = NextCfg(comm.f)
        BY <2>1, <4>1 DEF NextCfg
      <4>3. comm.pc = "max"
        BY <1>2 DEF CommMax
      <4> QED BY <1>0, <4>1, <4>2, <4>3 DEF DistanceCommOK
    <3> QED BY <1>2, <3>1, <3>2 DEF CommMax, Ends
  <2>4. DistanceAppOK' /\ DistanceFlashOK(nvs)'
    BY <1>0, <2>1 DEF DistanceAppOK, DistanceFlashOK
  <2> QED BY <2>1, <2>2, <2>3, <2>4, DistanceRest DEF DistanceInv
<1>3. CASE CommCfg
  <2>1. /\ UNCHANGED <<dev, nvs, task>> /\ comm' = Idle /\ DistanceCfgOK(NextCfg(comm.f))
        /\ app' = [app EXCEPT !.cfg = NextCfg(comm.f),
                              !.loaded = @ /\ ~IsCommand(comm.f, "RESET CFG")]
    BY <1>0, <1>3 DEF CommCfg, Ends, DistanceCommOK
  <2>2. /\ DOMAIN app' = DOMAIN app /\ app'.result = app.result /\ app'.cfg = NextCfg(comm.f)
        /\ app'.loaded = (app.loaded /\ ~IsCommand(comm.f, "RESET CFG"))
    BY <1>0, <2>1 DEF DistanceAppOK
  <2>3. DistanceAppOK' /\ DistanceDevOK' /\ DistanceFlashOK(nvs)'
    BY <1>0, <2>1, <2>2 DEF DistanceAppOK, DistanceDevOK, DistanceFlashOK
  <2> QED BY <2>1, <2>2, <2>3, DistanceIdle, DistanceRest DEF DistanceInv
<1>4. CASE CommStore
  <2>1. CASE comm.pc = "save" /\ UNCHANGED app
    <3>1. UNCHANGED <<app, dev, task>>
      BY <1>4, <2>1 DEF CommStore
    <3>2. PICK saved \in BOOLEAN :
               /\ CommitFits("cfg", app.cfg, saved)
               /\ comm' = [comm EXCEPT !.pc = "mark"] \/ comm' = Idle
      BY <1>4, <2>1 DEF CommStore, Ends
    <3>3. DistanceFlashOK(nvs)'
      BY <1>0, <3>2 DEF DistanceFlashOK, DistanceAppOK, DistanceCfgOK, CommitFits, NoBlob
    <3>4. DistanceCommOK'
      <4>1. CASE comm' = [comm EXCEPT !.pc = "mark"]
        BY <1>0, <4>1 DEF DistanceCommOK
      <4> QED BY <3>2, <4>1, DistanceIdle
    <3>5. DistanceAppOK' /\ DistanceDevOK'
      BY <1>0, <3>1 DEF DistanceAppOK, DistanceDevOK
    <3> QED BY <3>1, <3>3, <3>4, <3>5, DistanceRest DEF DistanceInv
  <2>2. CASE comm.pc = "mark"
    <3>1. /\ UNCHANGED <<dev, task, nvs>> /\ comm' = Idle /\ app' = [app EXCEPT !.loaded = TRUE]
      BY <1>4, <2>2 DEF CommStore, Ends
    <3>2. DistanceAppOK' /\ app'.result = app.result
      BY <1>0, <3>1 DEF DistanceAppOK
    <3>3. DistanceDevOK' /\ DistanceFlashOK(nvs)'
      BY <1>0, <3>1 DEF DistanceDevOK, DistanceFlashOK
    <3> QED BY <3>1, <3>2, <3>3, DistanceIdle, DistanceRest DEF DistanceInv
  <2> QED BY <1>4, <2>1, <2>2 DEF CommStore
<1>5. CASE CommSelftest
  <2>1. UNCHANGED <<app, nvs, task>>
    BY <1>5 DEF CommSelftest
  <2>2. app.cfg.max \in Limits
    BY <1>0, DistanceCfgFacts DEF DistanceAppOK
  <2>3. DistanceDevOK'
    BY <1>0, <1>5, <2>2, DistanceDevFacts DEF CommSelftest
  <2>4. DistanceCommOK'
    <3>1. comm' \in {Idle, [comm EXCEPT !.pc = "take"], [comm EXCEPT !.pc = "echo"]}
      BY <1>5 DEF CommSelftest, Ends
    <3>2. CASE comm' = [comm EXCEPT !.pc = "take"] \/ comm' = [comm EXCEPT !.pc = "echo"]
      BY <1>0, <3>2 DEF DistanceCommOK
    <3> QED BY <3>1, <3>2, DistanceIdle
  <2>5. DistanceAppOK' /\ DistanceFlashOK(nvs)'
    BY <1>0, <2>1 DEF DistanceAppOK, DistanceFlashOK
  <2> QED BY <2>1, <2>3, <2>4, <2>5, DistanceRest DEF DistanceInv
<1>6. CASE DistanceTelemetry \/ DistanceLinkTimeout
  BY <1>6, DistanceSameInv DEF DistanceTelemetry, SendsTelemetry, DistanceLinkTimeout
<1> QED BY <1>1, <1>2, <1>3, <1>4, <1>5, <1>6 DEF DistanceComm

LEMMA DistanceTaskInv ==
  ASSUME DistanceInv, On("distance"), session \in DOMAIN Sessions, DistanceTask
  PROVE  DistanceInv'
<1>0. /\ DistanceAppOK /\ DistanceDevOK /\ DistanceTaskOK /\ DistanceFlashOK(nvs) /\ PublishedOK
      /\ UNCHANGED <<comm, nvs>>
  BY DEF DistanceInv, DistanceTask, DistanceSnapshot, DistanceApply, DistanceMeasure,
         DistancePublish
<1>1. DistanceFlashOK(nvs)'
  BY <1>0 DEF DistanceFlashOK
<1>2. CASE DistanceSnapshot
  <2>1. /\ UNCHANGED <<app, dev>> /\ task.pc = "cfg"
        /\ task' = [task EXCEPT !.pc = "max", !.cfg = app.cfg]
    BY <1>2 DEF DistanceSnapshot
  <2>2. /\ DOMAIN task' = DOMAIN task /\ task'.cfg = app.cfg /\ task'.sample = task.sample
        /\ task'.proc = task.proc
    BY <1>0, <2>1 DEF DistanceTaskOK
  <2>3. DistanceTaskOK' /\ PublishedOK'
    BY <1>0, <2>1, <2>2 DEF DistanceTaskOK, DistanceAppOK, PublishedOK
  <2>4. DistanceAppOK' /\ DistanceDevOK'
    BY <1>0, <2>1 DEF DistanceAppOK, DistanceDevOK
  <2> QED BY <1>0, <1>1, <2>1, <2>3, <2>4, DistanceHolds DEF DistanceInv
<1>3. CASE DistanceApply
  <2> DEFINE proc == SetFilterWindow(task.proc, task.cfg.window)
             next == [task EXCEPT !.pc = "take", !.proc = proc]
  <2>1. /\ UNCHANGED app /\ task.pc = "max"
        /\ task' \in {next, [next EXCEPT !.applied = task.cfg.max]}
        /\ UNCHANGED dev \/ SetMax(task.cfg.max)
    BY <1>3 DEF DistanceApply, TakeTimesOut
  <2>2. task.cfg.window \in Windows /\ task.cfg.max \in Limits
    BY <1>0, <2>1, DistanceCfgFacts DEF DistanceTaskOK
  <2>3. RingOK(proc)
    BY <1>0, <2>2, FilterFacts DEF SetFilterWindow, DistanceTaskOK
  <2> HIDE DEF proc
  <2>4. /\ DOMAIN task' = DOMAIN task /\ task'.pc = "take" /\ task'.proc = proc
        /\ task'.sample = task.sample
    BY <1>0, <2>1 DEF DistanceTaskOK
  <2>5. DistanceTaskOK' /\ PublishedOK'
    BY <1>0, <2>3, <2>4 DEF DistanceTaskOK, PublishedOK
  <2>6. DistanceAppOK' /\ DistanceDevOK'
    BY <1>0, <2>1, <2>2, DistanceDevFacts DEF DistanceAppOK
  <2> QED BY <1>0, <1>1, <2>1, <2>5, <2>6, DistanceHolds DEF DistanceInv
<1>4. CASE DistanceMeasure
  <2>1. UNCHANGED app
    BY <1>4 DEF DistanceMeasure
  <2>2. ASSUME NEW sample \in Samples PROVE sample.raw \in Int
    <3>1. CASE sample \in {Sampled(mm) : mm \in This.scene}
      <4>1. PICK mm \in This.scene : sample = Sampled(mm)
        BY <3>1
      <4>2. mm \in Int
        BY DistanceSessions DEF On, This
      <4> QED BY <4>1, <4>2 DEF Sampled
    <3>2. CASE sample \in [health : {"NO_ECHO", "ECHO_STUCK"}, raw : {-1}]
      BY <3>2
    <3> QED BY <3>1, <3>2 DEF Samples
  <2>3. \/ task' = [task EXCEPT !.pc = "echo"]
        \/ \E sample : /\ sample.raw \in Int
                       /\ task' = [task EXCEPT !.pc = "publish", !.sample = sample]
    <3>1. Stuck.raw \in Int
      BY DEF Stuck
    <3> QED BY <1>4, <2>2, <3>1 DEF DistanceMeasure
  <2>4. DistanceTaskOK' /\ PublishedOK'
    <3>1. CASE task' = [task EXCEPT !.pc = "echo"]
      BY <1>0, <3>1 DEF DistanceTaskOK, PublishedOK
    <3>2. CASE \E sample : /\ sample.raw \in Int
                           /\ task' = [task EXCEPT !.pc = "publish", !.sample = sample]
      BY <1>0, <3>2 DEF DistanceTaskOK, PublishedOK
    <3> QED BY <2>3, <3>1, <3>2
  <2>5. DistanceAppOK' /\ DistanceDevOK'
    BY <1>0, <1>4, <2>1, DistanceDevFacts DEF DistanceMeasure, DistanceAppOK
  <2> QED BY <1>0, <1>1, <2>1, <2>4, <2>5, DistanceHolds DEF DistanceInv
<1>5. CASE DistancePublish
  <2> DEFINE valid == task.sample.health = "VALID"
             proc == IF valid THEN Filtered(task.proc, task.sample.raw) ELSE task.proc
             m == IF valid THEN Median(RingValues(proc)) ELSE -1
  <2>1. /\ UNCHANGED dev
        /\ app' = [app EXCEPT !.result = [health |-> task.sample.health,
                                          raw |-> task.sample.raw, filtered |-> m]]
        /\ task' = [task EXCEPT !.pc = "cfg", !.cfg = NoBlob, !.sample = NoResult, !.proc = proc]
    BY <1>5 DEF DistancePublish
  <2>2. RingOK(proc) /\ (valid => IsMedian(m, proc.recent))
    <3>1. RingOK(task.proc) /\ task.sample.raw \in Int
      BY <1>0 DEF DistanceTaskOK
    <3>2. CASE valid
      BY <3>1, <3>2, FilteredFacts, RingMedian
    <3>3. CASE ~valid
      BY <3>1, <3>3
    <3> QED BY <3>2, <3>3
  <2>3. ~valid => m = -1
    OBVIOUS
  <2> HIDE DEF proc, m, valid
  <2>4. /\ DOMAIN app' = DOMAIN app /\ app'.cfg = app.cfg /\ app'.loaded = app.loaded
        /\ app'.result.filtered = m
    BY <1>0, <2>1 DEF DistanceAppOK
  <2>5. /\ DOMAIN task' = DOMAIN task /\ task'.pc = "cfg" /\ task'.proc = proc
        /\ task'.sample.raw = -1
    BY <1>0, <2>1 DEF DistanceTaskOK, NoResult
  <2>6. DistanceTaskOK' /\ PublishedOK'
    BY <1>0, <2>2, <2>3, <2>4, <2>5 DEF DistanceTaskOK, PublishedOK
  <2>7. DistanceAppOK' /\ DistanceDevOK'
    BY <1>0, <2>1, <2>4 DEF DistanceAppOK, DistanceDevOK
  <2> QED BY <1>0, <1>1, <2>4, <2>6, <2>7, DistanceHolds DEF DistanceInv
<1> QED BY <1>2, <1>3, <1>4, <1>5 DEF DistanceTask
=============================================================================
