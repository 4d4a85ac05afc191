---------------------------- MODULE MetricsLemmas ----------------------------
(***************************************************************************)
(* Facts about the operators of MetricsPipeline, for any arguments: sums   *)
(* of numbers and of fractions, the peak of a set of stays, the timeline   *)
(* that events are sorted to, and rows that meet end to start.  None is    *)
(* about a state.                                                          *)
(***************************************************************************)
EXTENDS MetricsPipeline, FiniteSetTheorems, SequenceTheorems, WellFoundedInduction,
        TLAPS

-----------------------------------------------------------------------------
(***************************************************************************)
(* Least and greatest elements, lists, and recursion along positions.      *)
(***************************************************************************)

\* A set of naturals has a least element.
LEMMA LeastNatural ==
    ASSUME NEW T \in SUBSET Nat, T # {}
    PROVE  \E n \in T : \A m \in T : n =< m
<1>1. PICK n \in T : \A m \in T : <<m, n>> \notin OpToRel(<, Nat)
  BY NatLessThanWellFounded, WFMin, Zenon
<1>2. ASSUME NEW m \in T PROVE n =< m
  <2>1. <<m, n>> \notin OpToRel(<, Nat)
    BY <1>1
  <2>2. m \in Nat /\ n \in Nat
    OBVIOUS
  <2>3. ~(m < n)
    BY <2>1, <2>2 DEF OpToRel
  <2> QED
    BY <2>2, <2>3
<1> QED
  BY <1>2

\* A set of integers that has a bound has a greatest element, or a least one.
LEMMA GreatestOf ==
    ASSUME NEW T \in SUBSET Int, T # {}, NEW c \in Int, \A x \in T : x =< c
    PROVE  Max(T) \in T /\ \A x \in T : x =< Max(T)
<1> DEFINE D == {c - x : x \in T}
<1>1. D \in SUBSET Nat /\ D # {}
  <2>1. \A x \in T : c - x \in Nat
    OBVIOUS
  <2> QED
    BY <2>1
<1>2. PICK d \in D : \A m \in D : d =< m
  <2> HIDE DEF D
  <2> QED
    BY <1>1, LeastNatural
<1>3. PICK y \in T : d = c - y
  OBVIOUS
<1>4. \A x \in T : y >= x
  <2> TAKE x \in T
  <2>1. c - x \in D
    OBVIOUS
  <2>2. d =< c - x /\ x \in Int /\ y \in Int
    BY <1>2, <2>1
  <2> QED
    BY <1>3, <2>2
<1>5. Max(T) \in T /\ \A x \in T : Max(T) >= x
  BY <1>4 DEF Max
<1> QED
  BY <1>5

LEMMA LeastOf ==
    ASSUME NEW T \in SUBSET Int, T # {}, NEW c \in Int, \A x \in T : c =< x
    PROVE  Min(T) \in T /\ \A x \in T : Min(T) =< x
<1> DEFINE D == {x - c : x \in T}
<1>1. D \in SUBSET Nat /\ D # {}
  OBVIOUS
<1>2. PICK d \in D : \A m \in D : d =< m
  <2> HIDE DEF D
  <2> QED
    BY <1>1, LeastNatural
<1>3. PICK y \in T : d = y - c
  OBVIOUS
<1>4. \A x \in T : y =< x
  <2> TAKE x \in T
  <2>1. x - c \in D
    OBVIOUS
  <2>2. d =< x - c /\ x \in Int /\ y \in Int
    BY <1>2, <2>1
  <2> QED
    BY <1>3, <2>2
<1> QED
  BY <1>4 DEF Min

\* A set that maps one to one into a finite set is finite and no larger.
LEMMA NoLarger ==
    ASSUME NEW S, NEW T, IsFiniteSet(T), NEW f \in [S -> T],
           \A x, y \in S : f[x] = f[y] => x = y
    PROVE  /\ IsFiniteSet(S) /\ Cardinality(S) \in Nat /\ Cardinality(T) \in Nat
           /\ Cardinality(S) =< Cardinality(T)
           /\ Cardinality(S) = Cardinality(T) => \A t \in T : \E x \in S : f[x] = t
<1>1. f \in Injection(S, T)
  BY DEF Injection, IsInjective
<1>2. /\ IsFiniteSet(S) /\ Cardinality(S) =< Cardinality(T)
      /\ Cardinality(S) = Cardinality(T) <=> f \in Surjection(S, T)
  BY <1>1, FS_Injection
<1>3. Cardinality(S) \in Nat /\ Cardinality(T) \in Nat
  BY <1>2, FS_CardinalityType
<1> QED
  BY <1>2, <1>3 DEF Surjection

\* The positions from 1 to n are finite, and n of them.
LEMMA Positions ==
    ASSUME NEW n \in Nat
    PROVE  IsFiniteSet(1 .. n) /\ Cardinality(1 .. n) = n
  BY FS_Interval

\* f is the run of a recursion over the positions from 1 to n: g says how it
\* goes on.
IsRun(f, V, base, g, n) ==
    /\ f \in [0 .. n -> V] /\ f[0] = base
    /\ \A i \in 1 .. n : f[i] = g[<<i, f[i - 1]>>]

LEMMA RecursionRuns ==
    ASSUME NEW V, NEW base \in V, NEW n \in Nat, NEW g \in [(1 .. n) \X V -> V]
    PROVE  \E f : IsRun(f, V, base, g, n)
<1> DEFINE Runs(f, m) == /\ f \in [0 .. m -> V] /\ f[0] = base
                         /\ \A i \in 1 .. m : f[i] = g[<<i, f[i - 1]>>]
           stuck == {m \in 0 .. n : ~ \E f : Runs(f, m)}
<1>1. ASSUME stuck # {} PROVE FALSE
  <2>1. PICK m \in stuck : \A k \in stuck : m =< k
    <3>1. stuck \in SUBSET Nat
      OBVIOUS
    <3> HIDE DEF stuck
    <3> QED
      BY <1>1, <3>1, LeastNatural
  <2>2. m \in 0 .. n /\ m \in Nat /\ ~ \E f : Runs(f, m)
    OBVIOUS
  <2>3. CASE m = 0
    <3>1. Runs([i \in 0 .. 0 |-> base], 0)
      OBVIOUS
    <3> QED
      BY <2>2, <2>3, <3>1
  <2>4. CASE m # 0
    <3>1. m - 1 \in 0 .. n /\ ~(m =< m - 1) /\ m \in 1 .. n
      BY <2>2, <2>4
    <3>2. PICK f : Runs(f, m - 1)
      BY <2>1, <3>1
    <3>3. m - 1 \in 0 .. m - 1 /\ f[m - 1] \in V
      BY <2>2, <3>1, <3>2
    <3>4. g[<<m, f[m - 1]>>] \in V
      BY <3>1, <3>3
    <3> DEFINE h == [k \in 0 .. m |-> IF k < m THEN f[k] ELSE g[<<m, f[m - 1]>>]]
    <3>5. \A k \in 0 .. m - 1 : h[k] = f[k] /\ f[k] \in V
      BY <2>2, <3>1, <3>2
    <3>6. h[m] = g[<<m, f[m - 1]>>]
      BY <2>2
    <3>7. h \in [0 .. m -> V]
      <4>1. \A k \in 0 .. m : k \in 0 .. m - 1 \/ k = m
        BY <2>2
      <4>2. \A k \in 0 .. m : h[k] \in V
        BY <3>4, <3>5, <3>6, <4>1
      <4> QED
        BY <4>2
    <3>8. h[0] = base
      BY <2>2, <3>1, <3>2, <3>5
    <3>9. ASSUME NEW i \in 1 .. m PROVE h[i] = g[<<i, h[i - 1]>>]
      <4>1. CASE i = m
        <5>1. m - 1 \in 0 .. m - 1
          BY <3>3
        <5>2. h[m - 1] = f[m - 1]
          BY <3>5, <5>1
        <5> HIDE DEF h
        <5> QED
          BY <3>6, <4>1, <5>2
      <4>2. CASE i # m
        <5>1. i \in 1 .. m - 1 /\ i \in 0 .. m - 1 /\ i - 1 \in 0 .. m - 1
          BY <2>2, <3>1, <4>2
        <5>2. f[i] = g[<<i, f[i - 1]>>] /\ h[i] = f[i] /\ h[i - 1] = f[i - 1]
          BY <3>2, <3>5, <5>1
        <5> HIDE DEF h
        <5> QED
          BY <5>2
      <4> QED
        BY <4>1, <4>2
    <3> HIDE DEF h
    <3>10. Runs(h, m)
      BY <3>7, <3>8, <3>9
    <3> QED
      BY <2>2, <3>10
  <2> QED
    BY <2>3, <2>4
<1>2. n \in 0 .. n
  OBVIOUS
<1> QED
  BY <1>1, <1>2 DEF IsRun

\* What holds at the start of a row of positions, and at each of them if it holds
\* at the one before, holds at all: bad is where it does not.
LEMMA NoneBad ==
    ASSUME NEW n \in Nat, NEW bad \in SUBSET (0 .. n), 0 \notin bad,
           \A i \in 1 .. n : i - 1 \notin bad => i \notin bad
    PROVE  bad = {}
<1> SUFFICES ASSUME bad # {} PROVE FALSE
  OBVIOUS
<1>1. bad \in SUBSET Nat
  OBVIOUS
<1>2. PICK m \in bad : \A k \in bad : m =< k
  BY <1>1, LeastNatural
<1>3. m \in 1 .. n /\ ~(m =< m - 1)
  OBVIOUS
<1> QED
  BY <1>2, <1>3

\* A sequence of things is one of more of them, and one of those that its
\* elements are of.
LEMMA SeqOfMore ==
    ASSUME NEW S, NEW T, S \subseteq T, NEW s \in Seq(S)
    PROVE  s \in Seq(T)
<1>1. Len(s) \in Nat /\ s \in [1 .. Len(s) -> S]
  BY LenProperties
<1>2. s \in [1 .. Len(s) -> T]
  BY <1>1
<1> QED
  BY <1>1, <1>2, IsASeq

\* f gives places values, all of V, no value twice.
Covers(f, n, V) == f \in [1 .. n -> V] /\ \A v \in V : \E i \in 1 .. n : f[i] = v

NeverTwice(f, n) == \A i, j \in 1 .. n : f[i] = f[j] => i = j

\* As many values as places are all different.
LEMMA AllDifferent ==
    ASSUME NEW n \in Nat, NEW V, NEW f, Covers(f, n, V), Cardinality(V) = n
    PROVE  IsFiniteSet(V) /\ NeverTwice(f, n)
<1>1. f \in Surjection(1 .. n, V)
  BY DEF Surjection, Covers
<1>2. IsFiniteSet(1 .. n) /\ Cardinality(1 .. n) = n
  BY Positions
<1>3. IsFiniteSet(V)
  BY <1>1, <1>2, FS_Surjection
<1>4. f \in Injection(1 .. n, V)
  BY <1>1, <1>2, <1>3, FS_SurjSameCardinalityImpliesInj
<1> QED
  BY <1>3, <1>4 DEF Injection, IsInjective, NeverTwice

\* each counts the stays of S through, each one once.
Lists(each, S, k) ==
    /\ k \in Nat /\ k = Cardinality(S) /\ each \in [1 .. k -> S]
    /\ \A i, j \in 1 .. k : each[i] = each[j] => i = j

LEMMA SetIsListed ==
    ASSUME NEW S, IsFiniteSet(S)
    PROVE  Lists(SetToSeq(S), S, Cardinality(S))
<1>1. PICK k \in Nat : k = Cardinality(S) /\ ExistsBijection(1 .. k, S)
  BY FS_CardinalityType
<1>2. PICK f \in [1 .. k -> S] : IsInjective(f)
  BY <1>1 DEF ExistsBijection, Bijection, Injection
<1>3. SetToSeq(S) \in [1 .. k -> S] /\ IsInjective(SetToSeq(S))
  BY <1>1, <1>2 DEF SetToSeq
<1>4. \A i, j \in 1 .. k : SetToSeq(S)[i] = SetToSeq(S)[j] => i = j
  BY <1>3 DEF IsInjective
<1> QED
  BY <1>1, <1>3, <1>4 DEF Lists

-----------------------------------------------------------------------------
(***************************************************************************)
(* Sums.                                                                   *)
(***************************************************************************)

\* The turns of the recursion of Total.
TotalTurn(s, f, i) == IF i = 0 THEN 0 ELSE f[i - 1] + s[i]

\* f holds the sums of the first terms of s: f[i] that of the first i.
Sums(f, s, n) ==
    /\ f \in [0 .. n -> Int] /\ f[0] = 0
    /\ \A i \in 1 .. n : f[i] = f[i - 1] + s[i]

LEMMA TotalIsLastSum ==
    ASSUME NEW n \in Nat, NEW s \in [1 .. n -> Int]
    PROVE  \E f : Sums(f, s, n) /\ Total(s) = f[n]
<1>1. Len(s) = n /\ \A i \in 1 .. n : s[i] \in Int
  BY LenProperties
<1> DEFINE g == [x \in (1 .. n) \X Int |-> x[2] + s[x[1]]]
           IsSum(f) == f = [i \in 0 .. n |-> TotalTurn(s, f, i)]
<1>2. g \in [(1 .. n) \X Int -> Int]
  BY <1>1
<1>3. \E f : IsSum(f)
  <2> HIDE DEF g
  <2> HIDE DEF IsSum
  <2>1. PICK f : IsRun(f, Int, 0, g, n)
    <3>1. 0 \in Int
      OBVIOUS
    <3> QED
      BY <1>2, <3>1, RecursionRuns
  <2>2. ASSUME NEW i \in 1 .. n PROVE f[i] = f[i - 1] + s[i]
    <3>1. <<i, f[i - 1]>> \in (1 .. n) \X Int
      BY <2>1 DEF IsRun
    <3> QED
      BY <2>1, <3>1 DEF g, IsRun
  <2>3. \A i \in 0 .. n : f[i] = TotalTurn(s, f, i)
    BY <2>1, <2>2 DEF TotalTurn, IsRun
  <2>4. f = [i \in 0 .. n |-> f[i]]
    BY <2>1 DEF IsRun
  <2>5. f = [i \in 0 .. n |-> TotalTurn(s, f, i)]
    BY <2>3, <2>4
  <2> QED
    BY <2>5 DEF IsSum
<1> DEFINE f == CHOOSE f : IsSum(f)
<1>4. IsSum(f)
  BY <1>3
<1>5. Total(s) = f[n]
  BY <1>1 DEF Total, TotalTurn
<1> HIDE DEF f
<1>6. \A i \in 0 .. n : f[i] = TotalTurn(s, f, i)
  BY <1>4
<1>7. f[0] = 0 /\ \A i \in 1 .. n : f[i] = f[i - 1] + s[i]
  BY <1>6 DEF TotalTurn
<1> DEFINE bad == {i \in 0 .. n : f[i] \notin Int}
<1>8. ASSUME NEW i \in 1 .. n, i - 1 \notin bad PROVE i \notin bad
  <2>1. i - 1 \in 0 .. n
    OBVIOUS
  <2>2. f[i - 1] \in Int /\ s[i] \in Int
    BY <1>1, <1>8, <2>1
  <2> QED
    BY <1>7, <2>2
<1>9. bad = {}
  <2>1. bad \in SUBSET (0 .. n) /\ 0 \notin bad
    BY <1>7
  <2> HIDE DEF bad
  <2> QED
    BY <1>8, <2>1, NoneBad
<1>10. DOMAIN f = 0 .. n /\ f = [i \in 0 .. n |-> f[i]]
  BY <1>4
<1>11. f \in [0 .. n -> Int]
  BY <1>9, <1>10
<1> QED
  BY <1>5, <1>7, <1>11 DEF Sums

\* A sum of numbers that are at most c is at most as many times c.
LEMMA TotalAtMost ==
    ASSUME NEW n \in Nat, NEW s \in [1 .. n -> Int], NEW c \in Int,
           \A i \in 1 .. n : s[i] =< c
    PROVE  Total(s) \in Int /\ Total(s) =< n * c
<1>1. PICK f : Sums(f, s, n) /\ Total(s) = f[n]
  BY TotalIsLastSum
<1> DEFINE bad == {i \in 0 .. n : ~(f[i] =< i * c)}
<1>2. ASSUME bad # {} PROVE FALSE
  <2>1. PICK m \in bad : \A k \in bad : m =< k
    <3>1. bad \in SUBSET Nat
      OBVIOUS
    <3> HIDE DEF bad
    <3> QED
      BY <1>2, <3>1, LeastNatural
  <2>2. m \in 1 .. n /\ m - 1 \in 0 .. n /\ ~(m =< m - 1)
    <3>1. m # 0
      BY <1>1, <2>1 DEF Sums
    <3> QED
      BY <3>1
  <2>3. f[m - 1] =< (m - 1) * c /\ f[m] = f[m - 1] + s[m] /\ s[m] =< c
        /\ f[m - 1] \in Int /\ s[m] \in Int
    BY <1>1, <2>1, <2>2 DEF Sums
  <2>4. (m - 1) * c + c = m * c /\ (m - 1) * c \in Int
    BY <2>2
  <2>5. f[m] =< m * c
    BY <2>2, <2>3, <2>4
  <2> QED
    BY <2>1, <2>5
<1>3. n \in 0 .. n
  OBVIOUS
<1> QED
  BY <1>1, <1>2, <1>3 DEF Sums

\* A sum of naturals is no less than each of them, and than the sum of the first
\* ones.
LEMMA TotalAtLeast ==
    ASSUME NEW n \in Nat, NEW s \in [1 .. n -> Nat]
    PROVE  Total(s) \in Nat /\ \A i \in 1 .. n : s[i] =< Total(s)
<1>0. s \in [1 .. n -> Int]
  OBVIOUS
<1>1. PICK f : Sums(f, s, n) /\ Total(s) = f[n]
  BY <1>0, TotalIsLastSum
<1> DEFINE bad == {i \in 0 .. n : ~(f[i] >= 0 /\ \A k \in 1 .. i : s[k] =< f[i])}
<1>2. ASSUME bad # {} PROVE FALSE
  <2>1. PICK m \in bad : \A k \in bad : m =< k
    <3>1. bad \in SUBSET Nat
      OBVIOUS
    <3> HIDE DEF bad
    <3> QED
      BY <1>2, <3>1, LeastNatural
  <2>2. m \in 1 .. n /\ m - 1 \in 0 .. n /\ ~(m =< m - 1)
    <3>1. m # 0
      BY <1>1, <2>1 DEF Sums
    <3> QED
      BY <3>1
  <2>3. /\ f[m - 1] >= 0 /\ \A k \in 1 .. m - 1 : s[k] =< f[m - 1]
        /\ f[m] = f[m - 1] + s[m] /\ f[m - 1] \in Int /\ s[m] \in Nat
    BY <1>1, <2>1, <2>2 DEF Sums
  <2>4. f[m] >= 0 /\ \A k \in 1 .. m : s[k] =< f[m]
    BY <2>2, <2>3
  <2> QED
    BY <2>1, <2>4
<1>3. n \in 0 .. n
  OBVIOUS
<1>4. f[n] \in Int /\ f[n] >= 0 /\ \A k \in 1 .. n : s[k] =< f[n]
  BY <1>1, <1>2, <1>3 DEF Sums
<1> QED
  BY <1>1, <1>4

\* A sum of shares is that of the weights, times what each weighs.
LEMMA TotalOfShares ==
    ASSUME NEW n \in Nat, NEW s \in [1 .. n -> Int], NEW c \in Int,
           NEW b \in [1 .. n -> Int], \A i \in 1 .. n : b[i] = c * s[i]
    PROVE  Total(b) = c * Total(s) /\ Total(s) \in Int
<1>1. PICK f : Sums(f, s, n) /\ Total(s) = f[n]
  BY TotalIsLastSum
<1>2. PICK t : Sums(t, b, n) /\ Total(b) = t[n]
  BY TotalIsLastSum
<1> DEFINE bad == {i \in 0 .. n : t[i] # c * f[i]}
<1>3. 0 \notin bad
  BY <1>1, <1>2 DEF Sums
<1>4. ASSUME NEW i \in 1 .. n, i - 1 \notin bad PROVE i \notin bad
  <2>1. i - 1 \in 0 .. n
    OBVIOUS
  <2>2. t[i - 1] = c * f[i - 1]
    BY <1>4, <2>1
  <2>3. f[i] = f[i - 1] + s[i] /\ t[i] = t[i - 1] + b[i] /\ b[i] = c * s[i]
    BY <1>1, <1>2 DEF Sums
  <2>4. f[i - 1] \in Int /\ s[i] \in Int
    BY <1>1, <2>1 DEF Sums
  <2>5. c * (f[i - 1] + s[i]) = c * f[i - 1] + c * s[i]
    BY <2>4
  <2> QED
    BY <2>2, <2>3, <2>5
<1>5. bad = {}
  <2>1. bad \in SUBSET (0 .. n)
    OBVIOUS
  <2> HIDE DEF bad
  <2> QED
    BY <1>3, <1>4, <2>1, NoneBad
<1>6. n \in 0 .. n
  OBVIOUS
<1> QED
  BY <1>1, <1>2, <1>5, <1>6 DEF Sums

\* A sum of differences is the difference of the sums.
LEMMA TotalOfDifferences ==
    ASSUME NEW n \in Nat, NEW x \in [1 .. n -> Int], NEW y \in [1 .. n -> Int],
           NEW d \in [1 .. n -> Int], \A i \in 1 .. n : d[i] = x[i] - y[i]
    PROVE  Total(d) = Total(x) - Total(y)
<1>1. PICK f : Sums(f, x, n) /\ Total(x) = f[n]
  BY TotalIsLastSum
<1>2. PICK g : Sums(g, y, n) /\ Total(y) = g[n]
  BY TotalIsLastSum
<1>3. PICK h : Sums(h, d, n) /\ Total(d) = h[n]
  BY TotalIsLastSum
<1> DEFINE bad == {i \in 0 .. n : h[i] # f[i] - g[i]}
<1>4. 0 \notin bad
  BY <1>1, <1>2, <1>3 DEF Sums
<1>5. ASSUME NEW i \in 1 .. n, i - 1 \notin bad PROVE i \notin bad
  <2>1. i - 1 \in 0 .. n
    OBVIOUS
  <2>2. h[i - 1] = f[i - 1] - g[i - 1]
    BY <1>5, <2>1
  <2>3. /\ f[i] = f[i - 1] + x[i] /\ g[i] = g[i - 1] + y[i] /\ h[i] = h[i - 1] + d[i]
        /\ d[i] = x[i] - y[i]
    BY <1>1, <1>2, <1>3 DEF Sums
  <2>4. /\ f[i - 1] \in Int /\ g[i - 1] \in Int /\ x[i] \in Int /\ y[i] \in Int
    BY <1>1, <1>2, <2>1 DEF Sums
  <2>5. h[i] = f[i] - g[i]
    BY <2>2, <2>3, <2>4
  <2> QED
    BY <2>5
<1>6. bad = {}
  <2>1. bad \in SUBSET (0 .. n)
    OBVIOUS
  <2> HIDE DEF bad
  <2> QED
    BY <1>4, <1>5, <2>1, NoneBad
<1>7. n \in 0 .. n
  OBVIOUS
<1> QED
  BY <1>1, <1>2, <1>3, <1>6, <1>7

\* A sum without its last term.
LEMMA TotalOfFirst ==
    ASSUME NEW n \in Nat \ {0}, NEW x \in [1 .. n -> Int],
           NEW y \in [1 .. n - 1 -> Int], \A i \in 1 .. n - 1 : y[i] = x[i]
    PROVE  Total(x) = Total(y) + x[n] /\ Total(y) \in Int
<1>0. n - 1 \in Nat
  OBVIOUS
<1>1. PICK f : Sums(f, x, n) /\ Total(x) = f[n]
  BY TotalIsLastSum
<1>2. PICK g : Sums(g, y, n - 1) /\ Total(y) = g[n - 1]
  BY <1>0, TotalIsLastSum
<1> DEFINE bad == {i \in 0 .. n - 1 : f[i] # g[i]}
<1>3. 0 \notin bad
  BY <1>1, <1>2 DEF Sums
<1>4. ASSUME NEW i \in 1 .. n - 1, i - 1 \notin bad PROVE i \notin bad
  <2>1. i - 1 \in 0 .. n - 1 /\ i \in 1 .. n
    OBVIOUS
  <2>2. f[i - 1] = g[i - 1]
    BY <1>4, <2>1
  <2>3. f[i] = f[i - 1] + x[i] /\ g[i] = g[i - 1] + y[i] /\ y[i] = x[i]
    BY <1>1, <1>2, <2>1 DEF Sums
  <2>4. f[i] = g[i]
    BY <2>2, <2>3
  <2> QED
    BY <2>4
<1>5. bad = {}
  <2>1. bad \in SUBSET (0 .. n - 1)
    OBVIOUS
  <2> HIDE DEF bad
  <2> QED
    BY <1>0, <1>3, <1>4, <2>1, NoneBad
<1>6. n - 1 \in 0 .. n - 1 /\ n \in 1 .. n
  OBVIOUS
<1>7. f[n - 1] = g[n - 1] /\ g[n - 1] \in Int
  BY <1>2, <1>5, <1>6 DEF Sums
<1> QED
  BY <1>1, <1>2, <1>6, <1>7 DEF Sums

\* One term changed changes the sum by as much.
LEMMA TotalOfChanged ==
    ASSUME NEW n \in Nat, NEW x \in [1 .. n -> Int], NEW y \in [1 .. n -> Int],
           NEW p \in 1 .. n, \A i \in 1 .. n : i # p => y[i] = x[i]
    PROVE  Total(y) = Total(x) + y[p] - x[p] /\ Total(x) \in Int
<1>1. PICK f : Sums(f, x, n) /\ Total(x) = f[n]
  BY TotalIsLastSum
<1>2. PICK g : Sums(g, y, n) /\ Total(y) = g[n]
  BY TotalIsLastSum
<1> DEFINE More(i) == IF p =< i THEN y[p] - x[p] ELSE 0
           bad == {i \in 0 .. n : g[i] # f[i] + More(i)}
<1>3. 0 \notin bad
  BY <1>1, <1>2 DEF Sums
<1>4. ASSUME NEW i \in 1 .. n, i - 1 \notin bad PROVE i \notin bad
  <2>1. i - 1 \in 0 .. n
    OBVIOUS
  <2>2. g[i - 1] = f[i - 1] + More(i - 1)
    BY <1>4, <2>1
  <2>3. f[i] = f[i - 1] + x[i] /\ g[i] = g[i - 1] + y[i]
    BY <1>1, <1>2 DEF Sums
  <2>4. /\ f[i - 1] \in Int /\ x[i] \in Int /\ y[i] \in Int /\ x[p] \in Int /\ y[p] \in Int
    BY <1>1, <2>1 DEF Sums
  <2>5. CASE i = p
    <3>1. More(i - 1) = 0 /\ More(i) = y[i] - x[i]
      BY <2>5
    <3>2. g[i] = f[i] + More(i)
      BY <2>2, <2>3, <2>4, <3>1
    <3> QED
      BY <3>2
  <2>6. CASE i # p
    <3>1. More(i - 1) = More(i) /\ More(i) \in Int /\ y[i] = x[i]
      BY <2>4, <2>6
    <3>2. g[i] = f[i] + More(i)
      <4> HIDE DEF More
      <4> QED
        BY <2>2, <2>3, <2>4, <3>1
    <3> QED
      BY <3>2
  <2> QED
    BY <2>5, <2>6
<1>5. bad = {}
  <2>1. bad \in SUBSET (0 .. n)
    OBVIOUS
  <2> HIDE DEF bad
  <2> QED
    BY <1>3, <1>4, <2>1, NoneBad
<1>6. n \in 0 .. n /\ p =< n
  OBVIOUS
<1>7. g[n] = f[n] + (y[p] - x[p])
  BY <1>5, <1>6
<1>8. f[n] \in Int /\ x[p] \in Int /\ y[p] \in Int
  BY <1>1, <1>6 DEF Sums
<1> QED
  BY <1>1, <1>2, <1>7, <1>8

\* y has the terms of x in the order r.
Arranges(n, x, y, r) ==
    /\ x \in [1 .. n -> Int] /\ y \in [1 .. n -> Int] /\ r \in [1 .. n -> 1 .. n]
    /\ \A i, j \in 1 .. n : r[i] = r[j] => i = j
    /\ \A i \in 1 .. n : y[i] = x[r[i]]

\* Take the last term of y out, and put the last of x where it was.
LEMMA ArrangedWithoutLast ==
    ASSUME NEW m \in Nat \ {0}, NEW x, NEW y, NEW r, Arranges(m, x, y, r),
           \A u, v, s : Arranges(m - 1, u, v, s) => Total(u) = Total(v)
    PROVE  Total(x) = Total(y)
<1>1. PICK l \in Nat : l = m - 1
  OBVIOUS
<1>2. PICK p \in 1 .. m : p = r[m]
  BY DEF Arranges
<1>3. /\ m \in 1 .. m /\ ~(m =< l)
      /\ \A i \in 1 .. l : i \in 1 .. m /\ i # m
      /\ \A i \in 1 .. m : i # m => i \in 1 .. l
  BY <1>1
<1>4. /\ \A i \in 1 .. m : x[i] \in Int /\ y[i] \in Int /\ r[i] \in 1 .. m
      /\ \A i, j \in 1 .. m : r[i] = r[j] => i = j
      /\ \A i \in 1 .. m : y[i] = x[r[i]]
  BY DEF Arranges
<1>5. \A i \in 1 .. l : r[i] \in 1 .. m /\ r[i] # p
  BY <1>2, <1>3, <1>4
<1>6. PICK first \in [1 .. l -> Int] : \A i \in 1 .. l : first[i] = x[i]
  <2>1. [i \in 1 .. l |-> x[i]] \in [1 .. l -> Int]
    BY <1>3, <1>4
  <2> QED
    BY <2>1
<1>7. PICK u \in [1 .. l -> Int] :
         \A i \in 1 .. l : u[i] = IF i = p THEN x[m] ELSE x[i]
  <2>1. [i \in 1 .. l |-> IF i = p THEN x[m] ELSE x[i]] \in [1 .. l -> Int]
    BY <1>3, <1>4
  <2> QED
    BY <2>1
<1>8. PICK v \in [1 .. l -> Int] : \A i \in 1 .. l : v[i] = y[i]
  <2>1. [i \in 1 .. l |-> y[i]] \in [1 .. l -> Int]
    BY <1>3, <1>4
  <2> QED
    BY <2>1
<1>9. PICK s \in [1 .. l -> 1 .. l] :
         \A i \in 1 .. l : s[i] = IF r[i] = m THEN p ELSE r[i]
  <2>1. ASSUME NEW i \in 1 .. l PROVE (IF r[i] = m THEN p ELSE r[i]) \in 1 .. l
    <3>1. CASE r[i] = m
      <4>1. p # m
        BY <1>5, <3>1
      <4> QED
        BY <1>3, <3>1, <4>1
    <3>2. CASE r[i] # m
      BY <1>3, <1>5, <3>2
    <3> QED
      BY <3>1, <3>2
  <2>2. [i \in 1 .. l |-> IF r[i] = m THEN p ELSE r[i]] \in [1 .. l -> 1 .. l]
    BY <2>1
  <2> QED
    BY <2>2
<1>10. \A i, j \in 1 .. l : s[i] = s[j] => i = j
  <2> TAKE i, j \in 1 .. l
  <2>1. s[i] = s[j] => r[i] = r[j]
    BY <1>5, <1>9
  <2> QED
    BY <1>3, <1>4, <2>1
<1>11. \A i \in 1 .. l : v[i] = u[s[i]]
  <2> TAKE i \in 1 .. l
  <2>1. s[i] \in 1 .. l /\ v[i] = x[r[i]] /\ s[i] = IF r[i] = m THEN p ELSE r[i]
    BY <1>3, <1>4, <1>8, <1>9
  <2>2. CASE r[i] = m
    BY <1>7, <2>1, <2>2
  <2>3. CASE r[i] # m
    BY <1>5, <1>7, <2>1, <2>3
  <2> QED
    BY <2>2, <2>3
<1>12. Total(u) = Total(v)
  <2>1. Arranges(l, u, v, s)
    BY <1>10, <1>11 DEF Arranges
  <2> QED
    BY <1>1, <2>1
<1>13. Total(y) = Total(v) + y[m] /\ Total(v) \in Int
  <2>1. \A i \in 1 .. m - 1 : v[i] = y[i]
    BY <1>1, <1>8
  <2>2. y \in [1 .. m -> Int] /\ v \in [1 .. m - 1 -> Int]
    BY <1>1 DEF Arranges
  <2> QED
    BY <2>1, <2>2, TotalOfFirst
<1>14. Total(x) = Total(first) + x[m] /\ Total(first) \in Int
  <2>1. \A i \in 1 .. m - 1 : first[i] = x[i]
    BY <1>1, <1>6
  <2>2. x \in [1 .. m -> Int] /\ first \in [1 .. m - 1 -> Int]
    BY <1>1 DEF Arranges
  <2> QED
    BY <2>1, <2>2, TotalOfFirst
<1>15. y[m] = x[p] /\ x[p] \in Int /\ x[m] \in Int
  BY <1>2, <1>3, <1>4
<1>16. CASE p = m
  <2>1. \A i \in 1 .. l : u[i] = first[i]
    BY <1>3, <1>6, <1>7, <1>16
  <2>2. u = first
    BY <2>1
  <2> QED
    BY <1>12, <1>13, <1>14, <1>15, <1>16, <2>2
<1>17. CASE p # m
  <2>1. p \in 1 .. l
    BY <1>3, <1>17
  <2>2. \A i \in 1 .. l : i # p => u[i] = first[i]
    BY <1>6, <1>7
  <2>3. u[p] = x[m] /\ first[p] = x[p]
    BY <1>6, <1>7, <2>1
  <2>4. Total(u) = Total(first) + u[p] - first[p]
    BY <2>1, <2>2, TotalOfChanged
  <2>5. Total(v) = Total(first) + x[m] - x[p]
    BY <1>12, <2>3, <2>4, Zenon
  <2>6. PICK a, b, c \in Int : a = Total(first) /\ b = x[m] /\ c = x[p]
    BY <1>14, <1>15
  <2>7. Total(v) = a + b - c
    BY <2>5, <2>6, Zenon
  <2>8. Total(y) = a + b
    BY <1>13, <1>15, <2>6, <2>7
  <2>9. Total(x) = a + b
    BY <1>14, <2>6, Zenon
  <2> QED
    BY <2>8, <2>9
<1> QED
  BY <1>16, <1>17

\* A sum does not depend on the order of its terms.
LEMMA TotalRearranged ==
    ASSUME NEW n \in Nat, NEW x, NEW y, NEW r, Arranges(n, x, y, r)
    PROVE  Total(x) = Total(y)
<1> DEFINE AnyOrder(m) == \A u, v, s : Arranges(m, u, v, s) => Total(u) = Total(v)
           bad == {m \in 0 .. n : ~AnyOrder(m)}
<1>1. 0 \notin bad
  <2> SUFFICES ASSUME NEW u, NEW v, NEW s, Arranges(0, u, v, s) PROVE u = v
    OBVIOUS
  <2>1. u \in [1 .. 0 -> Int] /\ v \in [1 .. 0 -> Int] /\ 1 .. 0 = {}
    BY DEF Arranges
  <2> QED
    BY <2>1
<1>2. ASSUME NEW m \in 1 .. n, m - 1 \notin bad PROVE m \notin bad
  <2>1. m - 1 \in 0 .. n /\ m \in Nat \ {0}
    OBVIOUS
  <2>2. AnyOrder(m - 1)
    BY <1>2, <2>1
  <2>3. AnyOrder(m)
    BY <2>1, <2>2, ArrangedWithoutLast
  <2> QED
    BY <2>3
<1>3. bad = {}
  <2>1. bad \in SUBSET (0 .. n)
    OBVIOUS
  <2> HIDE DEF bad
  <2> QED
    BY <1>1, <1>2, <2>1, NoneBad
<1>4. n \in 0 .. n
  OBVIOUS
<1>5. AnyOrder(n)
  BY <1>3, <1>4
<1> QED
  BY <1>5

-----------------------------------------------------------------------------
(***************************************************************************)
(* Fractions, and their sums and means.                                    *)
(***************************************************************************)

Fraction == [num : Int, den : Nat \ {0}]

\* A fraction from nothing to c.
Within(p, c) == 0 =< p.num /\ p.num =< c * p.den

LEMMA TimesKeepsOrder ==
    ASSUME NEW x \in Int, NEW y \in Int, x =< y, NEW d \in Nat
    PROVE  x * d =< y * d /\ x * d \in Int /\ y * d \in Int
<1>1. (y - x) * d >= 0
  OBVIOUS
<1>2. (y - x) * d = y * d - x * d
  OBVIOUS
<1> QED
  BY <1>1, <1>2

LEMMA PositiveProduct ==
    ASSUME NEW m \in Nat \ {0}, NEW n \in Nat \ {0}
    PROVE  m * n \in Nat \ {0}
  OBVIOUS

LEMMA PlusWithin ==
    ASSUME NEW p \in Fraction, NEW q \in Fraction, NEW a \in Int, NEW b \in Int,
           Within(p, a), Within(q, b)
    PROVE  Plus(p, q) \in Fraction /\ Within(Plus(p, q), a + b)
<1>0. p.num \in Int /\ q.num \in Int /\ p.den \in Nat \ {0} /\ q.den \in Nat \ {0}
  BY DEF Fraction
<1>1. p.den * q.den \in Nat \ {0}
  BY <1>0, PositiveProduct
<1>2. p.num * q.den + q.num * p.den \in Int
  BY <1>0
<1>3. Plus(p, q) \in Fraction
  BY <1>1, <1>2 DEF Plus, Fraction
<1>4. 0 =< p.num * q.den /\ p.num * q.den =< (a * p.den) * q.den
  <2>1. 0 * q.den =< p.num * q.den
    BY <1>0, TimesKeepsOrder DEF Within
  <2>2. p.num * q.den =< (a * p.den) * q.den
    BY <1>0, TimesKeepsOrder DEF Within
  <2> QED
    BY <1>0, <2>1, <2>2
<1>5. 0 =< q.num * p.den /\ q.num * p.den =< (b * q.den) * p.den
  <2>1. 0 * p.den =< q.num * p.den
    BY <1>0, TimesKeepsOrder DEF Within
  <2>2. q.num * p.den =< (b * q.den) * p.den
    BY <1>0, TimesKeepsOrder DEF Within
  <2> QED
    BY <1>0, <2>1, <2>2
<1>6. (a * p.den) * q.den + (b * q.den) * p.den = (a + b) * (p.den * q.den)
  BY <1>0
<1> QED
  <2> DEFINE u == p.num * q.den
             v == q.num * p.den
             x == (a * p.den) * q.den
             y == (b * q.den) * p.den
             z == (a + b) * (p.den * q.den)
  <2>1. u \in Int /\ v \in Int /\ x \in Int /\ y \in Int /\ z \in Int
    BY <1>0
  <2>2. 0 =< u /\ u =< x /\ 0 =< v /\ v =< y /\ x + y = z
    BY <1>4, <1>5, <1>6
  <2>3. 0 =< u + v /\ u + v =< z
    <3> HIDE DEF u, v, x, y, z
    <3> QED
      BY <2>1, <2>2
  <2>4. Within(Plus(p, q), a + b)
    BY <2>3 DEF Within, Plus
  <2> QED
    BY <1>3, <2>4

LEMMA TimesWithin ==
    ASSUME NEW p \in Fraction, NEW c \in Int, NEW n \in Nat, Within(p, c)
    PROVE  Times(p, n) \in Fraction /\ Within(Times(p, n), c * n)
<1>0. p.num \in Int /\ p.den \in Nat \ {0}
  BY DEF Fraction
<1>1. 0 * n =< p.num * n /\ p.num * n =< (c * p.den) * n /\ p.num * n \in Int
  BY <1>0, TimesKeepsOrder DEF Within
<1>2. (c * p.den) * n = (c * n) * p.den
  BY <1>0
<1> QED
  BY <1>0, <1>1, <1>2 DEF Times, Fraction, Within

LEMMA OverWithin ==
    ASSUME NEW p \in Fraction, NEW c \in Int, NEW n \in Nat \ {0}, Within(p, n * c)
    PROVE  Over(p, n) \in Fraction /\ Within(Over(p, n), c)
<1>0. p.num \in Int /\ p.den \in Nat \ {0}
  BY DEF Fraction
<1>1. p.den * n \in Nat \ {0}
  BY <1>0, PositiveProduct
<1>2. (n * c) * p.den = c * (p.den * n)
  BY <1>0
<1> QED
  BY <1>0, <1>1, <1>2 DEF Over, Fraction, Within

\* A fraction within a bound is within any greater one.
LEMMA WithinMore ==
    ASSUME NEW p \in Fraction, NEW a \in Int, NEW b \in Int, a =< b, Within(p, a)
    PROVE  Within(p, b)
<1>0. p.num \in Int /\ p.den \in Nat
  BY DEF Fraction
<1>1. a * p.den =< b * p.den /\ a * p.den \in Int /\ b * p.den \in Int
  BY <1>0, TimesKeepsOrder
<1> QED
  BY <1>0, <1>1 DEF Within

FractionTurn(s, f, i) == IF i = 0 THEN Zero ELSE Plus(f[i - 1], s[i])

LEMMA PlusIsFraction ==
    ASSUME NEW p \in Fraction, NEW q \in Fraction
    PROVE  /\ Plus(p, q) \in Fraction
           /\ Plus(p, q).num = p.num * q.den + q.num * p.den
           /\ Plus(p, q).den = p.den * q.den
<1>1. p.num \in Int /\ q.num \in Int /\ p.den \in Nat \ {0} /\ q.den \in Nat \ {0}
  BY DEF Fraction
<1>2. PICK m \in Int, d \in Nat \ {0} :
         m = p.num * q.den + q.num * p.den /\ d = p.den * q.den
  BY <1>1, PositiveProduct
<1>3. Plus(p, q) = [num |-> m, den |-> d]
  BY <1>2 DEF Plus
<1> QED
  BY <1>2, <1>3 DEF Fraction

\* f counts the fractions of s up.
AddsUp(f, s, n) == f[0] = Zero /\ \A i \in 1 .. n : f[i] = Plus(f[i - 1], s[i])

LEMMA TotalOfFractionsIsLastSum ==
    ASSUME NEW n \in Nat, NEW s \in [1 .. n -> Fraction]
    PROVE  \E f : AddsUp(f, s, n) /\ TotalOfFractions(s) = f[n]
<1>1. Len(s) = n
  BY LenProperties
<1> DEFINE g == [x \in (1 .. n) \X Fraction |-> Plus(x[2], s[x[1]])]
           IsSum(f) == f = [i \in 0 .. n |-> FractionTurn(s, f, i)]
<1>2. Zero \in Fraction
  BY DEF Zero, Fraction
<1>3. \A p, q \in Fraction : Plus(p, q) \in Fraction
  BY PlusIsFraction
<1>4. g \in [(1 .. n) \X Fraction -> Fraction]
  BY <1>3
<1>5. \E f : IsSum(f)
  <2> HIDE DEF g
  <2>1. PICK f : IsRun(f, Fraction, Zero, g, n)
    BY <1>2, <1>4, RecursionRuns
  <2>2. ASSUME NEW i \in 1 .. n PROVE f[i] = Plus(f[i - 1], s[i])
    <3>1. <<i, f[i - 1]>> \in (1 .. n) \X Fraction
      BY <2>1 DEF IsRun
    <3> QED
      BY <2>1, <3>1 DEF g, IsRun
  <2>3. \A i \in 0 .. n : f[i] = FractionTurn(s, f, i)
    BY <2>1, <2>2 DEF FractionTurn, IsRun
  <2>4. f = [i \in 0 .. n |-> f[i]]
    BY <2>1 DEF IsRun
  <2>5. f = [i \in 0 .. n |-> FractionTurn(s, f, i)]
    BY <2>3, <2>4
  <2> QED
    BY <2>5
<1> DEFINE f == CHOOSE f : IsSum(f)
<1>6. IsSum(f)
  BY <1>5
<1>7. TotalOfFractions(s) = f[n]
  BY <1>1 DEF TotalOfFractions, FractionTurn
<1> HIDE DEF f
<1>8. AddsUp(f, s, n)
  <2>1. \A i \in 0 .. n : f[i] = FractionTurn(s, f, i)
    BY <1>6
  <2> QED
    BY <2>1 DEF FractionTurn, AddsUp
<1> QED
  BY <1>7, <1>8

\* A sum of fractions, each from nothing to its share, is within the sum of the
\* shares.
LEMMA SumWithin ==
    ASSUME NEW n \in Nat, NEW s \in [1 .. n -> Fraction], NEW b \in [1 .. n -> Int],
           \A i \in 1 .. n : Within(s[i], b[i])
    PROVE  TotalOfFractions(s) \in Fraction /\ Within(TotalOfFractions(s), Total(b))
<1>2. Zero \in Fraction
  BY DEF Zero, Fraction
<1>7. PICK f : AddsUp(f, s, n) /\ TotalOfFractions(s) = f[n]
  BY TotalOfFractionsIsLastSum
<1>8. f[0] = Zero /\ \A i \in 1 .. n : f[i] = Plus(f[i - 1], s[i])
  BY <1>7 DEF AddsUp
<1>9. PICK t : Sums(t, b, n) /\ Total(b) = t[n]
  BY TotalIsLastSum
<1> DEFINE bad == {i \in 0 .. n : ~(f[i] \in Fraction /\ Within(f[i], t[i]))}
<1>10. 0 \notin bad
  BY <1>2, <1>8, <1>9 DEF Sums, Within, Zero
<1>11. ASSUME NEW i \in 1 .. n, i - 1 \notin bad PROVE i \notin bad
  <2>1. i - 1 \in 0 .. n
    OBVIOUS
  <2>2. f[i - 1] \in Fraction /\ Within(f[i - 1], t[i - 1])
    BY <1>11, <2>1
  <2>3. f[i] = Plus(f[i - 1], s[i]) /\ t[i] = t[i - 1] + b[i]
    BY <1>8, <1>9 DEF Sums
  <2>4. t[i - 1] \in Int /\ b[i] \in Int /\ s[i] \in Fraction /\ Within(s[i], b[i])
    BY <1>9, <2>1 DEF Sums
  <2> QED
    BY <2>2, <2>3, <2>4, PlusWithin
<1>12. bad = {}
  <2>1. bad \in SUBSET (0 .. n)
    OBVIOUS
  <2> HIDE DEF bad
  <2> QED
    BY <1>10, <1>11, <2>1, NoneBad
<1>13. n \in 0 .. n
  OBVIOUS
<1> QED
  BY <1>7, <1>9, <1>12, <1>13

\* A sum of fractions that are d[i], each in its own terms, is the sum of d.
LEMMA FractionsAdd ==
    ASSUME NEW n \in Nat, NEW s \in [1 .. n -> Fraction], NEW d \in [1 .. n -> Int],
           \A i \in 1 .. n : s[i].num = d[i] * s[i].den
    PROVE  /\ TotalOfFractions(s) \in Fraction
           /\ TotalOfFractions(s).num = Total(d) * TotalOfFractions(s).den
<1>1. PICK f : AddsUp(f, s, n) /\ TotalOfFractions(s) = f[n]
  BY TotalOfFractionsIsLastSum
<1>2. PICK t : Sums(t, d, n) /\ Total(d) = t[n]
  BY TotalIsLastSum
<1> DEFINE bad == {i \in 0 .. n : ~(f[i] \in Fraction /\ f[i].num = t[i] * f[i].den)}
<1>3. 0 \notin bad
  BY <1>1, <1>2 DEF Sums, AddsUp, Zero, Fraction
<1>4. ASSUME NEW i \in 1 .. n, i - 1 \notin bad PROVE i \notin bad
  <2>1. i - 1 \in 0 .. n
    OBVIOUS
  <2>2. PICK p \in Fraction, u \in Int :
           p = f[i - 1] /\ u = t[i - 1] /\ p.num = u * p.den
    BY <1>2, <1>4, <2>1 DEF Sums
  <2>3. PICK q \in Fraction, e \in Int : q = s[i] /\ e = d[i] /\ q.num = e * q.den
    OBVIOUS
  <2>4. f[i] = Plus(p, q) /\ t[i] = u + e
    BY <1>1, <1>2, <2>2, <2>3 DEF Sums, AddsUp
  <2>5. p.den \in Nat \ {0} /\ q.den \in Nat \ {0} /\ p.den * q.den \in Nat \ {0}
        /\ p.num \in Int /\ q.num \in Int
    BY PositiveProduct DEF Fraction
  <2>6. (u * p.den) * q.den + (e * q.den) * p.den = (u + e) * (p.den * q.den)
    BY <2>5, SMTT(30)
  <2>7. /\ Plus(p, q) \in Fraction
        /\ Plus(p, q).num = p.num * q.den + q.num * p.den
        /\ Plus(p, q).den = p.den * q.den
    BY PlusIsFraction
  <2>8. p.num * q.den + q.num * p.den = (u + e) * (p.den * q.den)
    BY <2>2, <2>3, <2>6, Zenon
  <2> QED
    BY <2>4, <2>7, <2>8
<1>5. bad = {}
  <2>1. bad \in SUBSET (0 .. n)
    OBVIOUS
  <2> HIDE DEF bad
  <2> QED
    BY <1>3, <1>4, <2>1, NoneBad
<1>6. n \in 0 .. n
  OBVIOUS
<1> QED
  BY <1>1, <1>2, <1>5, <1>6

\* A mean of averages is within what each of them is within, whatever the
\* weights, unless they weigh nothing.
LEMMA MeanWithin ==
    ASSUME NEW n \in Nat, NEW m, DOMAIN m = 1 .. n, NEW c \in Int,
           NEW w \in [1 .. n -> Nat], Total(w) # 0,
           \A i \in 1 .. n : m[i].avg \in Fraction /\ Within(m[i].avg, c)
    PROVE  WeightedMean(m, w) \in Fraction /\ Within(WeightedMean(m, w), c)
<1> DEFINE s == Averages(m, w)
           b == [i \in 1 .. n |-> c * w[i]]
<1>0. w \in [1 .. n -> Int] /\ \A i \in 1 .. n : w[i] \in Nat
  OBVIOUS
<1>1. \A i \in 1 .. n : Times(m[i].avg, w[i]) \in Fraction
                        /\ Within(Times(m[i].avg, w[i]), c * w[i])
  BY <1>0, TimesWithin
<1>2. s \in [1 .. n -> Fraction] /\ b \in [1 .. n -> Int]
      /\ \A i \in 1 .. n : Within(s[i], b[i])
  BY <1>0, <1>1 DEF Averages
<1>3. \A i \in 1 .. n : b[i] = c * w[i]
  OBVIOUS
<1> HIDE DEF s, b
<1>4. TotalOfFractions(s) \in Fraction /\ Within(TotalOfFractions(s), Total(b))
  BY <1>2, SumWithin
<1>5. Total(b) = c * Total(w)
  BY <1>0, <1>2, <1>3, TotalOfShares
<1>6. Total(w) \in Nat \ {0}
  BY TotalAtLeast
<1>7. Total(b) = Total(w) * c
  BY <1>5, <1>6
<1> QED
  BY <1>4, <1>6, <1>7, OverWithin DEF WeightedMean, s

-----------------------------------------------------------------------------
(***************************************************************************)
(* Stays, and the visitors who are there at one time.                      *)
(***************************************************************************)

\* A set of stays, each from one time to another.
IsStays(S) == IsFiniteSet(S) /\ \A s \in S : s.from \in Int /\ s.to \in Int

\* The peak is that at the start of a stay, if there are any.
LEMMA PeakIsAtAStart ==
    ASSUME NEW S, IsStays(S)
    PROVE  /\ PeakOf(S) \in Nat
           /\ \A s \in S : Together(S, s.from) =< PeakOf(S)
           /\ PeakOf(S) = 0 \/ \E s \in S : PeakOf(S) = Together(S, s.from)
<1> DEFINE T == {0} \cup {Together(S, s.from) : s \in S}
<1>1. Cardinality(S) \in Nat
  BY FS_CardinalityType DEF IsStays
<1>2. ASSUME NEW s \in S
      PROVE  Together(S, s.from) \in Nat /\ Together(S, s.from) =< Cardinality(S)
  <2> DEFINE U == {x \in S : x.from =< s.from /\ s.from =< x.to}
  <2>1. U \in SUBSET S
    OBVIOUS
  <2>2. IsFiniteSet(U) /\ Cardinality(U) =< Cardinality(S)
    BY <2>1, FS_Subset DEF IsStays
  <2>3. Cardinality(U) \in Nat
    BY <2>2, FS_CardinalityType
  <2> QED
    BY <2>2, <2>3 DEF Together
<1>3. T \in SUBSET Int /\ T # {} /\ \A x \in T : x =< Cardinality(S)
  BY <1>1, <1>2
<1>4. 0 \in T /\ \A s \in S : Together(S, s.from) \in T
  OBVIOUS
<1>5. \A x \in T : x = 0 \/ \E s \in S : x = Together(S, s.from)
  OBVIOUS
<1>6. \A x \in T : x \in Nat
  BY <1>2
<1>7. PeakOf(S) = Max(T)
  BY DEF PeakOf
<1> HIDE DEF T
<1>8. Max(T) \in T /\ \A x \in T : x =< Max(T)
  <2>1. PICK c \in Int : c = Cardinality(S)
    BY <1>1
  <2>2. \A x \in T : x =< c
    BY <1>3, <2>1, Zenon
  <2> QED
    BY <1>3, <2>2, GreatestOf
<1>9. PeakOf(S) \in T /\ \A x \in T : x =< PeakOf(S)
  BY <1>7, <1>8, Zenon
<1> QED
  BY <1>4, <1>5, <1>6, <1>9

\* At no time are there more visitors together than at the peak: those of any
\* time are all there when the last of them comes.
LEMMA PeakIsHighest ==
    ASSUME NEW S, IsStays(S), NEW t \in Int
    PROVE  Together(S, t) \in Nat /\ Together(S, t) =< PeakOf(S)
<1> DEFINE U == {x \in S : x.from =< t /\ t =< x.to}
<1>1. U \in SUBSET S /\ Together(S, t) = Cardinality(U)
  BY DEF Together
<1>2. IsFiniteSet(U) /\ Cardinality(U) \in Nat
  BY <1>1, FS_Subset, FS_CardinalityType DEF IsStays
<1>3. PeakOf(S) \in Nat
  BY PeakIsAtAStart
<1>4. CASE U = {}
  BY <1>1, <1>3, <1>4, FS_EmptySet
<1>5. CASE U # {}
  <2> DEFINE F == {x.from : x \in U}
  <2>1. F \in SUBSET Int /\ F # {} /\ \A y \in F : y =< t
    BY <1>5 DEF IsStays
  <2>2. Max(F) \in F /\ \A y \in F : y =< Max(F)
    <3> HIDE DEF F
    <3> QED
      BY <2>1, GreatestOf
  <2>3. PICK s \in U : s.from = Max(F)
    BY <2>2
  <2>4. \A x \in U : x.from =< s.from /\ s.from =< x.to
    <3> TAKE x \in U
    <3>1. x.from \in F /\ s.from \in F
      OBVIOUS
    <3>2. x.from =< Max(F) /\ s.from =< t
      BY <2>1, <2>2, <3>1
    <3>3. t =< x.to /\ x.from \in Int /\ x.to \in Int /\ s.from \in Int
      BY DEF IsStays
    <3> HIDE DEF F, U
    <3> QED
      BY <2>3, <3>2, <3>3
  <2> DEFINE V == {x \in S : x.from =< s.from /\ s.from =< x.to}
  <2>5. U \in SUBSET V
    BY <2>4
  <2>6. V \in SUBSET S /\ Together(S, s.from) = Cardinality(V)
    BY DEF Together
  <2>7. IsFiniteSet(V) /\ Cardinality(V) \in Nat
    BY <2>6, FS_Subset, FS_CardinalityType DEF IsStays
  <2>8. Cardinality(U) =< Cardinality(V)
    BY <2>5, <2>7, FS_Subset
  <2>9. Cardinality(V) =< PeakOf(S)
    BY <2>6, PeakIsAtAStart
  <2> QED
    BY <1>1, <1>2, <1>3, <2>7, <2>8, <2>9
<1> QED
  BY <1>4, <1>5

\* The peak does not fall if every stay is kept, or becomes longer.
LEMMA PeakGrows ==
    ASSUME NEW S, NEW T, IsStays(S), IsStays(T), NEW f \in [S -> T],
           \A x, y \in S : f[x] = f[y] => x = y,
           \A x \in S : f[x].from = x.from /\ x.to =< f[x].to
    PROVE  PeakOf(S) =< PeakOf(T)
<1>1. PeakOf(S) \in Nat /\ PeakOf(T) \in Nat
  BY PeakIsAtAStart
<1>2. CASE PeakOf(S) = 0
  BY <1>1, <1>2
<1>3. ASSUME NEW s \in S, PeakOf(S) = Together(S, s.from)
      PROVE  PeakOf(S) =< PeakOf(T)
  <2> DEFINE U == {x \in S : x.from =< s.from /\ s.from =< x.to}
             V == {x \in T : x.from =< s.from /\ s.from =< x.to}
             g == [x \in U |-> f[x]]
  <2>1. V \in SUBSET T /\ IsFiniteSet(V)
    <3>1. V \in SUBSET T
      OBVIOUS
    <3> QED
      BY <3>1, FS_Subset DEF IsStays
  <2>2. g \in [U -> V]
    <3> SUFFICES ASSUME NEW x \in U PROVE f[x] \in V
      OBVIOUS
    <3>1. f[x] \in T /\ f[x].from = x.from /\ x.to =< f[x].to
      OBVIOUS
    <3>2. x.to \in Int /\ f[x].to \in Int /\ s.from \in Int /\ x.from \in Int
      BY <3>1 DEF IsStays
    <3>3. x.from =< s.from /\ s.from =< x.to
      OBVIOUS
    <3> QED
      BY <3>1, <3>2, <3>3
  <2>3. \A x, y \in U : g[x] = g[y] => x = y
    OBVIOUS
  <2>4. Together(S, s.from) = Cardinality(U) /\ Together(T, s.from) = Cardinality(V)
    BY DEF Together
  <2>5. s.from \in Int
    BY DEF IsStays
  <2>6. Together(T, s.from) \in Nat /\ Together(T, s.from) =< PeakOf(T)
    BY <2>5, PeakIsHighest
  <2>7. Cardinality(U) \in Nat /\ Cardinality(U) =< Cardinality(V)
    <3> HIDE DEF U, V, g
    <3> QED
      BY <2>1, <2>2, <2>3, NoLarger
  <2> QED
    BY <1>1, <1>3, <2>4, <2>6, <2>7
<1> QED
  BY <1>2, <1>3, PeakIsAtAStart

\* Nor if more stays are looked at.
LEMMA PeakOfMore ==
    ASSUME NEW T, IsStays(T), NEW S \in SUBSET T
    PROVE  IsStays(S) /\ PeakOf(S) =< PeakOf(T)
<1>1. IsStays(S)
  BY FS_Subset DEF IsStays
<1> DEFINE f == [x \in S |-> x]
<1>2. f \in [S -> T] /\ \A x, y \in S : f[x] = f[y] => x = y
  OBVIOUS
<1>3. \A x \in S : f[x].from = x.from /\ x.to =< f[x].to
  BY <1>1 DEF IsStays
<1> QED
  BY <1>1, <1>2, <1>3, PeakGrows

-----------------------------------------------------------------------------
(***************************************************************************)
(* Timelines.                                                              *)
(***************************************************************************)

\* Events of the time up to c.
AreEvents(E, c) ==
    /\ IsFiniteSet(E)
    /\ \A e \in E : /\ e.timestamp \in Int /\ e.timestamp =< c
                    /\ e.event_type \in {"enter", "exit"}

Ordered(s) == \A j \in DOMAIN s : \A i \in 1 .. j - 1 : s[i] # s[j] /\ Before(s[i], s[j])

\* Of some events one comes last: an exit, if there is one at the latest time.
LEMMA LastOf ==
    ASSUME NEW c \in Int, NEW E, AreEvents(E, c), E # {}
    PROVE  \E x \in E : \A y \in E : Before(y, x)
<1> DEFINE T == {e.timestamp : e \in E}
<1>1. T \in SUBSET Int /\ T # {} /\ \A t \in T : t =< c
  BY DEF AreEvents
<1>2. \A e \in E : e.timestamp \in T
  OBVIOUS
<1>3. \A t \in T : \E e \in E : t = e.timestamp
  OBVIOUS
<1> HIDE DEF T
<1>4. Max(T) \in T /\ \A t \in T : t =< Max(T)
  BY <1>1, GreatestOf
<1>5. PICK x \in E : x.timestamp = Max(T)
  BY <1>3, <1>4
<1>6. \A y \in E : y.timestamp =< x.timestamp /\ y.timestamp \in Int /\ x.timestamp \in Int
                   /\ y.event_type \in {"enter", "exit"}
  BY <1>2, <1>4, <1>5 DEF AreEvents
<1>7. CASE \E z \in E : z.timestamp = x.timestamp /\ z.event_type = "exit"
  BY <1>6, <1>7 DEF Before
<1>8. CASE ~ \E z \in E : z.timestamp = x.timestamp /\ z.event_type = "exit"
  <2>1. \A y \in E : Before(y, x)
    BY <1>6, <1>8 DEF Before
  <2> QED
    BY <2>1
<1> QED
  BY <1>7, <1>8

\* Finitely many events can be sorted.
LEMMA SortingEnds ==
    ASSUME NEW c \in Int, NEW E, AreEvents(E, c)
    PROVE  \E s \in [1 .. Cardinality(E) -> E] : Ordered(s)
<1> DEFINE Sorts(D) == \E s \in [1 .. Cardinality(D) -> D] : Ordered(s)
           stuck == {m \in Nat : \E D \in SUBSET E : Cardinality(D) = m /\ ~Sorts(D)}
<1>1. ASSUME stuck # {} PROVE FALSE
  <2>1. PICK m \in stuck : \A k \in stuck : m =< k
    <3>1. stuck \in SUBSET Nat
      OBVIOUS
    <3> HIDE DEF stuck
    <3> QED
      BY <1>1, <3>1, LeastNatural
  <2>2. PICK D \in SUBSET E : Cardinality(D) = m /\ ~Sorts(D)
    OBVIOUS
  <2>3. m \in Nat
    OBVIOUS
  <2>4. AreEvents(D, c)
    BY FS_Subset DEF AreEvents
  <2>5. CASE D = {}
    <3>1. m = 0
      BY <2>2, <2>5, FS_EmptySet
    <3>2. 1 .. m = {}
      BY <3>1
    <3> DEFINE s == [i \in 1 .. m |-> 0]
    <3>3. s \in [1 .. m -> D] /\ DOMAIN s = {}
      BY <3>2
    <3>4. Ordered(s)
      BY <3>3 DEF Ordered
    <3> QED
      BY <2>2, <3>3, <3>4
  <2>6. CASE D # {}
    <3>1. PICK x \in D : \A y \in D : Before(y, x)
      BY <2>4, <2>6, LastOf
    <3> DEFINE F == D \ {x}
    <3>2. IsFiniteSet(D) /\ Cardinality(F) = m - 1 /\ IsFiniteSet(F)
      BY <2>2, <2>4, FS_RemoveElement DEF AreEvents
    <3>3. Cardinality(F) \in Nat
      BY <3>2, FS_CardinalityType
    <3>4. m - 1 \in Nat /\ m \in 1 .. m /\ ~(m =< m - 1)
      BY <2>3, <3>2, <3>3
    <3>5. Sorts(F)
      <4>1. m - 1 \notin stuck
        BY <2>1, <3>4
      <4>2. F \in SUBSET E
        OBVIOUS
      <4> HIDE DEF F, Sorts
      <4> QED
        BY <3>2, <3>4, <4>1, <4>2
    <3>6. PICK s \in [1 .. m - 1 -> F] : Ordered(s)
      BY <3>2, <3>5
    <3> DEFINE z == [i \in 1 .. m |-> IF i < m THEN s[i] ELSE x]
    <3>7. /\ \A i \in 1 .. m : i = m \/ i \in 1 .. m - 1
          /\ \A i \in 1 .. m - 1 : z[i] = s[i] /\ s[i] \in D /\ s[i] # x
          /\ z[m] = x
      BY <3>4
    <3>8. z \in [1 .. m -> D]
      BY <3>7
    <3>9. ASSUME NEW j \in 1 .. m, NEW i \in 1 .. j - 1
          PROVE  z[i] # z[j] /\ Before(z[i], z[j])
      <4>1. i \in 1 .. m - 1
        BY <3>4
      <4>2. CASE j = m
        BY <3>1, <3>7, <4>1, <4>2
      <4>3. CASE j \in 1 .. m - 1
        <5>1. s[i] # s[j] /\ Before(s[i], s[j])
          BY <3>6, <4>3 DEF Ordered
        <5> QED
          BY <3>7, <4>1, <4>3, <5>1
      <4> QED
        BY <3>7, <4>2, <4>3
    <3>10. Ordered(z)
      <4>1. DOMAIN z = 1 .. m
        OBVIOUS
      <4> HIDE DEF z
      <4> QED
        BY <3>9, <4>1 DEF Ordered
    <3> HIDE DEF z
    <3> QED
      BY <2>2, <3>8, <3>10
  <2> QED
    BY <2>5, <2>6
<1>2. Cardinality(E) \in Nat /\ E \in SUBSET E
  BY FS_CardinalityType DEF AreEvents
<1> QED
  BY <1>1, <1>2

\* Sorted events are all of them, once each and in order.
LEMMA SortedFacts ==
    ASSUME NEW c \in Int, NEW E, AreEvents(E, c)
    PROVE  /\ Cardinality(E) \in Nat
           /\ Sorted(E) \in [1 .. Cardinality(E) -> E]
           /\ \A i, j \in 1 .. Cardinality(E) :
                 i < j => Sorted(E)[i] # Sorted(E)[j] /\ Before(Sorted(E)[i], Sorted(E)[j])
           /\ \A i, j \in 1 .. Cardinality(E) : Sorted(E)[i] = Sorted(E)[j] => i = j
           /\ \A e \in E : \E i \in 1 .. Cardinality(E) : Sorted(E)[i] = e
<1>1. PICK n \in Nat : n = Cardinality(E)
  BY FS_CardinalityType DEF AreEvents
<1> DEFINE s == Sorted(E)
<1>2. s \in [1 .. n -> E] /\ Ordered(s)
  <2>1. \E z \in [1 .. n -> E] : Ordered(z)
    BY <1>1, SortingEnds
  <2>2. s = CHOOSE z \in [1 .. n -> E] : Ordered(z)
    BY <1>1 DEF Sorted, Ordered
  <2> HIDE DEF s
  <2> QED
    BY <2>1, <2>2
<1> HIDE DEF s
<1>3. ASSUME NEW i \in 1 .. n, NEW j \in 1 .. n, i < j
      PROVE  s[i] # s[j] /\ Before(s[i], s[j])
  <2>1. i \in 1 .. j - 1 /\ j \in DOMAIN s
    BY <1>2, <1>3
  <2> QED
    BY <1>2, <2>1 DEF Ordered
<1>4. ASSUME NEW i \in 1 .. n, NEW j \in 1 .. n, s[i] = s[j] PROVE i = j
  <2>1. ~(i < j) /\ ~(j < i)
    BY <1>3, <1>4
  <2> QED
    BY <2>1
<1>5. \A e \in E : \E i \in 1 .. n : s[i] = e
  <2>1. IsFiniteSet(E)
    BY DEF AreEvents
  <2>2. Cardinality(1 .. n) = Cardinality(E)
    BY <1>1, Positions
  <2>3. \A x, y \in 1 .. n : s[x] = s[y] => x = y
    BY <1>4
  <2> QED
    BY <1>2, <2>1, <2>2, <2>3, NoLarger
<1> QED
  BY <1>1, <1>2, <1>3, <1>4, <1>5 DEF s

LEMMA OfFacts ==
    ASSUME NEW c \in Int, NEW E, AreEvents(E, c), NEW type
    PROVE  /\ Of(E, type) \in SUBSET E /\ AreEvents(Of(E, type), c)
           /\ \A e \in Of(E, type) : e.event_type = type
<1>1. Of(E, type) \in SUBSET E
  BY DEF Of
<1>2. IsFiniteSet(Of(E, type))
  BY <1>1, FS_Subset DEF AreEvents
<1> QED
  BY <1>1, <1>2 DEF AreEvents, Of

\* The peak of a timeline is nothing, or the balance after one of its events.
LEMMA PeakOfTimeline ==
    ASSUME NEW c \in Int, NEW E, AreEvents(E, c)
    PROVE  /\ PeakConcurrency(E) \in Nat
           /\ \A i \in 1 .. Cardinality(E) :
                 Inside(Sorted(E), i) \in Int /\ Inside(Sorted(E), i) =< PeakConcurrency(E)
           /\ PeakConcurrency(E) = 0 \/ \E i \in 1 .. Cardinality(E) :
                                            PeakConcurrency(E) = Inside(Sorted(E), i)
<1>1. PICK n \in Nat : n = Cardinality(E)
  BY FS_CardinalityType DEF AreEvents
<1> DEFINE t == Sorted(E)
           T == {0} \cup {Inside(t, i) : i \in DOMAIN t}
<1>2. DOMAIN t = 1 .. n
  BY <1>1, SortedFacts
<1>3. ASSUME NEW i \in 1 .. n
      PROVE  Inside(t, i) \in Int /\ Inside(t, i) =< n
  <2> DEFINE A == {j \in 1 .. i : t[j].event_type = "enter"}
             B == {j \in 1 .. i : t[j].event_type = "exit"}
  <2>1. A \in SUBSET (1 .. i) /\ B \in SUBSET (1 .. i)
    OBVIOUS
  <2>2. IsFiniteSet(1 .. i) /\ Cardinality(1 .. i) = i
    BY Positions
  <2>3. IsFiniteSet(A) /\ IsFiniteSet(B) /\ Cardinality(A) =< i
    BY <2>1, <2>2, FS_Subset
  <2>4. Cardinality(A) \in Nat /\ Cardinality(B) \in Nat
    BY <2>3, FS_CardinalityType
  <2>5. Inside(t, i) = Cardinality(A) - Cardinality(B)
    BY DEF Inside
  <2> HIDE DEF A, B
  <2> QED
    BY <2>3, <2>4, <2>5
<1>4. PeakConcurrency(E) = Max(T)
  BY DEF PeakConcurrency
<1>5. T \in SUBSET Int /\ T # {} /\ \A x \in T : x =< n
  BY <1>2, <1>3
<1>6. 0 \in T /\ \A i \in DOMAIN t : Inside(t, i) \in T
  OBVIOUS
<1>7. \A x \in T : x = 0 \/ \E i \in DOMAIN t : x = Inside(t, i)
  OBVIOUS
<1> HIDE DEF T
<1>8. Max(T) \in T /\ \A x \in T : x =< Max(T)
  <2>1. n \in Int
    OBVIOUS
  <2>2. T \in SUBSET Int /\ T # {}
    BY <1>5
  <2>3. \A x \in T : x =< n
    BY <1>5
  <2> QED
    BY <2>1, <2>2, <2>3, GreatestOf
<1>9. PeakConcurrency(E) \in T /\ \A x \in T : x =< PeakConcurrency(E)
  BY <1>4, <1>8, Zenon
<1>10. PeakConcurrency(E) \in Int /\ 0 =< PeakConcurrency(E)
  BY <1>5, <1>6, <1>9
<1>11. \A i \in 1 .. n : Inside(t, i) \in Int /\ Inside(t, i) =< PeakConcurrency(E)
  BY <1>2, <1>3, <1>6, <1>9
<1>12. PeakConcurrency(E) = 0 \/ \E i \in 1 .. n : PeakConcurrency(E) = Inside(t, i)
  BY <1>2, <1>7, <1>9
<1> QED
  BY <1>1, <1>10, <1>11, <1>12

\* No more visitors are inside than have entered.
LEMMA PeakIsCounted ==
    ASSUME NEW c \in Int, NEW E, AreEvents(E, c)
    PROVE  PeakConcurrency(E) =< Cardinality(Of(E, "enter"))
           /\ Cardinality(Of(E, "enter")) \in Nat
<1>1. PICK n \in Nat : n = Cardinality(E)
  BY FS_CardinalityType DEF AreEvents
<1> DEFINE t == Sorted(E)
           N == Of(E, "enter")
<1>2. IsFiniteSet(N) /\ Cardinality(N) \in Nat
  <2>1. IsFiniteSet(N)
    BY OfFacts DEF AreEvents
  <2> QED
    BY <2>1, FS_CardinalityType
<1>3. /\ \A i \in 1 .. n : t[i] \in E
      /\ \A i, j \in 1 .. n : t[i] = t[j] => i = j
  BY <1>1, SortedFacts
<1>4. ASSUME NEW i \in 1 .. n PROVE Inside(t, i) =< Cardinality(N)
  <2> DEFINE A == {j \in 1 .. i : t[j].event_type = "enter"}
             B == {j \in 1 .. i : t[j].event_type = "exit"}
             f == [j \in A |-> t[j]]
  <2>1. f \in [A -> N] /\ \A j, k \in A : f[j] = f[k] => j = k
    <3>1. A \in SUBSET (1 .. n)
      OBVIOUS
    <3>2. \A j \in A : t[j] \in N
      BY <1>3, <3>1 DEF Of
    <3> HIDE DEF A, t, N
    <3> QED
      BY <1>3, <3>1, <3>2
  <2>2. Cardinality(A) \in Nat /\ Cardinality(A) =< Cardinality(N)
    <3> HIDE DEF A, N, f
    <3> QED
      BY <1>2, <2>1, NoLarger
  <2>3. Cardinality(B) \in Nat
    <3>1. B \in SUBSET (1 .. i) /\ IsFiniteSet(1 .. i)
      BY Positions
    <3>2. IsFiniteSet(B)
      BY <3>1, FS_Subset
    <3> QED
      BY <3>2, FS_CardinalityType
  <2>4. Inside(t, i) = Cardinality(A) - Cardinality(B)
    BY DEF Inside
  <2> HIDE DEF A, B, N, t
  <2> QED
    BY <1>2, <2>2, <2>3, <2>4
<1>5. \/ PeakConcurrency(E) = 0
      \/ \E i \in 1 .. n : PeakConcurrency(E) = Inside(t, i)
  BY <1>1, PeakOfTimeline
<1> HIDE DEF t, N
<1>6. PeakConcurrency(E) =< Cardinality(N)
  BY <1>2, <1>4, <1>5
<1> QED
  BY <1>2, <1>6 DEF N

-----------------------------------------------------------------------------
(***************************************************************************)
(* Rows: a query, the highest peak, and rows that tile a window.           *)
(***************************************************************************)

\* A query finds rows of the table, of the label and in the window.
LEMMA QueryFinds ==
    ASSUME NEW T, NEW table \in Seq(T), NEW label, NEW w
    PROVE  Query(table, label, w) \in
               Seq({r \in T : w.start =< r.start /\ r.end =< w.end})
<1> DEFINE n == Len(table)
           Found(r) == r.granularity = label /\ w.start =< r.start /\ r.end =< w.end
           More(i) == IF Found(table[i]) THEN <<table[i]>> ELSE <<>>
           G == {r \in T : w.start =< r.start /\ r.end =< w.end}
           V == Seq(G)
           IsFound(f) == f = [i \in 0 .. n |-> IF i = 0 THEN <<>> ELSE f[i - 1] \o More(i)]
           g == [x \in (1 .. n) \X V |-> x[2] \o More(x[1])]
<1>1. n \in Nat /\ \A i \in 1 .. n : table[i] \in T
  BY LenProperties, ElementOfSeq
<1>2. <<>> \in V
  OBVIOUS
<1>3. ASSUME NEW i \in 1 .. n PROVE More(i) \in V
  <2>1. CASE Found(table[i])
    <3>1. table[i] \in G
      BY <1>1, <2>1
    <3> HIDE DEF G
    <3>2. <<table[i]>> \in Seq(G)
      BY <3>1
    <3> QED
      BY <2>1, <3>2
  <2>2. CASE ~Found(table[i])
    BY <2>2
  <2> QED
    BY <2>1, <2>2
<1>4. \A i \in 1 .. n, v \in V : v \o More(i) \in V
  <2> HIDE DEF G, More
  <2> QED
    BY <1>3
<1>5. g \in [(1 .. n) \X V -> V]
  <2> HIDE DEF V, More
  <2> QED
    BY <1>4
<1>6. \E f : IsFound(f)
  <2>1. PICK f : IsRun(f, V, <<>>, g, n)
    <3> HIDE DEF V, g, n
    <3> QED
      BY <1>1, <1>2, <1>5, RecursionRuns
  <2>2. ASSUME NEW i \in 1 .. n PROVE f[i] = f[i - 1] \o More(i)
    <3> HIDE DEF More, V, n
    <3>1. <<i, f[i - 1]>> \in (1 .. n) \X V
      BY <1>1, <2>1 DEF IsRun
    <3> QED
      BY <2>1, <3>1 DEF IsRun
  <2> HIDE DEF V, g, n, More
  <2>3. \A i \in 0 .. n : f[i] = IF i = 0 THEN <<>> ELSE f[i - 1] \o More(i)
    BY <1>1, <2>1, <2>2 DEF IsRun
  <2>4. f = [i \in 0 .. n |-> f[i]]
    BY <2>1 DEF IsRun
  <2>5. IsFound(f)
    BY <2>3, <2>4
  <2> QED
    BY <2>5
<1> DEFINE f == CHOOSE f : IsFound(f)
<1>7. IsFound(f)
  BY <1>6
<1>8. Query(table, label, w) = f[n]
  BY DEF Query
<1> HIDE DEF f, g, G, V, n, More
<1>9. f[0] = <<>> /\ \A i \in 1 .. n : f[i] = f[i - 1] \o More(i)
  <2>1. \A i \in 0 .. n : f[i] = IF i = 0 THEN <<>> ELSE f[i - 1] \o More(i)
    BY <1>7
  <2>2. n \in Nat
    BY <1>1
  <2>3. 0 \in 0 .. n
    BY <2>2
  <2>4. f[0] = <<>>
    BY <2>1, <2>3
  <2>5. ASSUME NEW i \in 1 .. n PROVE f[i] = f[i - 1] \o More(i)
    <3>1. i \in 0 .. n /\ i # 0
      BY <2>2
    <3> QED
      BY <2>1, <3>1
  <2> QED
    BY <2>4, <2>5
<1> DEFINE bad == {i \in 0 .. n : f[i] \notin V}
<1>10. 0 \notin bad
  BY <1>2, <1>9
<1>11. ASSUME NEW i \in 1 .. n, i - 1 \notin bad PROVE i \notin bad
  <2>1. i - 1 \in 0 .. n
    BY <1>1
  <2>2. f[i - 1] \in V
    BY <1>11, <2>1
  <2>3. f[i] = f[i - 1] \o More(i)
    BY <1>9
  <2>4. f[i - 1] \o More(i) \in V
    BY <1>4, <2>2
  <2>5. f[i] \in V
    BY <2>3, <2>4, Zenon
  <2> QED
    BY <2>5
<1>12. bad = {}
  <2>1. bad \in SUBSET (0 .. n)
    OBVIOUS
  <2> HIDE DEF bad
  <2> QED
    BY <1>1, <1>10, <1>11, <2>1, NoneBad
<1>13. n \in 0 .. n
  BY <1>1
<1> QED
  BY <1>8, <1>12, <1>13 DEF V, G

\* The highest peak is one of the rows', and none is higher.
LEMMA HighestOfRows ==
    ASSUME NEW n \in Nat \ {0}, NEW fine, DOMAIN fine = 1 .. n, NEW most \in Int,
           \A i \in 1 .. n : fine[i].peak \in Int /\ fine[i].peak =< most
    PROVE  /\ \E i \in 1 .. n : HighestPeak(fine) = fine[i].peak
           /\ \A i \in 1 .. n : fine[i].peak =< HighestPeak(fine)
<1> DEFINE T == {m.peak : m \in ToSet(fine)}
<1>1. /\ \A x \in T : \E i \in 1 .. n : x = fine[i].peak
      /\ \A i \in 1 .. n : fine[i].peak \in T
  BY DEF ToSet
<1>2. HighestPeak(fine) = Max(T)
  BY DEF HighestPeak
<1> HIDE DEF T
<1>3. T \in SUBSET Int /\ \A x \in T : x =< most
  BY <1>1
<1>4. T # {}
  <2>1. 1 \in 1 .. n
    OBVIOUS
  <2> QED
    BY <1>1, <2>1
<1>5. Max(T) \in T /\ \A x \in T : x =< Max(T)
  <2>1. \A x \in T : x =< most
    BY <1>3
  <2> QED
    BY <1>3, <1>4, <2>1, GreatestOf
<1> QED
  BY <1>1, <1>2, <1>5

\* n rows that meet end to start from lo to hi, as far as their ends tell.
Tiling(fine, n, lo, hi) ==
    /\ n \in Nat \ {0} /\ lo \in Int /\ hi \in Int
    /\ \A i \in 1 .. n : /\ fine[i].start \in Int /\ fine[i].end \in Int
                         /\ lo =< fine[i].start /\ fine[i].start < fine[i].end
                         /\ fine[i].end =< hi
    /\ Cardinality({fine[i].end : i \in 1 .. n}) = n
    /\ {hi} \cup {fine[i].start : i \in 1 .. n} = {fine[i].end : i \in 1 .. n} \cup {lo}

\* As many rows start before a point where rows meet as have ended by then: no row
\* goes on over it.
LEMMA NoneGoesOver ==
    ASSUME NEW fine, NEW n, NEW lo, NEW hi, Tiling(fine, n, lo, hi),
           NEW i \in 1 .. n, NEW k \in 1 .. n, fine[k].start < fine[i].end
    PROVE  fine[k].end =< fine[i].end
<1> DEFINE final == {fine[j].end : j \in 1 .. n}
           First == {fine[j].start : j \in 1 .. n}
           x == fine[i].end
           end == [j \in 1 .. n |-> fine[j].end]
           start == [j \in 1 .. n |-> fine[j].start]
<1>1. /\ n \in Nat /\ lo \in Int /\ hi \in Int
      /\ \A j \in 1 .. n : /\ fine[j].start \in Int /\ fine[j].end \in Int
                           /\ lo =< fine[j].start /\ fine[j].start < fine[j].end
                           /\ fine[j].end =< hi
      /\ Cardinality(final) = n /\ {hi} \cup First = final \cup {lo}
  BY DEF Tiling
<1>2. /\ end \in [1 .. n -> final] /\ \A v \in final : \E j \in 1 .. n : end[j] = v
      /\ start \in [1 .. n -> First] /\ \A v \in First : \E j \in 1 .. n : start[j] = v
      /\ \A v \in final : v \in Int /\ lo < v /\ v =< hi
      /\ \A v \in First : v \in Int /\ v < hi
      /\ x \in final
  BY <1>1
<1>3. \A j \in 1 .. n : /\ end[j] = fine[j].end /\ start[j] = fine[j].start
                        /\ end[j] \in Int /\ start[j] \in Int /\ start[j] < end[j]
  BY <1>1
<1> HIDE DEF final, First, end, start
<1>4. IsFiniteSet(final) /\ NeverTwice(end, n)
  <2>1. Covers(end, n, final)
    BY <1>2 DEF Covers
  <2> QED
    BY <1>1, <2>1, AllDifferent
<1>5. Cardinality(First) = n
  <2>1. lo \notin final /\ hi \notin First
    BY <1>2
  <2>2. IsFiniteSet(final \cup {lo}) /\ Cardinality(final \cup {lo}) = n + 1
    BY <1>1, <1>4, <2>1, FS_AddElement
  <2>3. Cardinality((final \cup {lo}) \ {hi}) = (n + 1) - 1
    <3>1. hi \in final \cup {lo}
      BY <1>1
    <3>2. Cardinality((final \cup {lo}) \ {hi}) = Cardinality(final \cup {lo}) - 1
      BY <2>2, <3>1, FS_RemoveElement
    <3> QED
      BY <2>2, <3>2
  <2>4. First = (final \cup {lo}) \ {hi}
    BY <1>1, <2>1
  <2>5. (n + 1) - 1 = n
    BY <1>1
  <2> QED
    BY <2>3, <2>4, <2>5
<1>6. IsFiniteSet(First) /\ NeverTwice(start, n)
  <2>1. Covers(start, n, First)
    BY <1>2 DEF Covers
  <2> QED
    BY <1>1, <1>5, <2>1, AllDifferent
<1> DEFINE Q == {v \in First : v < x}
           R == {v \in final : v =< x}
           A == {j \in 1 .. n : start[j] < x}
           B == {j \in 1 .. n : end[j] =< x}
<1>7. x \in Int /\ x =< hi /\ lo < x
  BY <1>2
<1>8. IsFiniteSet(Q) /\ IsFiniteSet(R) /\ IsFiniteSet(A) /\ IsFiniteSet(B)
  <2>1. Q \in SUBSET First /\ R \in SUBSET final /\ A \in SUBSET (1 .. n) /\ B \in SUBSET (1 .. n)
    OBVIOUS
  <2>2. IsFiniteSet(1 .. n)
    BY <1>1, Positions
  <2> HIDE DEF Q, R, A, B
  <2> QED
    BY <1>4, <1>6, <2>1, <2>2, FS_Subset
<1>9. Cardinality(R) = Cardinality(Q) /\ Cardinality(Q) \in Nat
  <2>1. lo \in Q /\ x \notin Q /\ x \in R
    <3>1. lo \in {hi} \cup First /\ lo # hi
      BY <1>1, <1>7
    <3>2. lo \in First
      BY <3>1
    <3> QED
      BY <1>2, <1>7, <3>2
  <2>2. R = (Q \cup {x}) \ {lo}
    <3>1. ASSUME NEW v \in R PROVE v \in (Q \cup {x}) \ {lo}
      <4>1. v \in final /\ v =< x /\ v \in Int /\ v # lo
        BY <1>1, <1>2
      <4>2. CASE v = x
        BY <4>1, <4>2
      <4>3. CASE v < x
        <5>1. v # hi /\ v \in {hi} \cup First
          BY <1>1, <1>7, <4>1, <4>3
        <5> QED
          BY <4>1, <4>3, <5>1
      <4> QED
        BY <1>7, <4>1, <4>2, <4>3
    <3>2. ASSUME NEW v \in (Q \cup {x}) \ {lo} PROVE v \in R
      <4>1. CASE v = x
        BY <2>1, <4>1
      <4>2. CASE v # x
        <5>1. v \in First /\ v < x /\ v \in Int /\ v # lo
          BY <1>2, <4>2
        <5>2. v \in final
          BY <1>1, <5>1
        <5> QED
          BY <1>7, <5>1, <5>2
      <4> QED
        BY <4>1, <4>2
    <3> HIDE DEF Q, R
    <3> QED
      BY <3>1, <3>2
  <2> HIDE DEF Q, R, x
  <2>3. PICK c \in Nat : c = Cardinality(Q)
    BY <1>8, FS_CardinalityType
  <2>4. IsFiniteSet(Q \cup {x}) /\ Cardinality(Q \cup {x}) = c + 1
    BY <1>8, <2>1, <2>3, FS_AddElement
  <2>5. lo \in Q \cup {x}
    BY <2>1
  <2>6. Cardinality((Q \cup {x}) \ {lo}) = Cardinality(Q \cup {x}) - 1
    BY <2>4, <2>5, FS_RemoveElement
  <2>7. Cardinality(R) = (c + 1) - 1
    BY <2>2, <2>4, <2>6
  <2> QED
    BY <2>3, <2>7
<1>10. Cardinality(A) =< Cardinality(Q) /\ Cardinality(A) \in Nat
  <2> DEFINE f == [j \in A |-> start[j]]
  <2>1. \A j \in A : f[j] \in Q
    BY <1>2
  <2>2. f \in [A -> Q]
    BY <2>1
  <2>3. \A j, m \in A : f[j] = f[m] => j = m
    BY <1>6 DEF NeverTwice
  <2> HIDE DEF f, A, Q
  <2> QED
    BY <1>8, <2>2, <2>3, NoLarger
<1>11. Cardinality(R) =< Cardinality(B) /\ Cardinality(B) \in Nat
  <2> DEFINE f == [v \in R |-> CHOOSE j \in 1 .. n : end[j] = v]
  <2>1. \A v \in R : \E j \in 1 .. n : end[j] = v
    BY <1>2
  <2>2. \A v \in R : f[v] \in 1 .. n /\ end[f[v]] = v
    <3> HIDE DEF R
    <3> QED
      BY <2>1
  <2>3. f \in [R -> B]
    <3>1. \A v \in R : f[v] \in B
      <4> HIDE DEF f
      <4> QED
        BY <2>2
    <3> QED
      BY <3>1
  <2>4. \A v, u \in R : f[v] = f[u] => v = u
    <3> HIDE DEF f, R
    <3> QED
      BY <2>2
  <2> HIDE DEF f, R, B
  <2> QED
    BY <1>8, <2>3, <2>4, NoLarger
<1>12. A = B
  <2>1. B \in SUBSET A
    <3> SUFFICES ASSUME NEW j \in 1 .. n, end[j] =< x PROVE start[j] < x
      OBVIOUS
    <3> QED
      BY <1>3, <1>7
  <2> HIDE DEF A, B, Q, R
  <2>2. Cardinality(B) =< Cardinality(A)
    BY <1>8, <2>1, FS_Subset
  <2>3. Cardinality(B) = Cardinality(A)
    BY <1>9, <1>10, <1>11, <2>2
  <2> QED
    BY <1>8, <2>1, <2>3, FS_Subset
<1>13. k \in A
  BY <1>3
<1>14. k \in B
  BY <1>12, <1>13
<1> QED
  BY <1>3, <1>14

\* Such rows share no more than the points where they meet, and leave no time out.
LEMMA TilesMeet ==
    ASSUME NEW fine, NEW n, NEW lo, NEW hi, Tiling(fine, n, lo, hi)
    PROVE  /\ \A i, j \in 1 .. n : i # j =>
                 \/ fine[i].end =< fine[j].start /\ fine[i].end < fine[j].end
                 \/ fine[j].end =< fine[i].start /\ fine[j].end < fine[i].end
           /\ \A t \in Int : lo =< t /\ t =< hi =>
                 \E i \in 1 .. n : fine[i].start =< t /\ t =< fine[i].end
<1> DEFINE final == {fine[j].end : j \in 1 .. n}
           First == {fine[j].start : j \in 1 .. n}
           end == [j \in 1 .. n |-> fine[j].end]
<1>1. /\ n \in Nat /\ lo \in Int /\ hi \in Int
      /\ \A j \in 1 .. n : /\ fine[j].start \in Int /\ fine[j].end \in Int
                           /\ lo =< fine[j].start /\ fine[j].start < fine[j].end
                           /\ fine[j].end =< hi
      /\ Cardinality(final) = n /\ {hi} \cup First = final \cup {lo}
      /\ n # 0
  BY DEF Tiling
<1>2. /\ end \in [1 .. n -> final] /\ \A v \in final : \E j \in 1 .. n : end[j] = v
      /\ \A j \in 1 .. n : end[j] = fine[j].end
  OBVIOUS
<1>3. NeverTwice(end, n)
  <2> HIDE DEF final, end
  <2>1. Covers(end, n, final)
    BY <1>2 DEF Covers
  <2> QED
    BY <1>1, <2>1, AllDifferent
<1>4. ASSUME NEW i \in 1 .. n, NEW j \in 1 .. n, i # j
      PROVE  \/ fine[i].end =< fine[j].start /\ fine[i].end < fine[j].end
             \/ fine[j].end =< fine[i].start /\ fine[j].end < fine[i].end
  <2>1. fine[i].end # fine[j].end
    BY <1>2, <1>3, <1>4 DEF NeverTwice
  <2>2. fine[i].start < fine[j].end => fine[i].end =< fine[j].end
    BY NoneGoesOver
  <2>3. fine[j].start < fine[i].end => fine[j].end =< fine[i].end
    BY NoneGoesOver
  <2> QED
    BY <1>1, <2>1, <2>2, <2>3
<1>5. ASSUME NEW t \in Int, lo =< t, t =< hi
      PROVE  \E i \in 1 .. n : fine[i].start =< t /\ t =< fine[i].end
  <2> DEFINE D == {v \in final : t =< v}
  <2>1. hi \in final
    <3>1. 1 \in 1 .. n
      BY <1>1
    <3>2. lo < hi
      BY <1>1, <3>1
    <3> HIDE DEF final, First
    <3> QED
      BY <1>1, <3>2
  <2>2. D \in SUBSET Int /\ D # {} /\ \A v \in D : t =< v
    BY <1>1, <1>5, <2>1
  <2>3. Min(D) \in D /\ \A v \in D : Min(D) =< v
    <3> HIDE DEF D
    <3> QED
      BY <2>2, LeastOf
  <2>4. PICK i \in 1 .. n : fine[i].end = Min(D)
    BY <2>3
  <2>5. t =< fine[i].end
    BY <2>2, <2>3, <2>4
  <2>6. ~(t < fine[i].start)
    <3> SUFFICES ASSUME t < fine[i].start PROVE FALSE
      OBVIOUS
    <3>1. fine[i].start \in First /\ fine[i].start # lo /\ fine[i].start \in Int
      BY <1>1, <1>5
    <3>2. fine[i].start \in final
      <4> HIDE DEF final, First
      <4> QED
        BY <1>1, <3>1
    <3>3. fine[i].start \in D
      BY <3>1, <3>2
    <3> HIDE DEF D
    <3> QED
      BY <1>1, <2>3, <2>4, <3>1, <3>3
  <2> QED
    BY <1>1, <2>5, <2>6
<1> QED
  BY <1>4, <1>5

=============================================================================
