-------------------------- MODULE TripTick_proofs --------------------------
(***************************************************************************)
(* The invariant of the simulation core, for every network, fleet, demand  *)
(* and sequence of intents: what every handler may count on of the city it *)
(* finds, and what it leaves for the next.                                 *)
(***************************************************************************)
EXTENDS TripTick, SequenceTheorems, FiniteSetTheorems, WellFoundedInduction, TLAPS

-----------------------------------------------------------------------------
(* Numbers: least and greatest ones, and what goes on in steps.            *)

\* A set of naturals has a smallest one.
LEMMA LeastNumber ==
  ASSUME NEW T \in SUBSET Nat, T # {}
  PROVE  \E x \in T : \A y \in T : x <= y
<1>1. PICK x \in T : \A y \in T : <<y, x>> \notin OpToRel(<, Nat)
  BY NatLessThanWellFounded, WFMin
<1>2. ASSUME NEW y \in T
      PROVE  x <= y
  <2>1. <<y, x>> \in Nat \X Nat
    OBVIOUS
  <2>2. ~(y < x)
    BY <1>1, <2>1 DEF OpToRel
  <2>3. QED
    BY <2>2
<1>3. QED
  BY <1>2

\* A set that holds 0 and with every number the next one holds them all.
LEMMA StepByStep ==
  ASSUME NEW N \in Nat, NEW T \in SUBSET (0..N), 0 \in T,
         \A n \in 1..N : n - 1 \in T => n \in T
  PROVE  \A n \in 0..N : n \in T
<1> SUFFICES ASSUME (0..N) \ T # {}
             PROVE  FALSE
  OBVIOUS
<1>1. PICK x \in (0..N) \ T : \A y \in (0..N) \ T : x <= y
  <2>1. (0..N) \ T \in SUBSET Nat
    OBVIOUS
  <2>2. QED
    BY <2>1, LeastNumber
<1>2. x \in 1..N /\ x - 1 \in 0..N
  BY <1>1
<1>3. x - 1 \in T
  BY <1>1, <1>2
<1>4. QED
  BY <1>1, <1>2, <1>3

\* A function over 0..N that goes on from a start in steps.
Iterates(g, N, base, step) ==
  \A n \in 0..N : g[n] = IF n = 0 THEN base ELSE step[<<n, g[n - 1]>>]
StepsOf(N, M) == [(1..N) \X M -> M]

\* There is one.
LEMMA Iteration ==
  ASSUME NEW M, NEW N \in Nat, NEW base \in M, NEW step \in StepsOf(N, M)
  PROVE  \E g \in [0..N -> M] : Iterates(g, N, base, step)
<1> DEFINE Goes(k, g) == \A n \in 0..k : g[n] = IF n = 0 THEN base ELSE step[<<n, g[n - 1]>>]
           T == {k \in 0..N : \E g \in [0..k -> M] : Goes(k, g)}
<1>1. 0 \in T
  <2>1. PICK g : g = [n \in 0..0 |-> base]
    OBVIOUS
  <2>2. g \in [0..0 -> M] /\ Goes(0, g)
    BY <2>1
  <2>3. QED
    BY <2>2
<1>2. ASSUME NEW n \in 1..N, n - 1 \in T
      PROVE  n \in T
  <2>1. PICK g \in [0..(n - 1) -> M] : Goes(n - 1, g)
    BY <1>2
  <2>2. PICK f : f = [i \in 0..n |-> IF i = n THEN step[<<n, g[n - 1]>>] ELSE g[i]]
    OBVIOUS
  <2>3. g[n - 1] \in M
    OBVIOUS
  <2>4. step[<<n, g[n - 1]>>] \in M
    BY <2>3 DEF StepsOf
  <2>5. \A i \in 0..n : f[i] \in M
    <3>1. TAKE i \in 0..n
    <3>2. CASE i = n
      BY <3>2, <2>2, <2>4
    <3>3. CASE i # n
      BY <3>3, <2>2
    <3>4. QED
      BY <3>2, <3>3
  <2>6. f \in [0..n -> M]
    BY <2>2, <2>5
  <2>7. Goes(n, f)
    <3>1. TAKE i \in 0..n
    <3>2. CASE i = n
      <4>1. n # 0 /\ n - 1 \in 0..n /\ n - 1 # n
        OBVIOUS
      <4>2. f[n - 1] = g[n - 1]
        BY <2>2, <4>1
      <4>3. QED
        BY <3>2, <2>2, <4>1, <4>2
    <3>3. CASE i # n
      <4>1. i \in 0..(n - 1)
        BY <3>3
      <4>2. f[i] = g[i]
        BY <2>2, <3>3
      <4>3. i # 0 => f[i - 1] = g[i - 1]
        BY <2>2, <4>1
      <4>4. QED
        BY <2>1, <4>1, <4>2, <4>3
    <3>4. QED
      BY <3>2, <3>3
  <2>8. n \in 0..N
    OBVIOUS
  <2>9. QED
    BY <2>6, <2>7, <2>8
<1>3. \A n \in 0..N : n \in T
  <2>1. T \in SUBSET (0..N)
    OBVIOUS
  <2> HIDE DEF T
  <2>2. QED
    BY <1>1, <1>2, <2>1, StepByStep
<1>4. QED
  BY <1>3 DEF Iterates

\* Whatever goes on in these steps as long as it stays in the set, stays in it.
LEMMA Recursion ==
  ASSUME NEW M, NEW N \in Nat, NEW base \in M, NEW step \in StepsOf(N, M), NEW f,
         f[0] = base, \A n \in 1..N : f[n - 1] \in M => f[n] = step[<<n, f[n - 1]>>]
  PROVE  f[N] \in M
<1> DEFINE T == {n \in 0..N : f[n] \in M}
<1>1. T \in SUBSET (0..N) /\ 0 \in T
  OBVIOUS
<1>2. ASSUME NEW n \in 1..N, n - 1 \in T
      PROVE  n \in T
  <2>1. f[n] = step[<<n, f[n - 1]>>]
    BY <1>2
  <2>2. QED
    BY <1>2, <2>1 DEF StepsOf
<1> HIDE DEF T
<1>3. \A n \in 0..N : n \in T
  BY <1>1, <1>2, StepByStep
<1>4. N \in 0..N
  OBVIOUS
<1>5. QED
  BY <1>3, <1>4 DEF T

\* A set of naturals has a minimum.
LEMMA MinFacts ==
  ASSUME NEW S \in SUBSET Nat, S # {}
  PROVE  Min(S) \in S /\ \A y \in S : Min(S) <= y
<1>1. \E x \in S : \A y \in S : x <= y
  BY LeastNumber
<1>2. QED
  BY <1>1 DEF Min

\* A set of integers with a greatest element has it as its maximum.
LEMMA MaxFacts ==
  ASSUME NEW S \in SUBSET Int, NEW m \in S, \A y \in S : m >= y
  PROVE  Max(S) \in S /\ \A y \in S : Max(S) >= y
BY DEF Max

\* A bounded set of naturals has a maximum.
LEMMA BoundedMax ==
  ASSUME NEW n \in Nat, NEW S \in SUBSET (0..n), S # {}
  PROVE  Max(S) \in S /\ \A y \in S : Max(S) >= y
<1> DEFINE T == {y \in 0..n : n - y \in S}
<1>1. T \in SUBSET Nat /\ T # {}
  <2>1. ASSUME NEW x \in S PROVE n - x \in T
    <3>1. n - (n - x) = x /\ n - x \in 0..n
      OBVIOUS
    <3>2. QED
      BY <3>1
  <2>2. T \in SUBSET Nat
    OBVIOUS
  <2> HIDE DEF T
  <2>3. QED
    BY <2>1, <2>2
<1>2. PICK t \in T : \A y \in T : t <= y
  BY <1>1, LeastNumber
<1>3. PICK x \in S : x = n - t
  BY <1>2
<1>4. ASSUME NEW y \in S PROVE x >= y
  <2>1. n - (n - y) = y /\ n - y \in 0..n
    OBVIOUS
  <2>2. n - y \in T
    BY <2>1
  <2>3. t <= n - y /\ t \in 0..n /\ y \in 0..n
    BY <1>2, <2>2
  <2> HIDE DEF T
  <2>4. QED
    BY <1>3, <2>3
<1>5. S \in SUBSET Int
  OBVIOUS
<1>6. QED
  BY <1>3, <1>4, <1>5, MaxFacts

\* The greater of two numbers.
LEMMA MaxOfTwo ==
  ASSUME NEW a \in Int, NEW b \in Int
  PROVE  Max({a, b}) \in Int /\ Max({a, b}) \in {a, b} /\ Max({a, b}) >= a /\ Max({a, b}) >= b
<1>1. {a, b} \in SUBSET Int
  OBVIOUS
<1>2. CASE a >= b
  BY <1>1, <1>2, MaxFacts
<1>3. CASE b >= a
  BY <1>1, <1>3, MaxFacts
<1>4. QED
  BY <1>2, <1>3

\* Nothing below zero is left of a number.
LEMMA FloorType ==
  ASSUME NEW n \in Int
  PROVE  Floor(n) \in Nat
BY DEF Floor

-----------------------------------------------------------------------------
(* Sums.                                                                   *)

\* The partial sums of a sequence of integers, one after the other.
LEMMA SumsFacts ==
  ASSUME NEW S \in SUBSET Int, S \in {Nat, Int}, NEW s \in Seq(S)
  PROVE  /\ SumsOf(s) \in [0..Len(s) -> S]
         /\ SumsOf(s)[0] = 0
         /\ \A n \in 1..Len(s) : SumsOf(s)[n] = SumsOf(s)[n - 1] + s[n]
<1> DEFINE N == Len(s)
           Op(n, x) == x + s[n]
           sum[n \in 0..N] == IF n = 0 THEN 0 ELSE sum[n - 1] + s[n]
<1>1. SumsOf(s) = sum
  BY DEF SumsOf
<1>2. N \in Nat /\ N \in 0..N /\ 0 \in 0..N /\ 0 \in S
  OBVIOUS
<1>3. \A n \in 1..N, x \in S : Op(n, x) \in S
  <2>1. \A n \in 1..N : s[n] \in S
    OBVIOUS
  <2>2. QED
    BY <2>1
<1>4. sum = CHOOSE f : f = [n \in 0..N |-> IF n = 0 THEN 0 ELSE Op(n, f[n - 1])]
  OBVIOUS
<1> HIDE DEF N, Op, sum
<1>5. PICK step : step = [x \in (1..N) \X S |-> Op(x[1], x[2])]
  OBVIOUS
<1>6. step \in StepsOf(N, S)
  BY <1>3, <1>5 DEF StepsOf
<1>7. PICK g \in [0..N -> S] : Iterates(g, N, 0, step)
  BY <1>2, <1>6, Iteration
<1>8. g = [n \in 0..N |-> IF n = 0 THEN 0 ELSE Op(n, g[n - 1])]
  <2>1. ASSUME NEW n \in 0..N, n # 0
        PROVE  step[<<n, g[n - 1]>>] = Op(n, g[n - 1])
    <3>1. n \in 1..N /\ n - 1 \in 0..N
      BY <1>2, <2>1
    <3>2. QED
      BY <1>5, <3>1
  <2>2. QED
    BY <1>7, <2>1 DEF Iterates
<1>9. sum = [n \in 0..N |-> IF n = 0 THEN 0 ELSE Op(n, sum[n - 1])]
  BY <1>4, <1>8
<1>10. ASSUME NEW n \in 1..N, sum[n - 1] \in S
       PROVE  sum[n] = Op(n, sum[n - 1]) /\ sum[n] \in S
  <2>1. n \in 0..N /\ n # 0
    BY <1>2
  <2>2. QED
    BY <1>3, <1>9, <1>10, <2>1
<1>11. sum[0] = 0
  BY <1>2, <1>9
<1> DEFINE T == {n \in 0..N : sum[n] \in S}
<1>12. \A n \in 0..N : n \in T
  <2>1. T \in SUBSET (0..N) /\ 0 \in T
    BY <1>2, <1>11
  <2>2. \A n \in 1..N : n - 1 \in T => n \in T
    BY <1>2, <1>10
  <2> HIDE DEF T
  <2>3. QED
    BY <1>2, <2>1, <2>2, StepByStep
<1>13. sum \in [0..N -> S]
  <2>1. \A n \in 0..N : sum[n] \in S
    BY <1>12
  <2>2. QED
    BY <1>9, <2>1
<1>14. \A n \in 1..N : sum[n] = sum[n - 1] + s[n]
  <2>1. TAKE n \in 1..N
  <2>2. n - 1 \in 0..N
    BY <1>2
  <2>3. QED
    BY <1>10, <1>13, <2>2 DEF Op
<1>15. QED
  BY <1>1, <1>11, <1>13, <1>14 DEF N

\* A sequence of numbers sums up to one.
LEMMA SumType ==
  ASSUME NEW S \in SUBSET Int, S \in {Nat, Int}, NEW s \in Seq(S)
  PROVE  Sum(s) \in S
<1>1. Len(s) \in 0..Len(s)
  OBVIOUS
<1>2. QED
  BY <1>1, SumsFacts DEF Sum

-----------------------------------------------------------------------------
(* Ranks: a finite set in ascending order, and the first few of a queue.   *)

StrictOrder(S, R) ==
  /\ \A x \in S : <<x, x>> \notin R
  /\ \A x, y \in S : x # y => <<x, y>> \in R \/ <<y, x>> \in R
  /\ \A x, y, z \in S : <<x, y>> \in R /\ <<y, z>> \in R => <<x, z>> \in R
CountsBelow(S, R, rank) == \A x \in S : rank[x] = Cardinality({e \in S : <<e, x>> \in R})
Numbers(S, rank) ==
  /\ \A x \in S : rank[x] \in 0..(Cardinality(S) - 1)
  /\ \A x, y \in S : rank[x] = rank[y] => x = y
  /\ \A n \in 0..(Cardinality(S) - 1) : \E x \in S : rank[x] = n

\* In a finite set under a strict total order, counting the elements before each one
\* numbers them from 0 on.
LEMMA RankIsBijection ==
  ASSUME NEW S, IsFiniteSet(S), NEW R, StrictOrder(S, R), NEW rank, CountsBelow(S, R, rank)
  PROVE  Numbers(S, rank)
<1> DEFINE below(x) == {e \in S : <<e, x>> \in R}
           f == [x \in S |-> rank[x]]
           T == 0..(Cardinality(S) - 1)
<1>0. Cardinality(S) \in Nat
  BY FS_CardinalityType
<1>1. \A x \in S : IsFiniteSet(below(x)) /\ Cardinality(below(x)) \in Nat
  BY FS_Subset, FS_CardinalityType
<1>2. ASSUME NEW x \in S PROVE Cardinality(below(x)) < Cardinality(S)
  <2>1. below(x) \in SUBSET S /\ below(x) # S
    BY DEF StrictOrder
  <2>2. Cardinality(below(x)) <= Cardinality(S) /\ Cardinality(below(x)) # Cardinality(S)
    BY <2>1, FS_Subset
  <2>4. Cardinality(below(x)) \in Nat
    BY <1>1
  <2> HIDE DEF below
  <2>3. QED
    BY <1>0, <2>4, <2>2
<1>3. ASSUME NEW x \in S, NEW y \in S, <<x, y>> \in R
      PROVE  Cardinality(below(x)) < Cardinality(below(y))
  <2>1. below(x) \in SUBSET below(y) /\ x \in below(y) /\ x \notin below(x)
    BY <1>3 DEF StrictOrder
  <2>2. below(x) # below(y)
    BY <2>1
  <2>3. Cardinality(below(x)) <= Cardinality(below(y))
        /\ Cardinality(below(x)) # Cardinality(below(y))
    BY <1>1, <2>1, <2>2, FS_Subset
  <2>5. Cardinality(below(x)) \in Nat /\ Cardinality(below(y)) \in Nat
    BY <1>1
  <2> HIDE DEF below
  <2>4. QED
    BY <2>5, <2>3
<1>a. \A x \in S : rank[x] = Cardinality(below(x))
  BY DEF CountsBelow
<1> HIDE DEF below
<1>4. \A x \in S : rank[x] \in T
  <2>1. ASSUME NEW x \in S PROVE rank[x] \in T
    <3>1. rank[x] \in Nat /\ rank[x] < Cardinality(S)
      BY <1>a, <1>1, <1>2
    <3>2. QED
      BY <1>0, <3>1
  <2>2. QED
    BY <2>1
<1>5. \A x, y \in S : rank[x] = rank[y] => x = y
  <2>1. ASSUME NEW x \in S, NEW y \in S, x # y PROVE rank[x] # rank[y]
    <3>1. CASE <<x, y>> \in R
      BY <1>a, <1>1, <1>3, <3>1
    <3>2. CASE <<y, x>> \in R
      BY <1>a, <1>1, <1>3, <3>2
    <3>3. QED
      BY <2>1, <3>1, <3>2 DEF StrictOrder
  <2>2. QED
    BY <2>1
<1>6. f \in Injection(S, T)
  BY <1>4, <1>5 DEF Injection, IsInjective
<1>7. IsFiniteSet(T) /\ Cardinality(T) = Cardinality(S)
  <2>1. 0 \in Int /\ Cardinality(S) - 1 \in Int
    BY <1>0
  <2>2. IsFiniteSet(T) /\ Cardinality(T) = IF 0 > Cardinality(S) - 1 THEN 0 ELSE (Cardinality(S) - 1) - 0 + 1
    BY <2>1, FS_Interval
  <2>3. QED
    BY <1>0, <2>2
<1>8. f \in Surjection(S, T)
  BY <1>6, <1>7, FS_Injection
<1>9. \A n \in T : \E x \in S : rank[x] = n
  BY <1>8 DEF Surjection
<1>10. QED
  BY <1>4, <1>5, <1>9 DEF Numbers

\* A finite set of numbers, in ascending order, is a sequence of all of them without
\* repetition.
LEMMA AscendingFacts ==
  ASSUME NEW S \in SUBSET Nat, IsFiniteSet(S)
  PROVE  /\ Cardinality(S) \in Nat /\ Ascending(S) \in Seq(S) /\ Len(Ascending(S)) = Cardinality(S)
         /\ \A i \in 1..Cardinality(S) : Ascending(S)[i] \in S
         /\ \A i, j \in 1..Cardinality(S) : Ascending(S)[i] = Ascending(S)[j] => i = j
         /\ \A x \in S : \E i \in 1..Cardinality(S) : Ascending(S)[i] = x
<1> DEFINE R == {p \in S \X S : p[1] < p[2]}
           rank == [x \in S |-> Cardinality({y \in S : <<y, x>> \in R})]
           N == Cardinality(S)
<1>1. N \in Nat
  BY FS_CardinalityType
<1>2. \A x, y \in S : <<x, y>> \in R <=> x < y
  OBVIOUS
<1> HIDE DEF R
<1>3. StrictOrder(S, R)
  BY <1>2 DEF StrictOrder
<1>4. CountsBelow(S, R, rank)
  BY DEF CountsBelow
<1>5. \A x \in S : rank[x] = Cardinality({y \in S : y < x})
  <2>1. TAKE x \in S
  <2>2. {y \in S : <<y, x>> \in R} = {y \in S : y < x}
    BY <1>2
  <2>3. QED
    BY <2>2
<1> HIDE DEF rank
<1>6. Numbers(S, rank)
  BY <1>3, <1>4, RankIsBijection
<1>7. ASSUME NEW i \in 1..N
      PROVE  Ascending(S)[i] \in S /\ rank[Ascending(S)[i]] = i - 1
  <2>1. i - 1 \in 0..(N - 1)
    BY <1>1
  <2>2. \E x \in S : Cardinality({y \in S : y < x}) = i - 1
    BY <1>5, <1>6, <2>1 DEF Numbers
  <2>3. Ascending(S)[i] = CHOOSE x \in S : Cardinality({y \in S : y < x}) = i - 1
    BY DEF Ascending
  <2> DEFINE P(x) == Cardinality({y \in S : y < x}) = i - 1
  <2>4. Ascending(S)[i] \in S /\ P(Ascending(S)[i])
    <3>1. \E x \in S : P(x)
      BY <2>2
    <3>2. Ascending(S)[i] = CHOOSE x \in S : P(x)
      BY <2>3
    <3> HIDE DEF P
    <3>3. QED
      BY <3>1, <3>2
  <2>5. QED
    BY <1>5, <2>4
<1>8. Ascending(S) \in [1..N -> S]
  <2>1. Ascending(S) = [i \in 1..N |-> Ascending(S)[i]]
    BY DEF Ascending
  <2>2. QED
    BY <1>7, <2>1
<1>9. Ascending(S) \in Seq(S) /\ Len(Ascending(S)) = N
  BY <1>1, <1>8
<1>10. \A i, j \in 1..N : Ascending(S)[i] = Ascending(S)[j] => i = j
  <2>1. TAKE i, j \in 1..N
  <2>2. rank[Ascending(S)[i]] = i - 1 /\ rank[Ascending(S)[j]] = j - 1
    BY <1>7
  <2>3. QED
    BY <1>1, <2>2
<1>11. \A x \in S : \E i \in 1..N : Ascending(S)[i] = x
  <2>1. TAKE x \in S
  <2>2. rank[x] \in 0..(N - 1)
    BY <1>6 DEF Numbers
  <2>3. rank[x] + 1 \in 1..N /\ (rank[x] + 1) - 1 = rank[x]
    BY <1>1, <2>2
  <2>4. Ascending(S)[rank[x] + 1] \in S /\ rank[Ascending(S)[rank[x] + 1]] = rank[x]
    BY <1>7, <2>3
  <2>5. Ascending(S)[rank[x] + 1] = x
    BY <1>6, <2>4 DEF Numbers
  <2>6. QED
    BY <2>3, <2>5
<1>12. QED
  BY <1>1, <1>7, <1>9, <1>10, <1>11

\* The first n of a queue are at most n.
LEMMA FirstOfFacts ==
  ASSUME NEW n \in Nat, NEW c, NEW S \in SUBSET Nat, IsFiniteSet(S), \A t \in S : c.trips[t].patience \in Int
  PROVE  FirstOf(n, S, c) \subseteq S /\ IsFiniteSet(FirstOf(n, S, c)) /\ Cardinality(FirstOf(n, S, c)) <= n
<1> DEFINE R == {p \in S \X S : Ahead(c, p[1], p[2])}
           rank == [x \in S |-> Cardinality({y \in S : <<y, x>> \in R})]
           F == FirstOf(n, S, c)
<1>1. \A x, y \in S : <<x, y>> \in R <=> Ahead(c, x, y)
  OBVIOUS
<1> HIDE DEF R
<1>2. StrictOrder(S, R)
  BY <1>1 DEF StrictOrder, Ahead
<1>3. CountsBelow(S, R, rank)
  BY DEF CountsBelow
<1>4. \A x \in S : rank[x] = Cardinality({y \in S : Ahead(c, y, x)})
  <2>1. TAKE x \in S
  <2>2. {y \in S : <<y, x>> \in R} = {y \in S : Ahead(c, y, x)}
    BY <1>1
  <2>3. QED
    BY <2>2
<1> HIDE DEF rank
<1>5. Numbers(S, rank)
  BY <1>2, <1>3, RankIsBijection
<1>6. F \subseteq S /\ \A t \in F : rank[t] < n
  BY <1>4 DEF FirstOf
<1>7. IsFiniteSet(F)
  BY <1>6, FS_Subset
<1> HIDE DEF F
<1>8. Cardinality(S) \in Nat
  BY FS_CardinalityType
<1> DEFINE f == [t \in F |-> rank[t]]
<1>9. f \in Injection(F, 0..(n - 1))
  <2>1. \A t \in F : rank[t] \in 0..(n - 1)
    BY <1>5, <1>6, <1>8 DEF Numbers
  <2>2. \A x, y \in F : rank[x] = rank[y] => x = y
    BY <1>5, <1>6 DEF Numbers
  <2>3. QED
    BY <2>1, <2>2 DEF Injection, IsInjective
<1>10. IsFiniteSet(0..(n - 1)) /\ Cardinality(0..(n - 1)) = n
  <2>1. 0 \in Int /\ n - 1 \in Int
    OBVIOUS
  <2>2. IsFiniteSet(0..(n - 1)) /\ Cardinality(0..(n - 1)) = IF 0 > n - 1 THEN 0 ELSE (n - 1) - 0 + 1
    BY <2>1, FS_Interval
  <2>3. QED
    BY <2>2
<1>11. Cardinality(F) <= Cardinality(0..(n - 1))
  BY <1>9, <1>10, FS_Injection
<1>12. QED
  BY <1>6, <1>7, <1>10, <1>11 DEF F

-----------------------------------------------------------------------------
(* Itineraries.                                                            *)

Position == Int \X Int
Path == Seq(Nat \ {0})

\* What every itinerary is: a cycle of at least two legs, the first of them a ride,
\* and every ride takes time.
ItineraryLeg == [kind : {"service", "reversal"}, from : DOMAIN Where, to : DOMAIN Where, steps : Path]
Itinerary(legs) ==
  /\ legs \in Seq(ItineraryLeg)
  /\ Len(legs) >= 2 /\ legs[1].kind = "service"
  /\ \A i \in DOMAIN legs : legs[i].kind = "service" => legs[i].steps # <<>>

\* Where a ride departs, the service leg before it arrives.
Connected(legs) ==
  \A j \in ServiceVisits(legs) : /\ PreviousServiceLeg(legs, j) \in ServiceVisits(legs)
                                 /\ legs[PreviousServiceLeg(legs, j)].to = legs[j].from

\* The service leg before j is the greatest below it, or the last one if there is none.
LEMMA PreviousBelow ==
  ASSUME NEW legs, ServiceVisits(legs) \subseteq Int, NEW j \in Int, NEW m \in ServiceVisits(legs),
         m < j, \A k \in ServiceVisits(legs) : k < j => k <= m
  PROVE  PreviousServiceLeg(legs, j) = m
<1> DEFINE before == {k \in ServiceVisits(legs) : k < j}
<1>1. m \in before /\ before \in SUBSET Int /\ \A k \in before : m >= k
  OBVIOUS
<1>2. PreviousServiceLeg(legs, j) = Max(before)
  BY <1>1 DEF PreviousServiceLeg
<1> HIDE DEF before
<1>3. Max(before) \in before /\ Max(before) >= m
  BY <1>1, MaxFacts
<1>4. m >= Max(before) /\ Max(before) \in Int /\ m \in Int
  BY <1>1, <1>3
<1> HIDE DEF before
<1>5. QED
  BY <1>2, <1>3, <1>4

\* Before the first service leg comes the last one.
LEMMA PreviousAround ==
  ASSUME NEW legs, ServiceVisits(legs) \subseteq Int, NEW j \in Int, NEW m \in ServiceVisits(legs),
         \A k \in ServiceVisits(legs) : ~(k < j) /\ k <= m
  PROVE  PreviousServiceLeg(legs, j) = m
<1>1. PreviousServiceLeg(legs, j) = Max(ServiceVisits(legs))
  BY DEF PreviousServiceLeg
<1>2. ServiceVisits(legs) \in SUBSET Int /\ \A k \in ServiceVisits(legs) : m >= k
  OBVIOUS
<1>3. Max(ServiceVisits(legs)) \in ServiceVisits(legs) /\ Max(ServiceVisits(legs)) >= m
  BY <1>2, MaxFacts
<1>4. QED
  BY <1>1, <1>2, <1>3

\* Leg i of a loop goes from its stop i to the next one, along a path that exists.
LEMMA LoopLegsFacts ==
  ASSUME NEW ids \in Seq(DOMAIN Where), Len(ids) >= 2, PathsExist(LoopLegs(ids))
  PROVE  /\ LoopLegs(ids) \in Seq([kind : {"service"}, from : DOMAIN Where, to : DOMAIN Where, steps : Path])
         /\ Len(LoopLegs(ids)) = Len(ids)
         /\ \A i \in 1..Len(ids) :
              /\ LoopLegs(ids)[i].kind = "service" /\ LoopLegs(ids)[i].steps # <<>>
              /\ LoopLegs(ids)[i].from = ids[i] /\ LoopLegs(ids)[i].to = ids[Around(ids, i + 1)]
<1> DEFINE legs == LoopLegs(ids)
<1>1. legs = [i \in 1..Len(ids) |-> ServiceLeg(ids[i], ids[Around(ids, i + 1)])]
  BY DEF LoopLegs
<1>2. Len(ids) \in Nat /\ DOMAIN legs = 1..Len(ids)
  BY <1>1
<1>3. ASSUME NEW i \in 1..Len(ids)
      PROVE  /\ legs[i] \in [kind : {"service"}, from : DOMAIN Where, to : DOMAIN Where, steps : Path]
             /\ legs[i].kind = "service" /\ legs[i].steps # <<>>
             /\ legs[i].from = ids[i] /\ legs[i].to = ids[Around(ids, i + 1)]
  <2>1. Around(ids, i + 1) \in 1..Len(ids)
    BY <1>2 DEF Around
  <2>2. legs[i] = ServiceLeg(ids[i], ids[Around(ids, i + 1)])
    BY <1>1
  <2> HIDE DEF legs
  <2>3. /\ legs[i].kind = "service" /\ legs[i].from = ids[i] /\ legs[i].to = ids[Around(ids, i + 1)]
        /\ legs[i].steps = StepSeconds[<<legs[i].from, legs[i].to>>]
    BY <2>2 DEF ServiceLeg
  <2>4. <<legs[i].from, legs[i].to>> \in DOMAIN StepSeconds
    BY <1>2, <2>3 DEF PathsExist, legs
  <2>5. legs[i].steps \in Path /\ legs[i].steps # <<>>
    BY <2>3, <2>4, RouterAssumption DEF RouterAssumption, Path
  <2>6. ids[i] \in DOMAIN Where /\ ids[Around(ids, i + 1)] \in DOMAIN Where
    BY <2>1
  <2>7. QED
    BY <2>2, <2>3, <2>5, <2>6 DEF ServiceLeg
<1> DEFINE Leg == [kind : {"service"}, from : DOMAIN Where, to : DOMAIN Where, steps : Path]
<1> HIDE DEF Leg
<1>4. legs \in [1..Len(ids) -> Leg]
  <2>1. \A i \in 1..Len(ids) : legs[i] \in Leg
    BY <1>3 DEF Leg
  <2>2. legs = [i \in 1..Len(ids) |-> legs[i]]
    BY <1>1
  <2> HIDE DEF legs
  <2>3. QED
    BY <2>1, <2>2
<1>5. legs \in Seq(Leg) /\ Len(legs) = Len(ids)
  BY <1>2, <1>4
<1>6. QED
  BY <1>3, <1>5 DEF Leg

\* A loop is an itinerary whose service legs follow one another.
LEMMA LoopConnects ==
  ASSUME NEW ids \in Seq(DOMAIN Where), Len(ids) >= 2, PathsExist(LoopLegs(ids))
  PROVE  Itinerary(LoopLegs(ids)) /\ Connected(LoopLegs(ids))
<1> DEFINE legs == LoopLegs(ids)
<1>1. PICK n \in Nat : n = Len(ids) /\ n >= 2
  OBVIOUS
<1>2. /\ legs \in Seq([kind : {"service"}, from : DOMAIN Where, to : DOMAIN Where, steps : Path])
      /\ Len(legs) = n
      /\ \A i \in 1..n : /\ legs[i].kind = "service" /\ legs[i].steps # <<>>
                         /\ legs[i].from = ids[i] /\ legs[i].to = ids[Around(ids, i + 1)]
  BY <1>1, LoopLegsFacts
<1> HIDE DEF legs
<1>3. DOMAIN legs = 1..n
  BY <1>2
<1>4. ServiceVisits(legs) = 1..n
  BY <1>2, <1>3 DEF ServiceVisits
<1>5. Itinerary(legs)
  <2>1. legs \in Seq(ItineraryLeg)
    <3>1. [kind : {"service"}, from : DOMAIN Where, to : DOMAIN Where, steps : Path] \subseteq ItineraryLeg
      BY DEF ItineraryLeg
    <3>2. \A i \in 1..n : legs[i] \in ItineraryLeg
      <4>1. TAKE i \in 1..n
      <4>2. legs[i] \in [kind : {"service"}, from : DOMAIN Where, to : DOMAIN Where, steps : Path]
        BY <1>2, <4>1, ElementOfSeq
      <4>3. QED
        BY <3>1, <4>2
    <3> HIDE DEF legs
    <3>3. QED
      BY <1>2, <3>2
  <2>2. Len(legs) >= 2 /\ legs[1].kind = "service"
    BY <1>1, <1>2
  <2>3. QED
    BY <1>2, <1>3, <2>1, <2>2 DEF Itinerary
<1>6. ASSUME NEW j \in 1..n
      PROVE  /\ PreviousServiceLeg(legs, j) \in 1..n
             /\ legs[PreviousServiceLeg(legs, j)].to = legs[j].from
  <2>1. CASE j = 1
    <3>0. ServiceVisits(legs) \subseteq Int /\ n \in ServiceVisits(legs)
          /\ \A k \in ServiceVisits(legs) : ~(k < 1) /\ k <= n
      BY <1>1, <1>4
    <3>1. PreviousServiceLeg(legs, j) = n
      BY <2>1, <3>0, PreviousAround
    <3>2. Around(ids, n + 1) = 1
      BY <1>1 DEF Around
    <3>3. QED
      BY <1>1, <1>2, <2>1, <3>1, <3>2
  <2>2. CASE j # 1
    <3>1. j - 1 \in 1..n
      BY <2>2
    <3>0. ServiceVisits(legs) \subseteq Int /\ j - 1 \in ServiceVisits(legs) /\ j \in Int /\ j - 1 < j
          /\ \A k \in ServiceVisits(legs) : k < j => k <= j - 1
      BY <1>4, <3>1
    <3>2. PreviousServiceLeg(legs, j) = j - 1
      BY <3>0, PreviousBelow
    <3>3. Around(ids, (j - 1) + 1) = j
      BY <1>1 DEF Around
    <3>4. QED
      BY <1>2, <3>1, <3>2, <3>3
  <2>3. QED
    BY <2>1, <2>2
<1>7. QED
  BY <1>4, <1>5, <1>6 DEF Connected, legs

\* The legs of a shuttle by their place: out, the reversal, back, the reversal.
LEMMA ShuttleLegsFacts ==
  ASSUME NEW ids \in Seq(DOMAIN Where), NEW n \in Nat, n = Len(ids), n >= 2, PathsExist(ShuttleLegs(ids))
  PROVE  /\ ShuttleLegs(ids) \in Seq(ItineraryLeg)
         /\ Len(ShuttleLegs(ids)) = 2 * n
         /\ ServiceVisits(ShuttleLegs(ids)) = (1..(2 * n)) \ {n, 2 * n}
         /\ \A i \in 1..(2 * n) : i \notin {n, 2 * n} => ShuttleLegs(ids)[i].steps # <<>>
         /\ \A i \in 1..(n - 1) : /\ ShuttleLegs(ids)[i].from = ids[i]
                                  /\ ShuttleLegs(ids)[i].to = ids[i + 1]
         /\ \A i \in (n + 1)..(2 * n - 1) : /\ ShuttleLegs(ids)[i].from = ids[2 * n + 1 - i]
                                            /\ ShuttleLegs(ids)[i].to = ids[2 * n - i]
<1> DEFINE legs == ShuttleLegs(ids)
<1>1. legs = [i \in 1..(2 * n) |->
         IF i < n THEN ServiceLeg(ids[i], ids[i + 1])
         ELSE IF i = n THEN TerminalReversal(ids[n])
         ELSE IF i < 2 * n THEN ServiceLeg(ids[2 * n + 1 - i], ids[2 * n - i])
         ELSE TerminalReversal(ids[1])]
  BY DEF ShuttleLegs
<1>2. DOMAIN legs = 1..(2 * n) /\ \A i \in 1..n : ids[i] \in DOMAIN Where
  BY <1>1
<1> HIDE DEF legs
<1>3. ASSUME NEW i \in 1..(2 * n), NEW a \in DOMAIN Where, NEW b \in DOMAIN Where, legs[i] = ServiceLeg(a, b)
      PROVE  /\ legs[i] \in ItineraryLeg /\ legs[i].kind = "service" /\ legs[i].steps # <<>>
             /\ legs[i].from = a /\ legs[i].to = b
  <2>1. /\ legs[i].kind = "service" /\ legs[i].from = a /\ legs[i].to = b
        /\ legs[i].steps = StepSeconds[<<a, b>>]
    BY <1>3 DEF ServiceLeg
  <2>2. <<a, b>> \in DOMAIN StepSeconds
    BY <1>2, <2>1 DEF PathsExist, legs
  <2>3. legs[i].steps \in Path /\ legs[i].steps # <<>>
    BY <2>1, <2>2, RouterAssumption DEF RouterAssumption, Path
  <2>4. QED
    BY <1>3, <2>1, <2>3 DEF ServiceLeg, ItineraryLeg
<1>4. ASSUME NEW i \in 1..(2 * n), NEW a \in DOMAIN Where, legs[i] = TerminalReversal(a)
      PROVE  legs[i] \in ItineraryLeg /\ legs[i].kind = "reversal"
  <2>1. legs[i].kind = "reversal" /\ legs[i].from = a /\ legs[i].steps = TurnSeconds[a]
    BY <1>4 DEF TerminalReversal
  <2>2. a \in DOMAIN TurnSeconds
    BY <1>2, <2>1 DEF PathsExist, legs
  <2>3. legs[i].steps \in Path
    BY <2>1, <2>2, RouterAssumption DEF RouterAssumption, Path
  <2>4. QED
    BY <1>4, <2>1, <2>3 DEF TerminalReversal, ItineraryLeg
<1>5. ASSUME NEW i \in 1..(n - 1)
      PROVE  /\ legs[i] \in ItineraryLeg /\ legs[i].kind = "service" /\ legs[i].steps # <<>>
             /\ legs[i].from = ids[i] /\ legs[i].to = ids[i + 1]
  <2>1. i \in 1..(2 * n) /\ i \in 1..n /\ i + 1 \in 1..n /\ i < n
    OBVIOUS
  <2>2. legs[i] = ServiceLeg(ids[i], ids[i + 1])
    BY <1>1, <2>1
  <2>3. QED
    BY <1>2, <1>3, <2>1, <2>2
<1>6. ASSUME NEW i \in (n + 1)..(2 * n - 1)
      PROVE  /\ legs[i] \in ItineraryLeg /\ legs[i].kind = "service" /\ legs[i].steps # <<>>
             /\ legs[i].from = ids[2 * n + 1 - i] /\ legs[i].to = ids[2 * n - i]
  <2>1. /\ i \in 1..(2 * n) /\ 2 * n + 1 - i \in 1..n /\ 2 * n - i \in 1..n
        /\ ~(i < n) /\ i # n /\ i < 2 * n
    OBVIOUS
  <2>2. legs[i] = ServiceLeg(ids[2 * n + 1 - i], ids[2 * n - i])
    BY <1>1, <2>1
  <2>3. QED
    BY <1>2, <1>3, <2>1, <2>2
<1>7. legs[n] \in ItineraryLeg /\ legs[n].kind = "reversal"
  <2>1. n \in 1..(2 * n) /\ n \in 1..n /\ legs[n] = TerminalReversal(ids[n])
    BY <1>1
  <2>2. QED
    BY <1>2, <1>4, <2>1
<1>8. legs[2 * n] \in ItineraryLeg /\ legs[2 * n].kind = "reversal"
  <2>1. 2 * n \in 1..(2 * n) /\ 1 \in 1..n /\ legs[2 * n] = TerminalReversal(ids[1])
    BY <1>1
  <2>2. QED
    BY <1>2, <1>4, <2>1
<1>9. \A i \in 1..(2 * n) :
        /\ legs[i] \in ItineraryLeg /\ (legs[i].kind = "service" <=> i \notin {n, 2 * n})
        /\ (i \notin {n, 2 * n} => legs[i].steps # <<>>)
  <2>1. TAKE i \in 1..(2 * n)
  <2>2. i \in 1..(n - 1) \/ i = n \/ i \in (n + 1)..(2 * n - 1) \/ i = 2 * n
    OBVIOUS
  <2>3. CASE i \in 1..(n - 1)
    BY <2>3, <1>5
  <2>4. CASE i \in (n + 1)..(2 * n - 1)
    BY <2>4, <1>6
  <2>5. CASE i = n \/ i = 2 * n
    BY <2>5, <1>7, <1>8
  <2>6. QED
    BY <2>2, <2>3, <2>4, <2>5
<1>10. legs \in Seq(ItineraryLeg) /\ Len(legs) = 2 * n
  <2>1. legs = [i \in 1..(2 * n) |-> legs[i]] /\ 2 * n \in Nat
    BY <1>1
  <2>2. legs \in [1..(2 * n) -> ItineraryLeg]
    BY <1>9, <2>1
  <2>3. QED
    BY <2>1, <2>2
<1>11. ServiceVisits(legs) = (1..(2 * n)) \ {n, 2 * n}
  BY <1>2, <1>9 DEF ServiceVisits
<1>12. QED
  BY <1>5, <1>6, <1>9, <1>10, <1>11 DEF legs

\* So is a shuttle, there and back, with the turns between.
LEMMA ShuttleConnects ==
  ASSUME NEW ids \in Seq(DOMAIN Where), Len(ids) >= 2, PathsExist(ShuttleLegs(ids))
  PROVE  Itinerary(ShuttleLegs(ids)) /\ Connected(ShuttleLegs(ids))
<1> DEFINE legs == ShuttleLegs(ids)
<1>1. PICK n \in Nat : n = Len(ids) /\ n >= 2
  OBVIOUS
<1>2. /\ legs \in Seq(ItineraryLeg) /\ Len(legs) = 2 * n
      /\ ServiceVisits(legs) = (1..(2 * n)) \ {n, 2 * n}
      /\ \A i \in 1..(2 * n) : i \notin {n, 2 * n} => legs[i].steps # <<>>
      /\ \A i \in 1..(n - 1) : legs[i].from = ids[i] /\ legs[i].to = ids[i + 1]
      /\ \A i \in (n + 1)..(2 * n - 1) : legs[i].from = ids[2 * n + 1 - i] /\ legs[i].to = ids[2 * n - i]
  BY <1>1, ShuttleLegsFacts
<1> HIDE DEF legs
<1>3. DOMAIN legs = 1..(2 * n)
  BY <1>2
<1>4. Itinerary(legs)
  <2>1. \A i \in DOMAIN legs : legs[i].kind = "service" => i \in ServiceVisits(legs)
    BY DEF ServiceVisits
  <2>2. 1 \in ServiceVisits(legs) /\ 2 * n >= 2
    BY <1>1, <1>2
  <2>3. legs[1].kind = "service"
    BY <2>2 DEF ServiceVisits
  <2>4. QED
    BY <1>2, <1>3, <2>1, <2>2, <2>3 DEF Itinerary
<1>5. ASSUME NEW j \in ServiceVisits(legs)
      PROVE  /\ PreviousServiceLeg(legs, j) \in ServiceVisits(legs)
             /\ legs[PreviousServiceLeg(legs, j)].to = legs[j].from
  <2>a. ServiceVisits(legs) = (1..(2 * n)) \ {n, 2 * n}
    BY <1>2
  <2>0. ServiceVisits(legs) \subseteq Int /\ j \in Int
    BY <2>a
  <2>1. CASE j = 1
    <3>1. /\ 2 * n - 1 \in ServiceVisits(legs) /\ 2 * n - 1 \in (n + 1)..(2 * n - 1)
          /\ \A k \in ServiceVisits(legs) : ~(k < j) /\ k <= 2 * n - 1
      BY <1>1, <2>a, <2>1
    <3>2. PreviousServiceLeg(legs, j) = 2 * n - 1
      BY <2>0, <3>1, PreviousAround
    <3>3. 2 * n - (2 * n - 1) = 1 /\ 1 \in 1..(n - 1)
      BY <1>1
    <3>4. legs[2 * n - 1].to = ids[1] /\ legs[1].from = ids[1]
      BY <1>2, <3>1, <3>3
    <3>5. QED
      BY <2>1, <3>1, <3>2, <3>4
  <2>2. CASE j \in 2..(n - 1)
    <3>1. j - 1 \in ServiceVisits(legs) /\ j - 1 \in 1..(n - 1) /\ (j - 1) + 1 = j /\ j \in 1..(n - 1)
      BY <1>1, <1>2, <2>2
    <3>2. PreviousServiceLeg(legs, j) = j - 1
      <4>1. j - 1 < j /\ \A k \in ServiceVisits(legs) : k < j => k <= j - 1
        BY <2>0
      <4>2. QED
        BY <2>0, <3>1, <4>1, PreviousBelow
    <3>3. legs[j - 1].to = ids[(j - 1) + 1] /\ legs[j].from = ids[j]
      BY <1>2, <3>1
    <3>4. QED
      BY <3>1, <3>2, <3>3
  <2>3. CASE j = n + 1
    <3>1. n - 1 \in ServiceVisits(legs) /\ n - 1 \in 1..(n - 1) /\ (n - 1) + 1 = n
      BY <1>1, <1>2
    <3>2. PreviousServiceLeg(legs, j) = n - 1
      <4>1. n - 1 < j /\ \A k \in ServiceVisits(legs) : k < j => k <= n - 1
        BY <1>2, <2>0, <2>3
      <4>2. QED
        BY <2>0, <3>1, <4>1, PreviousBelow
    <3>3. 2 * n + 1 - j = n /\ j \in (n + 1)..(2 * n - 1)
      BY <1>1, <2>3
    <3>4. legs[n - 1].to = ids[(n - 1) + 1] /\ legs[j].from = ids[2 * n + 1 - j]
      BY <1>2, <3>1, <3>3
    <3>5. QED
      BY <3>1, <3>2, <3>3, <3>4
  <2>4. CASE j \in (n + 2)..(2 * n - 1)
    <3>1. /\ j - 1 \in ServiceVisits(legs) /\ j - 1 \in (n + 1)..(2 * n - 1)
          /\ 2 * n - (j - 1) = 2 * n + 1 - j /\ j \in (n + 1)..(2 * n - 1)
      BY <1>1, <1>2, <2>4
    <3>2. PreviousServiceLeg(legs, j) = j - 1
      <4>1. j - 1 < j /\ \A k \in ServiceVisits(legs) : k < j => k <= j - 1
        BY <2>0
      <4>2. QED
        BY <2>0, <3>1, <4>1, PreviousBelow
    <3>3. legs[j - 1].to = ids[2 * n - (j - 1)] /\ legs[j].from = ids[2 * n + 1 - j]
      BY <1>2, <3>1
    <3>4. QED
      BY <3>1, <3>2, <3>3
  <2>5. j = 1 \/ j \in 2..(n - 1) \/ j = n + 1 \/ j \in (n + 2)..(2 * n - 1)
    BY <1>1, <2>a
  <2>6. QED
    BY <2>1, <2>2, <2>3, <2>4, <2>5
<1>6. QED
  BY <1>4, <1>5 DEF Connected, legs

\* Every line runs such an itinerary.
LEMMA LegsFacts ==
  ASSUME NEW p \in Patterns
  PROVE  Itinerary(Legs[p]) /\ Connected(Legs[p])
<1>1. /\ p.kind \in {"loop", "shuttle"} /\ p.stops \in Seq(DOMAIN Where) /\ Len(p.stops) >= 2
      /\ PathsExist(ServiceItinerary(p)) /\ Legs[p] = ServiceItinerary(p)
  BY TripTickAssumption DEF TripTickAssumption, Legs
<1>2. CASE p.kind = "loop"
  <2>1. ServiceItinerary(p) = LoopLegs(p.stops)
    BY <1>2 DEF ServiceItinerary
  <2>2. QED
    BY <1>1, <2>1, LoopConnects
<1>3. CASE p.kind # "loop"
  <2>1. ServiceItinerary(p) = ShuttleLegs(p.stops)
    BY <1>3 DEF ServiceItinerary
  <2>2. QED
    BY <1>1, <2>1, ShuttleConnects
<1>4. QED
  BY <1>2, <1>3

-----------------------------------------------------------------------------
(* Rides and plans.                                                        *)

Leg == [line : Nat, board : Nat, alight : Nat, from : Position, to : Position]
Line == [pattern : Patterns, active : BOOLEAN, broken : BOOLEAN]

\* A walk takes a number of seconds.
LEMMA DistanceType ==
  ASSUME NEW p \in Position, NEW q \in Position
  PROVE  WalkSeconds(p, q) \in Nat
BY DEF WalkSeconds, Distance, Position

\* A stop has a position.
LEMMA WherePosition ==
  ASSUME NEW s \in DOMAIN Where
  PROVE  Where[s] \in Position
BY RouterAssumption DEF RouterAssumption, Position

\* An index that is past the end goes round once.
LEMMA AroundType ==
  ASSUME NEW s, Len(s) \in Nat, NEW n \in 1..(2 * Len(s))
  PROVE  Around(s, n) \in 1..Len(s)
BY DEF Around

\* Every leg of an itinerary is one of its records, with its seconds.
LEMMA ItineraryFacts ==
  ASSUME NEW legs, Itinerary(legs)
  PROVE  /\ Len(legs) \in Nat /\ Len(legs) >= 2 /\ DOMAIN legs = 1..Len(legs)
         /\ ServiceVisits(legs) \subseteq 1..Len(legs)
         /\ \A i \in 1..Len(legs) :
              /\ legs[i] \in ItineraryLeg
              /\ legs[i].from \in DOMAIN Where /\ legs[i].to \in DOMAIN Where
              /\ legs[i].steps \in Path /\ legs[i].steps \in Seq(Nat)
              /\ Len(legs[i].steps) \in Nat /\ Sum(legs[i].steps) \in Nat
<1>1. legs \in Seq(ItineraryLeg) /\ Len(legs) >= 2
  BY DEF Itinerary
<1>2. Len(legs) \in Nat /\ DOMAIN legs = 1..Len(legs)
  BY <1>1
<1>3. ServiceVisits(legs) \subseteq 1..Len(legs)
  BY <1>2 DEF ServiceVisits
<1>4. ASSUME NEW i \in 1..Len(legs)
      PROVE  /\ legs[i] \in ItineraryLeg
             /\ legs[i].from \in DOMAIN Where /\ legs[i].to \in DOMAIN Where
             /\ legs[i].steps \in Path /\ legs[i].steps \in Seq(Nat)
             /\ Len(legs[i].steps) \in Nat /\ Sum(legs[i].steps) \in Nat
  <2>1. legs[i] \in ItineraryLeg
    BY <1>1, ElementOfSeq
  <2>2. legs[i].from \in DOMAIN Where /\ legs[i].to \in DOMAIN Where /\ legs[i].steps \in Path
    BY <2>1 DEF ItineraryLeg
  <2>3. PICK s : s = legs[i].steps
    OBVIOUS
  <2>4. s \in Seq(Nat \ {0})
    BY <2>2, <2>3 DEF Path
  <2>5. s \in Seq(Nat) /\ Len(s) \in Nat
    BY <2>4
  <2>6. Sum(s) \in Nat
    BY <2>5, SumType
  <2>7. QED
    BY <2>1, <2>2, <2>3, <2>5, <2>6
<1>5. QED
  BY <1>1, <1>2, <1>3, <1>4

\* A ride takes a number of seconds.
LEMMA RideSecondsType ==
  ASSUME NEW legs, Itinerary(legs), NEW i \in ServiceVisits(legs), NEW last \in ServiceVisits(legs)
  PROVE  RideSeconds(legs, i, last) \in Nat
<1> DEFINE ridden == last - i + 1 + (IF last < i THEN Len(legs) ELSE 0)
           seconds == [k \in 1..ridden |-> Sum(legs[Around(legs, i + k - 1)].steps)]
<1>1. Len(legs) \in Nat /\ i \in 1..Len(legs) /\ last \in 1..Len(legs)
  BY ItineraryFacts
<1>2. ridden \in 1..Len(legs)
  <2>1. CASE last < i
    <3>1. ridden = last - i + 1 + Len(legs)
      BY <2>1
    <3>2. QED
      BY <1>1, <2>1, <3>1
  <2>2. CASE ~(last < i)
    <3>1. ridden = last - i + 1
      BY <1>1, <2>2
    <3>2. QED
      BY <1>1, <2>2, <3>1
  <2>3. QED
    BY <2>1, <2>2
<1> HIDE DEF ridden
<1>3. \A k \in 1..ridden : Sum(legs[Around(legs, i + k - 1)].steps) \in Nat
  <2>1. TAKE k \in 1..ridden
  <2>2. i + k - 1 \in 1..(2 * Len(legs))
    BY <1>1, <1>2
  <2>3. Around(legs, i + k - 1) \in 1..Len(legs)
    BY <1>1, <2>2, AroundType
  <2>4. QED
    BY <2>3, ItineraryFacts
<1>4. seconds \in Seq(Nat)
  <2>0. ridden \in Nat
    BY <1>1, <1>2
  <2>1. seconds \in [1..ridden -> Nat]
    BY <1>3
  <2> HIDE DEF seconds
  <2>2. QED
    BY <2>0, <2>1
<1>5. Sum(seconds) \in Nat
  BY <1>4, SumType
<1>6. RideSeconds(legs, i, last) = BoardingSeconds + Sum(seconds)
  BY DEF RideSeconds, ridden
<1>7. QED
  BY <1>5, <1>6, RouterAssumption DEF RouterAssumption

\* A ride leads from where its first leg departs to where its last one arrives.
LEMMA RideEdgeFacts ==
  ASSUME NEW legs, Itinerary(legs), Connected(legs), NEW e \in RideEdges(legs)
  PROVE  /\ {e.board, e.alight} \subseteq ServiceVisits(legs)
         /\ e.from = legs[e.board].from /\ e.to = legs[e.alight].to
         /\ e.from \in DOMAIN Where /\ e.to \in DOMAIN Where /\ e.seconds \in Nat
<1>0. PICK i \in ServiceVisits(legs), j \in ServiceVisits(legs) :
        e = [board |-> i, alight |-> PreviousServiceLeg(legs, j), from |-> legs[i].from, to |-> legs[j].from,
             seconds |-> RideSeconds(legs, i, PreviousServiceLeg(legs, j))]
  BY DEF RideEdges
<1>1. PICK last :
        /\ last = PreviousServiceLeg(legs, j)
        /\ e = [board |-> i, alight |-> last, from |-> legs[i].from, to |-> legs[j].from,
                seconds |-> RideSeconds(legs, i, last)]
  BY <1>0
<1>2. last \in ServiceVisits(legs) /\ legs[last].to = legs[j].from
  BY <1>1 DEF Connected
<1>3. legs[i].from \in DOMAIN Where /\ legs[last].to \in DOMAIN Where
  BY <1>2, ItineraryFacts
<1>4. RideSeconds(legs, i, last) \in Nat
  BY <1>2, RideSecondsType
<1>5. QED
  BY <1>1, <1>2, <1>3, <1>4

\* What a plan may count on of line `ride.line`.
RideExists(ride, lines) ==
  /\ ride.line \in DOMAIN lines
  /\ LET legs == Legs[lines[ride.line].pattern] IN
     /\ {ride.board, ride.alight} \subseteq ServiceVisits(legs)
     /\ Where[legs[ride.board].from] = ride.from /\ Where[legs[ride.alight].to] = ride.to

\* A plan from its leg `first` on: it links up to where it is meant to end, somebody walks
\* before and after every ride, and the rides ahead exist.
PlanLinks(plan, to) ==
  /\ plan \in Seq(Leg) /\ plan # <<>> /\ plan[Len(plan)].to = to /\ IsWalk(plan[1])
  /\ \A i \in 2..Len(plan) : plan[i - 1].to = plan[i].from
  /\ \A i \in 1..Len(plan) : ~IsWalk(plan[i]) => i < Len(plan) /\ IsWalk(plan[i + 1])
PlanExists(plan, first, lines) ==
  \A i \in first..Len(plan) : IsWalk(plan[i]) \/ RideExists(plan[i], lines)

LinesTyped(lines) ==
  /\ DOMAIN lines \subseteq Nat \ {0}
  /\ \A l \in DOMAIN lines : lines[l] \in Line
ServicesOf(lines) == {[line |-> l, rides |-> Rides[lines[l].pattern]] : l \in DOMAIN lines}

Ride(lines) ==
  {r \in [line : Nat \ {0}, board : Nat, alight : Nat, from : Position, to : Position, seconds : Nat] :
     RideExists(r, lines)}

\* What the router reads off the lines are rides that exist on them.
LEMMA RidesOnFacts ==
  ASSUME NEW lines, LinesTyped(lines), NEW service \in ServicesOf(lines), NEW r \in RidesOn(service)
  PROVE  r \in Ride(lines)
<1>1. PICK l \in DOMAIN lines : service = [line |-> l, rides |-> Rides[lines[l].pattern]]
  BY DEF ServicesOf
<1>2. PICK p \in Patterns : p = lines[l].pattern
  BY DEF LinesTyped, Line
<1>3. PICK legs : legs = Legs[p]
  OBVIOUS
<1>4. service.line = l /\ service.rides = RideEdges(legs)
  BY <1>1, <1>2, <1>3 DEF Rides
<1>5. PICK e \in RideEdges(legs) :
        r = [line |-> l, board |-> e.board, alight |-> e.alight,
             from |-> Where[e.from], to |-> Where[e.to], seconds |-> e.seconds]
  BY <1>4 DEF RidesOn
<1>6. Itinerary(legs) /\ Connected(legs)
  BY <1>3, LegsFacts
<1>7. /\ {e.board, e.alight} \subseteq ServiceVisits(legs)
      /\ e.from = legs[e.board].from /\ e.to = legs[e.alight].to
      /\ e.from \in DOMAIN Where /\ e.to \in DOMAIN Where /\ e.seconds \in Nat
  BY <1>6, RideEdgeFacts
<1>8. e.board \in Nat /\ e.alight \in Nat
  BY <1>6, <1>7, ItineraryFacts
<1>9. Where[e.from] \in Position /\ Where[e.to] \in Position
  BY <1>7, WherePosition
<1>10. l \in Nat \ {0}
  BY DEF LinesTyped
<1>11. r \in [line : Nat \ {0}, board : Nat, alight : Nat, from : Position, to : Position, seconds : Nat]
  BY <1>5, <1>7, <1>8, <1>9, <1>10
<1>12. RideExists(r, lines)
  <2>1. Legs[lines[r.line].pattern] = legs /\ r.line \in DOMAIN lines
    BY <1>2, <1>3, <1>5
  <2>2. QED
    BY <1>5, <1>7, <2>1 DEF RideExists
<1>13. QED
  BY <1>11, <1>12 DEF Ride

\* A chain is no ride, one ride, or two.
LEMMA ChainsFacts ==
  ASSUME NEW lines, LinesTyped(lines), NEW services \in SUBSET ServicesOf(lines), NEW c \in Chains(services)
  PROVE  \/ c = <<>>
         \/ \E r \in Ride(lines) : c = <<r>>
         \/ \E r, q \in Ride(lines) : c = <<r, q>>
<1> DEFINE rides == UNION {RidesOn(s) : s \in services}
<1>1. rides \subseteq Ride(lines)
  BY RidesOnFacts
<1>2. \/ c = <<>> \/ c \in {<<r>> : r \in rides} \/ c \in {q \in rides \X rides : q[1].line # q[2].line}
  BY DEF Chains
<1> HIDE DEF rides
<1>3. CASE c = <<>>
  BY <1>3
<1>4. CASE c \in {<<r>> : r \in rides}
  BY <1>1, <1>4
<1>5. CASE c \in {q \in rides \X rides : q[1].line # q[2].line}
  <2>1. c \in rides \X rides
    BY <1>5
  <2>2. PICK r \in rides, q \in rides : c = <<r, q>>
    BY <2>1
  <2>3. QED
    BY <1>1, <2>2
<1>6. QED
  BY <1>2, <1>3, <1>4, <1>5

\* A chain of rides is estimated at a number of seconds.
LEMMA EstimateType ==
  ASSUME NEW lines, LinesTyped(lines), NEW services \in SUBSET ServicesOf(lines), NEW c \in Chains(services),
         NEW origin \in Position, NEW destination \in Position
  PROVE  EstimatedSeconds(c, origin, destination) \in Nat
<1>1. CASE c = <<>>
  BY <1>1, DistanceType DEF EstimatedSeconds
<1>2. ASSUME NEW r \in Ride(lines), c = <<r>>
      PROVE  EstimatedSeconds(c, origin, destination) \in Nat
  <2>1. r.seconds \in Nat /\ r.from \in Position /\ r.to \in Position
    BY DEF Ride
  <2>2. WalkSeconds(origin, r.from) \in Nat /\ WalkSeconds(r.to, destination) \in Nat
    BY <2>1, DistanceType
  <2>3. c # <<>> /\ c[1] = r /\ Len(c) = 1
    BY <1>2
  <2>4. EstimatedSeconds(c, origin, destination)
          = WalkSeconds(origin, r.from) + r.seconds + 0 + WalkSeconds(r.to, destination)
    BY <2>3 DEF EstimatedSeconds
  <2>5. QED
    BY <2>1, <2>2, <2>4
<1>3. ASSUME NEW r \in Ride(lines), NEW q \in Ride(lines), c = <<r, q>>
      PROVE  EstimatedSeconds(c, origin, destination) \in Nat
  <2>1. /\ r.seconds \in Nat /\ r.from \in Position /\ r.to \in Position
        /\ q.seconds \in Nat /\ q.from \in Position /\ q.to \in Position
    BY DEF Ride
  <2>2. /\ WalkSeconds(origin, r.from) \in Nat /\ WalkSeconds(r.to, q.from) \in Nat
        /\ WalkSeconds(q.to, destination) \in Nat
    BY <2>1, DistanceType
  <2>3. c # <<>> /\ c[1] = r /\ c[2] = q /\ Len(c) = 2
    BY <1>3
  <2>4. EstimatedSeconds(c, origin, destination)
          = WalkSeconds(origin, r.from) + r.seconds + (WalkSeconds(r.to, q.from) + q.seconds)
            + WalkSeconds(q.to, destination)
    BY <2>3 DEF EstimatedSeconds
  <2>5. QED
    BY <2>1, <2>2, <2>4
<1>4. QED
  BY <1>1, <1>2, <1>3, ChainsFacts

\* Among some keys of six numbers there is one that no other comes before.
LEMMA LeastKey ==
  ASSUME NEW S, S # {}, NEW key, \A c \in S : \A n \in 1..6 : key[c][n] \in Nat
  PROVE  \E c \in S : \A d \in S : ~KeyBefore(key[d], key[c])
<1> DEFINE Agree(c, d, m) == \A k \in 1..(m - 1) : key[d][k] = key[c][k]
           Least(c, n) == \A d \in S : \A m \in 1..n : Agree(c, d, m) => key[c][m] <= key[d][m]
           T == {n \in 0..6 : \E c \in S : Least(c, n)}
<1>1. T \in SUBSET (0..6) /\ 0 \in T
  BY DEF Least
<1>2. ASSUME NEW n \in 1..6, n - 1 \in T PROVE n \in T
  <2>1. PICK c \in S : Least(c, n - 1)
    BY <1>2
  <2> DEFINE D == {d \in S : Agree(c, d, n)}
             V == {key[d][n] : d \in D}
  <2>2. V \in SUBSET Nat /\ V # {}
    <3>1. c \in D
      OBVIOUS
    <3>2. QED
      BY <3>1
  <2>3. PICK least \in V : \A y \in V : least <= y
    BY <2>2, LeastNumber
  <2>4. PICK e \in D : least = key[e][n]
    BY <2>3
  <2>5. Least(e, n)
    <3>1. SUFFICES ASSUME NEW d \in S, NEW m \in 1..n, Agree(e, d, m) PROVE key[e][m] <= key[d][m]
      BY DEF Least
    <3>2. CASE m = n
      <4>1. Agree(c, d, n)
        BY <2>4, <3>1, <3>2
      <4>2. key[d][n] \in V
        BY <4>1
      <4>3. QED
        BY <2>3, <2>4, <3>2, <4>2
    <3>3. CASE m # n
      <4>1. m \in 1..(n - 1)
        BY <3>3
      <4>2. Agree(c, d, m)
        <5>1. \A k \in 1..(m - 1) : k \in 1..(n - 1)
          BY <4>1
        <5>2. QED
          BY <2>4, <3>1, <5>1
      <4>3. key[c][m] <= key[d][m]
        BY <2>1, <4>1, <4>2 DEF Least
      <4>4. key[e][m] = key[c][m]
        BY <2>4, <4>1
      <4>5. QED
        BY <4>3, <4>4
    <3>4. QED
      BY <3>2, <3>3
  <2>6. QED
    BY <2>5
<1>3. 6 \in T
  <2> HIDE DEF T
  <2>1. 6 \in Nat /\ 6 \in 0..6
    OBVIOUS
  <2>2. QED
    BY <1>1, <1>2, <2>1, StepByStep
<1>4. PICK c \in S : Least(c, 6)
  BY <1>3
<1>5. ASSUME NEW d \in S, KeyBefore(key[d], key[c]) PROVE FALSE
  <2>1. PICK n \in 1..6 : key[d][n] < key[c][n] /\ \A m \in 1..(n - 1) : key[d][m] = key[c][m]
    BY <1>5 DEF KeyBefore
  <2>2. key[c][n] <= key[d][n]
    BY <1>4, <2>1 DEF Least
  <2>3. key[c][n] \in Nat /\ key[d][n] \in Nat
    OBVIOUS
  <2>4. QED
    BY <2>1, <2>2, <2>3
<1>6. QED
  BY <1>5

\* What breaks the ties between chains are six numbers.
LEMMA KeyType ==
  ASSUME NEW lines, LinesTyped(lines), NEW services \in SUBSET ServicesOf(lines), NEW c \in Chains(services)
  PROVE  \A n \in 1..6 : IdentityKey(c)[n] \in Nat
<1> DEFINE Nth(n) == IF n <= Len(c) THEN c[n] ELSE NoRide
<1>1. \A n \in {1, 2} : Nth(n).line \in Nat /\ Nth(n).board \in Nat /\ Nth(n).alight \in Nat
  <2>1. NoRide.line \in Nat /\ NoRide.board \in Nat /\ NoRide.alight \in Nat
    BY DEF NoRide
  <2>2. \A r \in Ride(lines) : r.line \in Nat /\ r.board \in Nat /\ r.alight \in Nat
    BY DEF Ride
  <2>3. CASE c = <<>>
    <3>1. Nth(1) = NoRide /\ Nth(2) = NoRide
      BY <2>3
    <3> HIDE DEF Nth
    <3>2. QED
      BY <2>1, <3>1
  <2>4. ASSUME NEW r \in Ride(lines), c = <<r>>
        PROVE  \A n \in {1, 2} : Nth(n).line \in Nat /\ Nth(n).board \in Nat /\ Nth(n).alight \in Nat
    <3>1. Nth(1) = r /\ Nth(2) = NoRide
      BY <2>4
    <3> HIDE DEF Nth
    <3>2. QED
      BY <2>1, <2>2, <3>1
  <2>5. ASSUME NEW r \in Ride(lines), NEW q \in Ride(lines), c = <<r, q>>
        PROVE  \A n \in {1, 2} : Nth(n).line \in Nat /\ Nth(n).board \in Nat /\ Nth(n).alight \in Nat
    <3>1. Nth(1) = r /\ Nth(2) = q
      BY <2>5
    <3> HIDE DEF Nth
    <3>2. QED
      BY <2>2, <3>1
  <2> HIDE DEF Nth
  <2>6. QED
    BY <2>3, <2>4, <2>5, ChainsFacts
<1>2. IdentityKey(c) = <<Nth(1).line, Nth(1).board, Nth(1).alight, Nth(2).line, Nth(2).board, Nth(2).alight>>
  BY DEF IdentityKey
<1> HIDE DEF Nth
<1>3. \A n \in 1..6 : n = 1 \/ n = 2 \/ n = 3 \/ n = 4 \/ n = 5 \/ n = 6
  OBVIOUS
<1>4. QED
  BY <1>1, <1>2, <1>3

\* A fastest chain is one of them.
LEMMA FastestFacts ==
  ASSUME NEW lines, LinesTyped(lines), NEW services \in SUBSET ServicesOf(lines),
         NEW origin \in Position, NEW destination \in Position
  PROVE  Fastest(Chains(services), origin, destination) \in Chains(services)
<1> DEFINE chains == Chains(services)
           Seconds(c) == EstimatedSeconds(c, origin, destination)
           all == {Seconds(c) : c \in chains}
           least == Min(all)
           fastest == {c \in chains : Seconds(c) = least}
<1>1. <<>> \in chains
  BY DEF Chains
<1>2. \A c \in chains : Seconds(c) \in Nat
  BY EstimateType
<1>3. all \in SUBSET Nat /\ all # {}
  BY <1>1, <1>2
<1>4. least \in all
  <2> HIDE DEF all
  <2>1. QED
    BY <1>3, MinFacts
<1>5. fastest # {}
  BY <1>4
<1>6. PICK key : key = [c \in fastest |-> IdentityKey(c)]
  OBVIOUS
<1>7. \A c \in fastest : key[c] = IdentityKey(c)
  BY <1>6
<1>8. \A c \in fastest : \A n \in 1..6 : key[c][n] \in Nat
  <2>1. TAKE c \in fastest
  <2>2. c \in chains
    OBVIOUS
  <2>3. \A n \in 1..6 : IdentityKey(c)[n] \in Nat
    BY <2>2, KeyType
  <2> HIDE DEF fastest
  <2>4. QED
    BY <1>7, <2>3
<1>9. Fastest(chains, origin, destination)
        = CHOOSE c \in fastest : \A d \in fastest : ~KeyBefore(IdentityKey(d), IdentityKey(c))
  BY DEF Fastest
<1>10. fastest \subseteq chains
  OBVIOUS
<1> HIDE DEF fastest
<1>11. \E c \in fastest : \A d \in fastest : ~KeyBefore(key[d], key[c])
  BY <1>5, <1>8, LeastKey
<1>12. \E c \in fastest : \A d \in fastest : ~KeyBefore(IdentityKey(d), IdentityKey(c))
  BY <1>7, <1>11
<1>13. QED
  BY <1>9, <1>10, <1>12

\* The plan for a chain.
LEMMA PlanLegsFacts ==
  ASSUME NEW lines, LinesTyped(lines), NEW services \in SUBSET ServicesOf(lines), NEW c \in Chains(services),
         NEW origin \in Position, NEW destination \in Position
  PROVE  /\ PlanLinks(PlanLegs(c, origin, destination), destination)
         /\ PlanExists(PlanLegs(c, origin, destination), 1, lines)
<1>1. ASSUME NEW a \in Position, NEW b \in Position
      PROVE  /\ WalkLeg(a, b) \in Leg /\ IsWalk(WalkLeg(a, b))
             /\ WalkLeg(a, b).from = a /\ WalkLeg(a, b).to = b
  BY DEF WalkLeg, Leg, IsWalk
<1>2. ASSUME NEW r \in Ride(lines)
      PROVE  /\ TransitLeg(r) \in Leg /\ ~IsWalk(TransitLeg(r)) /\ RideExists(TransitLeg(r), lines)
             /\ TransitLeg(r).from = r.from /\ TransitLeg(r).to = r.to
             /\ r.from \in Position /\ r.to \in Position
  <2>1. /\ r \in [line : Nat \ {0}, board : Nat, alight : Nat, from : Position, to : Position, seconds : Nat]
        /\ RideExists(r, lines)
    BY DEF Ride
  <2>2. /\ TransitLeg(r).line = r.line /\ TransitLeg(r).board = r.board /\ TransitLeg(r).alight = r.alight
        /\ TransitLeg(r).from = r.from /\ TransitLeg(r).to = r.to
    BY DEF TransitLeg
  <2>3. TransitLeg(r) \in Leg /\ ~IsWalk(TransitLeg(r))
    BY <2>1 DEF TransitLeg, Leg, IsWalk
  <2>4. RideExists(TransitLeg(r), lines)
    BY <2>1, <2>2 DEF RideExists
  <2>5. QED
    BY <2>1, <2>2, <2>3, <2>4
<1>3. CASE c = <<>>
  <2>1. PICK w : w = WalkLeg(origin, destination)
    OBVIOUS
  <2>2. PlanLegs(c, origin, destination) = <<w>>
    BY <1>3, <2>1 DEF PlanLegs
  <2>3. w \in Leg /\ IsWalk(w) /\ w.to = destination
    BY <1>1, <2>1
  <2>4. <<w>> \in Seq(Leg) /\ Len(<<w>>) = 1 /\ <<w>>[1] = w /\ <<w>> # <<>>
    BY <2>3
  <2>5. QED
    BY <2>2, <2>3, <2>4 DEF PlanLinks, PlanExists
<1>4. ASSUME NEW r \in Ride(lines), c = <<r>>
      PROVE  /\ PlanLinks(PlanLegs(c, origin, destination), destination)
             /\ PlanExists(PlanLegs(c, origin, destination), 1, lines)
  <2>1. PICK w, t, x : w = WalkLeg(origin, r.from) /\ t = TransitLeg(r) /\ x = WalkLeg(r.to, destination)
    OBVIOUS
  <2>2. PICK plan : plan = <<w, t, x>>
    OBVIOUS
  <2>3. PlanLegs(c, origin, destination) = plan
    <3>1. c # <<>> /\ Len(c) = 1 /\ c[1] = r
      BY <1>4
    <3>2. QED
      BY <2>1, <2>2, <3>1 DEF PlanLegs
  <2>4. /\ w \in Leg /\ IsWalk(w) /\ w.to = t.from
        /\ t \in Leg /\ ~IsWalk(t) /\ RideExists(t, lines) /\ t.to = x.from
        /\ x \in Leg /\ IsWalk(x) /\ x.to = destination
    BY <1>1, <1>2, <2>1
  <2>5. /\ plan \in Seq(Leg) /\ Len(plan) = 3 /\ plan # <<>>
        /\ plan[1] = w /\ plan[2] = t /\ plan[3] = x
    BY <2>2, <2>4
  <2>6. \A i \in 1..3 : i = 1 \/ i = 2 \/ i = 3
    OBVIOUS
  <2>7. \A i \in 2..3 : i = 2 \/ i = 3
    OBVIOUS
  <2>8. PlanLinks(plan, destination)
    BY <2>4, <2>5, <2>6, <2>7 DEF PlanLinks
  <2>9. PlanExists(plan, 1, lines)
    BY <2>4, <2>5, <2>6 DEF PlanExists
  <2>10. QED
    BY <2>3, <2>8, <2>9
<1>5. ASSUME NEW r \in Ride(lines), NEW q \in Ride(lines), c = <<r, q>>
      PROVE  /\ PlanLinks(PlanLegs(c, origin, destination), destination)
             /\ PlanExists(PlanLegs(c, origin, destination), 1, lines)
  <2>1. PICK w, t, x, u, y : /\ w = WalkLeg(origin, r.from) /\ t = TransitLeg(r)
                             /\ x = WalkLeg(r.to, q.from) /\ u = TransitLeg(q) /\ y = WalkLeg(q.to, destination)
    OBVIOUS
  <2>2. PICK plan : plan = <<w, t, x, u, y>>
    OBVIOUS
  <2>3. PlanLegs(c, origin, destination) = plan
    <3>1. c # <<>> /\ Len(c) = 2 /\ c[1] = r /\ c[2] = q
      BY <1>5
    <3>2. QED
      BY <2>1, <2>2, <3>1 DEF PlanLegs
  <2>4. /\ w \in Leg /\ IsWalk(w) /\ w.to = t.from
        /\ t \in Leg /\ ~IsWalk(t) /\ RideExists(t, lines) /\ t.to = x.from
        /\ x \in Leg /\ IsWalk(x) /\ x.to = u.from
        /\ u \in Leg /\ ~IsWalk(u) /\ RideExists(u, lines) /\ u.to = y.from
        /\ y \in Leg /\ IsWalk(y) /\ y.to = destination
    BY <1>1, <1>2, <2>1
  <2>5. /\ plan \in Seq(Leg) /\ Len(plan) = 5 /\ plan # <<>>
        /\ plan[1] = w /\ plan[2] = t /\ plan[3] = x /\ plan[4] = u /\ plan[5] = y
    BY <2>2, <2>4
  <2>6. \A i \in 1..5 : i = 1 \/ i = 2 \/ i = 3 \/ i = 4 \/ i = 5
    OBVIOUS
  <2>7. \A i \in 2..5 : i = 2 \/ i = 3 \/ i = 4 \/ i = 5
    OBVIOUS
  <2>8. PlanLinks(plan, destination)
    BY <2>4, <2>5, <2>6, <2>7 DEF PlanLinks
  <2>9. PlanExists(plan, 1, lines)
    BY <2>4, <2>5, <2>6 DEF PlanExists
  <2>10. QED
    BY <2>3, <2>8, <2>9
<1>6. QED
  BY <1>3, <1>4, <1>5, ChainsFacts

\* What the router finds is a plan on the services that run.
LEMMA FindRoutePlanFacts ==
  ASSUME NEW lines, LinesTyped(lines), NEW services \in SUBSET ServicesOf(lines),
         NEW origin \in Position, NEW destination \in Position
  PROVE  /\ PlanLinks(FindRoutePlan(services, origin, destination).legs, destination)
         /\ PlanExists(FindRoutePlan(services, origin, destination).legs, 1, lines)
         /\ FindRoutePlan(services, origin, destination).seconds \in Nat
<1>1. PICK c : c = Fastest(Chains(services), origin, destination)
  OBVIOUS
<1>2. c \in Chains(services)
  BY <1>1, FastestFacts
<1>3. /\ FindRoutePlan(services, origin, destination).legs = PlanLegs(c, origin, destination)
      /\ FindRoutePlan(services, origin, destination).seconds = EstimatedSeconds(c, origin, destination)
  BY <1>1 DEF FindRoutePlan
<1>4. QED
  BY <1>2, <1>3, PlanLegsFacts, EstimateType

-----------------------------------------------------------------------------
(* The invariant of the city between two ticks.                            *)

Partial(S) == UNION {[D -> S] : D \in SUBSET Nat}

Statuses == {"Idle", "Walking", "Waiting", "Riding", "Driving", "Arrived", "Late", "Unserved"}
Trip ==
  [at : Position, to : Position, left : Int, status : Statuses, plan : Seq(Leg), leg : Nat \ {0},
   patience : Int, wait : Int, drive : Nat]
Vehicle == [line : Nat, index : Nat, step : Nat, progress : Nat, riders : SUBSET Nat]
Resolution == [trip : Nat, completed : BOOLEAN]
Tally == [completed : Nat, late : Nat, unserved : Nat, waited : Int, fares : Nat]
City ==
  [clock : Nat, spawned : 0..Len(Demands), trips : Partial(Trip), vehicles : Partial(Vehicle),
   lines : Partial(Line), resolutions : Seq(Resolution), tally : Tally]

\* A vehicle stands on a step of the itinerary; on an empty leg there is none to stand on.
OnItinerary(v, legs) ==
  /\ v.index \in 1..Len(legs)
  /\ IF legs[v.index].steps = <<>> THEN v.step = 1 /\ v.progress = 0
     ELSE v.step \in 1..Len(legs[v.index].steps) /\ v.progress \in 0..(legs[v.index].steps[v.step] - 1)
VehicleSound(v, lines) ==
  /\ v \in Vehicle /\ v.line \in DOMAIN lines
  /\ OnItinerary(v, Legs[lines[v.line].pattern])

\* A trip without a plan starts over or drives; any other is on a leg of its plan, and
\* its status is that of the leg. Whoever waits stands where the ride departs.
TripSound(trip, lines) ==
  /\ trip \in Trip
  /\ \/ trip.status \in {"Idle", "Driving"} /\ trip.plan = <<>> /\ trip.leg = 1
     \/ /\ PlanLinks(trip.plan, trip.to) /\ HasLeg(trip)
        /\ PlanExists(trip.plan, trip.leg, lines)
        /\ trip.status = "Waiting" => trip.at = CurrentLeg(trip).from
        /\ trip.status \in (IF IsWalk(CurrentLeg(trip)) THEN {"Walking"} ELSE {"Waiting", "Riding"})

\* The vehicles carry just the trips that ride, each of them in one, of the line of its leg.
Seated(vehicles, trips) ==
  /\ \A v \in DOMAIN vehicles :
       /\ Cardinality(vehicles[v].riders) <= Seats
       /\ \A t \in vehicles[v].riders : /\ t \in DOMAIN trips /\ trips[t].status = "Riding"
                                        /\ CurrentLeg(trips[t]).line = vehicles[v].line
  /\ \A v, w \in DOMAIN vehicles : v # w => \A t \in vehicles[v].riders : t \notin vehicles[w].riders
  /\ \A t \in DOMAIN trips : trips[t].status = "Riding" => \E v \in DOMAIN vehicles : t \in vehicles[v].riders

Sound(lines, vehicles, trips) ==
  /\ LinesTyped(lines)
  /\ \A v \in DOMAIN vehicles : VehicleSound(vehicles[v], lines)
  /\ \A t \in DOMAIN trips : TripSound(trips[t], lines)
  /\ Seated(vehicles, trips)

\* Every spawned trip is on its way or was resolved once.
CountOf(resolutions, completed) ==
  Cardinality({i \in 1..Len(resolutions) : resolutions[i].completed = completed})
Accounted(trips, spawned, resolutions, tally) ==
  /\ DOMAIN trips \subseteq 1..spawned
  /\ \A i \in 1..Len(resolutions) : /\ resolutions[i].trip \in 1..spawned
                                    /\ resolutions[i].trip \notin DOMAIN trips
  /\ \A i, j \in 1..Len(resolutions) : resolutions[i].trip = resolutions[j].trip => i = j
  /\ \A t \in 1..spawned : t \in DOMAIN trips \/ \E i \in 1..Len(resolutions) : resolutions[i].trip = t
  /\ tally.completed = CountOf(resolutions, TRUE) /\ tally.unserved = CountOf(resolutions, FALSE)

Numbered(S) == \E n \in Nat : S \subseteq 1..n
CityInv(c) ==
  /\ c \in City
  /\ Numbered(DOMAIN c.lines) /\ Numbered(DOMAIN c.vehicles)
  /\ Sound(c.lines, c.vehicles, c.trips)
  /\ Accounted(c.trips, c.spawned, c.resolutions, c.tally)

-----------------------------------------------------------------------------
(* Partial functions.                                                      *)

\* A partial function has numbers in its domain and values in its set.
LEMMA PartialFacts ==
  ASSUME NEW S, NEW f \in Partial(S)
  PROVE  /\ DOMAIN f \in SUBSET Nat /\ f \in [DOMAIN f -> S]
         /\ \A x \in DOMAIN f : f[x] \in S
BY DEF Partial

\* A function on numbers is a partial function.
LEMMA IsPartial ==
  ASSUME NEW S, NEW D \in SUBSET Nat, NEW f \in [D -> S]
  PROVE  f \in Partial(S)
BY DEF Partial

\* Finitely many ids were ever given out.
LEMMA NumberedFinite ==
  ASSUME NEW S, Numbered(S)
  PROVE  S \in SUBSET Nat /\ IsFiniteSet(S) /\ Cardinality(S) \in Nat
<1>1. PICK n \in Nat : S \subseteq 1..n
  BY DEF Numbered
<1>2. IsFiniteSet(1..n)
  BY FS_Interval
<1>3. IsFiniteSet(S)
  BY <1>1, <1>2, FS_Subset
<1>4. QED
  BY <1>1, <1>3, FS_CardinalityType

-----------------------------------------------------------------------------
(* One trip over one substep.                                              *)

\* What a trip is after its turn: over, or ready for the next substep.
Settled(trip, lines) ==
  /\ trip \in Trip /\ trip.status # "Riding"
  /\ trip.status \in Terminal \/ TripSound(trip, lines)

\* A trip on leg `leg` of its plan, at its beginning if that is a ride, or past the last one.
OnItsWay(trip, lines) ==
  /\ trip \in Trip /\ PlanLinks(trip.plan, trip.to) /\ trip.leg <= Len(trip.plan) + 1
  /\ PlanExists(trip.plan, trip.leg, lines)
  /\ trip.leg <= Len(trip.plan) /\ ~IsWalk(CurrentLeg(trip)) => trip.at = CurrentLeg(trip).from

\* The fields of a trip.
LEMMA TripFields ==
  ASSUME NEW trip \in Trip
  PROVE  /\ trip.at \in Position /\ trip.to \in Position /\ trip.left \in Int /\ trip.status \in Statuses
         /\ trip.plan \in Seq(Leg) /\ Len(trip.plan) \in Nat /\ trip.leg \in Nat /\ trip.leg >= 1
         /\ trip.patience \in Int /\ trip.wait \in Int /\ trip.drive \in Nat
<1>1. /\ trip.at \in Position /\ trip.to \in Position /\ trip.left \in Int /\ trip.status \in Statuses
      /\ trip.plan \in Seq(Leg) /\ trip.leg \in Nat \ {0}
      /\ trip.patience \in Int /\ trip.wait \in Int /\ trip.drive \in Nat
  BY DEF Trip
<1>2. Len(trip.plan) \in Nat
  BY <1>1
<1>3. QED
  BY <1>1, <1>2

\* A trip that arrives is over, in time or late.
LEMMA ScoreArrivalSettles ==
  ASSUME NEW trip \in Trip, NEW lines
  PROVE  Settled(ScoreArrival(trip), lines) /\ ScoreArrival(trip).status \in Terminal
<1>1. ScoreArrival(trip) \in Trip
  BY DEF ScoreArrival, Trip, Statuses
<1>2. ScoreArrival(trip).status \in {"Late", "Arrived"}
  BY DEF ScoreArrival, Trip
<1>3. QED
  BY <1>1, <1>2 DEF Settled, Terminal

\* A trip nobody serves is over.
LEMMA MarkUnservedSettles ==
  ASSUME NEW trip \in Trip, NEW lines
  PROVE  Settled(MarkUnserved(trip), lines)
<1>1. MarkUnserved(trip) \in Trip
  BY DEF MarkUnserved, Trip, Statuses
<1>2. MarkUnserved(trip).status = "Unserved"
  BY DEF MarkUnserved, Trip
<1>3. QED
  BY <1>1, <1>2 DEF Settled, Terminal

\* A trip that ends a leg has arrived or goes on with the kind of the next leg.
LEMMA StatusAfterLegFacts ==
  ASSUME NEW plan, NEW next, Len(plan) \in Nat, next \in Nat
  PROVE  /\ StatusAfterLeg(plan, next) \in {"Arrived", "Walking", "Waiting"}
         /\ StatusAfterLeg(plan, next) = "Arrived" <=> next > Len(plan)
         /\ next <= Len(plan) => (StatusAfterLeg(plan, next) = "Walking" <=> IsWalk(plan[next]))
BY DEF StatusAfterLeg

\* A trip on a leg with the status of that leg is ready.
LEMMA OnLegIsSound ==
  ASSUME NEW trip, NEW lines, OnItsWay(trip, lines), trip.leg <= Len(trip.plan),
         trip.status \in (IF IsWalk(CurrentLeg(trip)) THEN {"Walking"} ELSE {"Waiting"})
  PROVE  Settled(trip, lines)
<1>1. trip \in Trip
  BY DEF OnItsWay
<1>2. HasLeg(trip)
  BY <1>1, TripFields DEF HasLeg
<1>3. QED
  BY <1>1, <1>2 DEF OnItsWay, Settled, TripSound

\* Whoever walks towards a position is at one.
LEMMA MoveTowardType ==
  ASSUME NEW at \in Position, NEW to \in Position, NEW seconds \in Nat
  PROVE  MoveToward(at, to, seconds) \in Position
<1>1. \A a, b \in Int : Step(a, b, seconds) \in Int
  BY DEF Step, Distance
<1>2. PICK a \in Int, b \in Int : at = <<a, b>>
  BY DEF Position
<1>3. PICK x \in Int, y \in Int : to = <<x, y>>
  BY DEF Position
<1>4. Step(a, x, seconds) \in Int /\ Step(b, y, seconds) \in Int
  BY <1>1
<1>5. QED
  BY <1>2, <1>3, <1>4 DEF MoveToward, Position

\* The fields of a leg of a plan.
LEMMA LegOfPlan ==
  ASSUME NEW trip \in Trip, NEW i \in 1..Len(trip.plan)
  PROVE  /\ trip.plan[i] \in Leg /\ trip.plan[i].from \in Position /\ trip.plan[i].to \in Position
         /\ trip.plan[i].line \in Nat
<1>1. trip.plan \in Seq(Leg)
  BY TripFields
<1>2. trip.plan[i] \in Leg
  BY <1>1, ElementOfSeq
<1>3. QED
  BY <1>2 DEF Leg

\* A trip that walks for a while stays sound or is over: at the end of the leg it takes the next.
LEMMA WalkedSettles ==
  ASSUME NEW trip, NEW lines, OnItsWay(trip, lines), trip.leg <= Len(trip.plan), IsWalk(CurrentLeg(trip)),
         NEW seconds \in Nat
  PROVE  Settled(Walked(trip, seconds), lines)
<1> DEFINE goal == CurrentLeg(trip).to
           at == MoveToward(trip.at, goal, seconds)
           status == StatusAfterLeg(trip.plan, trip.leg + 1)
           there == [trip EXCEPT !.at = at, !.leg = @ + 1, !.wait = 0, !.status = status]
           under == [trip EXCEPT !.at = at, !.status = "Walking"]
<1>1. trip \in Trip /\ PlanLinks(trip.plan, trip.to) /\ PlanExists(trip.plan, trip.leg, lines)
  BY DEF OnItsWay
<1>2. /\ trip.leg \in 1..Len(trip.plan) /\ trip.leg \in Nat /\ trip.at \in Position
      /\ Len(trip.plan) \in Nat
  BY <1>1, TripFields
<1>3. goal \in Position
  BY <1>1, <1>2, LegOfPlan DEF CurrentLeg
<1>4. at \in Position
  BY <1>2, <1>3, MoveTowardType
<1>5. /\ status \in {"Arrived", "Walking", "Waiting"} /\ (status = "Arrived" <=> trip.leg + 1 > Len(trip.plan))
      /\ trip.leg + 1 <= Len(trip.plan) => (status = "Walking" <=> IsWalk(trip.plan[trip.leg + 1]))
  BY <1>2, StatusAfterLegFacts
<1>6. Walked(trip, seconds) = IF at # goal THEN under
                              ELSE IF status = "Arrived" THEN ScoreArrival(there) ELSE there
  BY DEF Walked
<1> HIDE DEF goal, at, status
<1>7. CASE at # goal
  <2>1. under \in Trip
    BY <1>1, <1>4 DEF Trip, Statuses
  <2>2. /\ under.plan = trip.plan /\ under.leg = trip.leg /\ under.to = trip.to /\ under.status = "Walking"
        /\ CurrentLeg(under) = CurrentLeg(trip)
    BY <1>1 DEF Trip, CurrentLeg
  <2>3. OnItsWay(under, lines)
    BY <2>1, <2>2 DEF OnItsWay
  <2> HIDE DEF under
  <2>4. Settled(under, lines)
    BY <2>2, <2>3, OnLegIsSound
  <2>5. QED
    BY <1>6, <1>7, <2>4
<1>8. CASE at = goal
  <2>0. trip.leg + 1 \in Nat \ {0} /\ status \in Statuses /\ 0 \in Int
    BY <1>2, <1>5 DEF Statuses
  <2>1. there \in Trip
    BY <1>1, <1>4, <2>0 DEF Trip
  <2>2. /\ there.plan = trip.plan /\ there.leg = trip.leg + 1 /\ there.to = trip.to /\ there.status = status
        /\ CurrentLeg(there) = trip.plan[trip.leg + 1] /\ there.at = at
    BY <1>1 DEF Trip, CurrentLeg
  <2> HIDE DEF there
  <2>3. CASE status = "Arrived"
    BY <1>6, <1>8, <2>1, <2>3, ScoreArrivalSettles
  <2>4. CASE status # "Arrived"
    <3>1. OnItsWay(there, lines)
      <4>1. PlanExists(trip.plan, trip.leg + 1, lines)
        BY <1>1, <1>2 DEF PlanExists
      <4>2. there.leg <= Len(there.plan) + 1
        BY <1>2, <2>2
      <4>3. ASSUME there.leg <= Len(there.plan)
            PROVE  there.at = CurrentLeg(there).from
        <5>1. trip.leg + 1 \in 2..Len(trip.plan) /\ (trip.leg + 1) - 1 = trip.leg
          BY <1>2, <2>2, <4>3
        <5>2. trip.plan[trip.leg].to = trip.plan[trip.leg + 1].from
          BY <1>1, <5>1 DEF PlanLinks
        <5>3. QED
          BY <1>8, <2>2, <5>2 DEF goal, CurrentLeg
      <4>4. QED
        BY <1>1, <2>1, <2>2, <4>1, <4>2, <4>3 DEF OnItsWay
    <3>2. there.leg <= Len(there.plan)
      BY <1>2, <1>5, <2>2, <2>4
    <3>3. there.status \in (IF IsWalk(CurrentLeg(there)) THEN {"Walking"} ELSE {"Waiting"})
      BY <1>2, <1>5, <2>2, <2>4, <3>2
    <3>4. Settled(there, lines)
      BY <3>1, <3>2, <3>3, OnLegIsSound
    <3>5. QED
      BY <1>6, <1>8, <2>4, <3>4
  <2>5. QED
    BY <2>3, <2>4
<1>9. QED
  BY <1>7, <1>8

\* A trip that waits for a while stays sound or gives up.
LEMMA WaitedSettles ==
  ASSUME NEW trip, NEW lines, OnItsWay(trip, lines), trip.leg <= Len(trip.plan), ~IsWalk(CurrentLeg(trip)),
         NEW seconds \in Nat
  PROVE  Settled(Waited(trip, seconds), lines)
<1> DEFINE remaining == trip.left + Grace
           ends == (IF trip.patience <= seconds THEN {trip.patience} ELSE {})
                   \cup (IF remaining <= 0 THEN {Floor(remaining + seconds)} ELSE {})
           spent == Min(ends \cup {seconds})
           after == [trip EXCEPT !.status = "Waiting", !.patience = Floor(@ - spent), !.wait = @ + spent]
<1>1. trip \in Trip
  BY DEF OnItsWay
<1>2. /\ trip.left \in Int /\ trip.patience \in Int /\ trip.wait \in Int /\ Grace \in Nat
  BY <1>1, TripFields, TripTickAssumption DEF TripTickAssumption
<1>3. spent \in Int
  <2>0. remaining + seconds \in Int
    BY <1>2
  <2>1. Floor(remaining + seconds) \in Nat
    BY <2>0, FloorType
  <2>2. PICK f \in Nat : f = Floor(remaining + seconds)
    BY <2>1
  <2>3. PICK S : S = ends \cup {seconds}
    OBVIOUS
  <2>4. S \subseteq {trip.patience, f, seconds} /\ seconds \in S
    BY <2>2, <2>3
  <2>5. \E x \in S : \A y \in S : x <= y
    BY <1>2, <2>4
  <2>6. Min(S) \in S
    BY <2>5 DEF Min
  <2>7. QED
    BY <1>2, <2>3, <2>4, <2>6
<1>4. Waited(trip, seconds) = IF ends = {} THEN after ELSE MarkUnserved(after)
  BY DEF Waited
<1> HIDE DEF ends, spent
<1>5. trip.patience - spent \in Int /\ trip.wait + spent \in Int
  BY <1>2, <1>3
<1>6. Floor(trip.patience - spent) \in Nat
  BY <1>5, FloorType
<1>a. Floor(trip.patience - spent) \in Int /\ "Waiting" \in Statuses
  BY <1>6 DEF Statuses
<1>7. after \in Trip
  BY <1>1, <1>5, <1>a DEF Trip
<1>8. /\ after.plan = trip.plan /\ after.leg = trip.leg /\ after.to = trip.to /\ after.status = "Waiting"
      /\ CurrentLeg(after) = CurrentLeg(trip) /\ after.at = trip.at
  BY <1>1 DEF Trip, CurrentLeg
<1>9. OnItsWay(after, lines)
  BY <1>7, <1>8 DEF OnItsWay
<1> HIDE DEF after
<1>10. Settled(after, lines)
  BY <1>8, <1>9, OnLegIsSound
<1>11. Settled(MarkUnserved(after), lines)
  BY <1>7, MarkUnservedSettles
<1>12. QED
  BY <1>4, <1>10, <1>11

\* A trip on its way walks or waits.
LEMMA OnLegSettles ==
  ASSUME NEW trip, NEW lines, OnItsWay(trip, lines), NEW seconds \in Nat
  PROVE  Settled(OnLeg(trip, seconds), lines)
<1>1. trip \in Trip
  BY DEF OnItsWay
<1>2. HasLeg(trip) => trip.leg <= Len(trip.plan)
  BY <1>1, TripFields DEF HasLeg
<1>3. QED
  BY <1>1, <1>2, WalkedSettles, WaitedSettles, ScoreArrivalSettles, MarkUnservedSettles DEF OnLeg

\* Legs without length are skipped, and the trip is still on its way.
LEMMA CollapsedOnItsWay ==
  ASSUME NEW trip, NEW lines, OnItsWay(trip, lines)
  PROVE  OnItsWay(Collapsed(trip), lines)
<1> DEFINE standing(i) == IsWalk(trip.plan[i]) /\ trip.plan[i].to = trip.at
           S == {i \in trip.leg..(Len(trip.plan) + 1) : i > Len(trip.plan) \/ ~standing(i)}
           next == Min(S)
           there == [trip EXCEPT !.leg = next, !.wait = 0, !.status = StatusAfterLeg(trip.plan, next)]
<1>1. trip \in Trip
  BY DEF OnItsWay
<1>2. trip.leg \in Nat /\ trip.leg >= 1 /\ Len(trip.plan) \in Nat /\ trip.leg <= Len(trip.plan) + 1
  BY <1>1, TripFields DEF OnItsWay
<1>3. next \in trip.leg..(Len(trip.plan) + 1) /\ \A i \in S : next <= i
  <2>1. S \in SUBSET Nat /\ Len(trip.plan) + 1 \in S
    BY <1>2
  <2>2. S \subseteq trip.leg..(Len(trip.plan) + 1)
    OBVIOUS
  <2> HIDE DEF S
  <2>3. QED
    BY <2>1, <2>2, MinFacts
<1>4. Collapsed(trip) = IF next = trip.leg THEN trip ELSE there
  BY DEF Collapsed
<1> HIDE DEF next
<1>b. ASSUME next # trip.leg, next <= Len(trip.plan)
      PROVE  trip.at = trip.plan[next].from
  <2>1. PICK n \in Nat : n = next
    BY <1>2, <1>3
  <2>2. n - 1 \in trip.leg..(Len(trip.plan) + 1) /\ n - 1 <= Len(trip.plan) /\ n \in 2..Len(trip.plan)
    BY <1>2, <1>3, <1>b, <2>1
  <2>3. n - 1 \notin S
    BY <1>3, <2>1, <2>2
  <2>4. trip.plan[n - 1].to = trip.at
    BY <2>2, <2>3
  <2>5. QED
    BY <2>1, <2>2, <2>4 DEF OnItsWay, PlanLinks
<1>5. StatusAfterLeg(trip.plan, next) \in {"Arrived", "Walking", "Waiting"}
  BY <1>2, <1>3, StatusAfterLegFacts
<1>a. StatusAfterLeg(trip.plan, next) \in Statuses /\ next \in Nat \ {0} /\ 0 \in Int
  BY <1>2, <1>3, <1>5 DEF Statuses
<1>6. there \in Trip
  BY <1>1, <1>a DEF Trip
<1>7. there.plan = trip.plan /\ there.leg = next /\ there.to = trip.to /\ there.at = trip.at
  BY <1>1 DEF Trip
<1> HIDE DEF there
<1>8. PlanExists(trip.plan, next, lines)
  BY <1>2, <1>3 DEF OnItsWay, PlanExists
<1>9. ASSUME next # trip.leg
      PROVE  OnItsWay(there, lines)
  BY <1>2, <1>3, <1>b, <1>6, <1>7, <1>8, <1>9 DEF OnItsWay, CurrentLeg
<1>10. QED
  BY <1>4, <1>9

\* A trip with a plan follows it or has arrived.
LEMMA OnPlanSettles ==
  ASSUME NEW trip, NEW lines, OnItsWay(trip, lines), NEW seconds \in Nat
  PROVE  Settled(OnPlan(trip, seconds), lines)
<1>1. trip \in Trip
  BY DEF OnItsWay
<1>2. QED
  BY <1>1, MarkUnservedSettles, CollapsedOnItsWay, OnLegSettles DEF OnPlan

\* Every plan is made on the lines there are.
LEMMA PlanFromFacts ==
  ASSUME NEW c, LinesTyped(c.lines), NEW at \in Position, NEW destination \in Position
  PROVE  /\ PlanLinks(PlanFrom(c, at, destination).legs, destination)
         /\ PlanExists(PlanFrom(c, at, destination).legs, 1, c.lines)
         /\ PlanFrom(c, at, destination).seconds \in Nat
<1>1. ActiveServices(c) \in SUBSET ServicesOf(c.lines)
  BY DEF ActiveServices, ServicesOf
<1>2. Snap(at) \in Position
  <2>1. PICK x \in Int, y \in Int : at = <<x, y>>
    BY DEF Position
  <2>2. PICK n \in Nat : n = Tile /\ n > 0
    BY TripTickAssumption DEF TripTickAssumption
  <2>3. \A z \in Int : ((z + n \div 2) \div n) * n \in Int
    BY <2>2
  <2>4. QED
    BY <2>1, <2>2, <2>3 DEF Snap, Position
<1>3. QED
  BY <1>1, <1>2, FindRoutePlanFacts DEF PlanFrom

\* A trip without a plan is given one that leads to where it is bound on lines that exist.
LEMMA ReplannedOnItsWay ==
  ASSUME NEW c, LinesTyped(c.lines), NEW t \in DOMAIN c.trips, TripSound(c.trips[t], c.lines),
         c.trips[t].status # "Driving"
  PROVE  OnItsWay(Replanned(c, t), c.lines)
<1> DEFINE trip == c.trips[t]
           plan == PlanFrom(c, trip.at, trip.to).legs
           new == [trip EXCEPT !.plan = plan, !.leg = 1, !.wait = 0, !.status = StatusAfterLeg(plan, 1)]
<1>1. trip \in Trip /\ trip.at \in Position /\ trip.to \in Position /\ trip.leg \in Nat /\ Len(trip.plan) \in Nat
  <2>1. trip \in Trip
    BY DEF TripSound
  <2> HIDE DEF trip
  <2>2. QED
    BY <2>1, TripFields
<1>2. PlanLinks(plan, trip.to) /\ PlanExists(plan, 1, c.lines)
  BY <1>1, PlanFromFacts
<1>3. Replanned(c, t) = IF trip.plan = <<>> \/ trip.status = "Riding" THEN new ELSE trip
  BY DEF Replanned
<1> HIDE DEF plan
<1>4. plan \in Seq(Leg) /\ Len(plan) \in Nat /\ Len(plan) >= 1
  <2>1. plan \in Seq(Leg) /\ plan # <<>>
    BY <1>2 DEF PlanLinks
  <2>2. QED
    BY <2>1
<1>5. StatusAfterLeg(plan, 1) \in {"Arrived", "Walking", "Waiting"}
  BY <1>4, StatusAfterLegFacts
<1> HIDE DEF trip
<1>a. StatusAfterLeg(plan, 1) \in Statuses /\ 1 \in Nat \ {0} /\ 0 \in Int
  BY <1>5 DEF Statuses
<1>6. new \in Trip /\ new.plan = plan /\ new.leg = 1 /\ new.to = trip.to
  BY <1>1, <1>4, <1>a DEF Trip
<1> HIDE DEF new
<1>7. OnItsWay(new, c.lines)
  BY <1>2, <1>4, <1>6 DEF OnItsWay, PlanLinks, CurrentLeg
<1>8. ASSUME trip.plan # <<>>, trip.status # "Riding"
      PROVE  OnItsWay(trip, c.lines)
  BY <1>1, <1>8 DEF TripSound, trip, OnItsWay, HasLeg
<1>9. QED
  BY <1>3, <1>7, <1>8

\* Over a substep a trip aboard is carried along; any other stays sound or is over.
LEMMA TickTripFacts ==
  ASSUME NEW c, LinesTyped(c.lines), NEW t \in DOMAIN c.trips, TripSound(c.trips[t], c.lines),
         NEW seconds \in Nat
  PROVE  /\ TickTrip(c, t, seconds) \in Trip
         /\ c.trips[t].status = "Riding" /\ t \in Riders(c) => TickTrip(c, t, seconds) = c.trips[t]
         /\ ~(c.trips[t].status = "Riding" /\ t \in Riders(c)) => Settled(TickTrip(c, t, seconds), c.lines)
<1> DEFINE trip == c.trips[t]
<1>1. trip \in Trip
  BY DEF TripSound
<1>2. CASE trip.status = "Driving"
  <2> DEFINE home == [trip EXCEPT !.at = trip.to]
  <2>1. TickTrip(c, t, seconds) = IF trip.drive > 0 THEN trip ELSE ScoreArrival(home)
    BY <1>2 DEF TickTrip
  <2>2. home \in Trip
    <3> HIDE DEF trip
    <3>1. QED
      BY <1>1 DEF Trip
  <2>3. Settled(trip, c.lines)
    BY <1>1, <1>2 DEF Settled
  <2> HIDE DEF home
  <2>4. Settled(TickTrip(c, t, seconds), c.lines)
    BY <2>1, <2>2, <2>3, ScoreArrivalSettles
  <2>5. QED
    BY <1>2, <2>4 DEF Settled
<1>3. CASE trip.status # "Driving" /\ trip.status = "Riding" /\ t \in Riders(c)
  BY <1>1, <1>3 DEF TickTrip
<1>4. CASE trip.status # "Driving" /\ ~(trip.status = "Riding" /\ t \in Riders(c))
  <2>1. TickTrip(c, t, seconds) = OnPlan(Replanned(c, t), seconds)
    BY <1>4 DEF TickTrip
  <2>2. Settled(TickTrip(c, t, seconds), c.lines)
    BY <1>4, <2>1, ReplannedOnItsWay, OnPlanSettles
  <2>3. QED
    BY <1>4, <2>2 DEF Settled
<1>5. QED
  BY <1>2, <1>3, <1>4

-----------------------------------------------------------------------------
(* One vehicle over one substep.                                           *)

\* What a drive of vehicle `id` may have made of the vehicle and of the trips.
Drive(trips) == [vehicle : Vehicle, trips : [DOMAIN trips -> Trip]]
DriveSound(c, id, drive) ==
  /\ drive \in Drive(c.trips) /\ drive.vehicle.line = c.vehicles[id].line
  /\ Sound(c.lines, [c.vehicles EXCEPT ![id] = drive.vehicle], drive.trips)

\* The queues are those of a city with the same trips.
Found(found, trips) ==
  /\ DOMAIN found.trips = DOMAIN trips /\ DOMAIN trips \in SUBSET Nat /\ IsFiniteSet(DOMAIN trips)
  /\ \A t \in DOMAIN trips : found.trips[t].patience \in Int

\* One vehicle lets trips off and takes others on: everybody still sits in one vehicle.
LEMMA Reseat ==
  ASSUME NEW V, NEW T, Seated(V, T), NEW id \in DOMAIN V, NEW w, NEW U, DOMAIN U = DOMAIN T,
         w.line = V[id].line, Cardinality(w.riders) <= Seats,
         \A t \in w.riders : t \in DOMAIN T /\ U[t].status = "Riding" /\ CurrentLeg(U[t]).line = w.line,
         \A t \in w.riders : t \notin V[id].riders => T[t].status # "Riding",
         \A t \in DOMAIN T : t \notin w.riders =>
           IF t \in V[id].riders THEN U[t].status # "Riding" ELSE U[t] = T[t]
  PROVE  Seated([V EXCEPT ![id] = w], U)
<1> DEFINE W == [V EXCEPT ![id] = w]
<1>1. DOMAIN W = DOMAIN V /\ W[id] = w /\ \A v \in DOMAIN V : v # id => W[v] = V[v]
  OBVIOUS
<1> HIDE DEF W
<1>2. ASSUME NEW v \in DOMAIN V, v # id, NEW t \in V[v].riders
      PROVE  t \in DOMAIN T /\ t \notin w.riders /\ U[t] = T[t]
  <2>1. t \in DOMAIN T /\ T[t].status = "Riding" /\ t \notin V[id].riders
    BY <1>2 DEF Seated
  <2>2. t \notin w.riders
    BY <2>1
  <2>3. QED
    BY <2>1, <2>2
<1>3. ASSUME NEW v \in DOMAIN W
      PROVE  /\ Cardinality(W[v].riders) <= Seats
             /\ \A t \in W[v].riders : /\ t \in DOMAIN U /\ U[t].status = "Riding"
                                       /\ CurrentLeg(U[t]).line = W[v].line
  <2>1. CASE v = id
    BY <1>1, <2>1
  <2>2. CASE v # id
    <3>1. W[v] = V[v] /\ v \in DOMAIN V
      BY <1>1, <2>2
    <3>2. \A t \in V[v].riders : U[t] = T[t]
      BY <1>2, <2>2, <3>1
    <3>3. QED
      BY <3>1, <3>2 DEF Seated
  <2>3. QED
    BY <2>1, <2>2
<1>4. ASSUME NEW v \in DOMAIN W, NEW x \in DOMAIN W, v # x, NEW t \in W[v].riders
      PROVE  t \notin W[x].riders
  <2>1. CASE v = id
    BY <1>1, <1>2, <1>4, <2>1
  <2>2. CASE x = id
    BY <1>1, <1>2, <1>4, <2>2
  <2>3. CASE v # id /\ x # id
    BY <1>1, <1>4, <2>3 DEF Seated
  <2>4. QED
    BY <2>1, <2>2, <2>3
<1>5. ASSUME NEW t \in DOMAIN U, U[t].status = "Riding"
      PROVE  \E v \in DOMAIN W : t \in W[v].riders
  <2>1. CASE t \in w.riders
    BY <1>1, <2>1
  <2>2. CASE t \notin w.riders
    <3>1. t \notin V[id].riders /\ U[t] = T[t]
      BY <1>5, <2>2
    <3>2. PICK v \in DOMAIN V : t \in V[v].riders
      BY <1>5, <3>1 DEF Seated
    <3>3. v # id
      BY <3>1, <3>2
    <3>4. QED
      BY <1>1, <3>2, <3>3
  <2>3. QED
    BY <2>1, <2>2
<1>6. QED
  BY <1>3, <1>4, <1>5 DEF Seated, W

\* What is known of a drive.
LEMMA DriveFacts ==
  ASSUME NEW c, NEW id \in DOMAIN c.vehicles, NEW d, DriveSound(c, id, d)
  PROVE  /\ d = [vehicle |-> d.vehicle, trips |-> d.trips]
         /\ d.vehicle \in Vehicle /\ d.vehicle.line \in DOMAIN c.lines
         /\ OnItinerary(d.vehicle, Legs[c.lines[d.vehicle.line].pattern])
         /\ d.vehicle.riders \in SUBSET DOMAIN c.trips /\ Cardinality(d.vehicle.riders) <= Seats
         /\ DOMAIN d.trips = DOMAIN c.trips /\ d.trips \in [DOMAIN c.trips -> Trip]
         /\ \A t \in DOMAIN c.trips : TripSound(d.trips[t], c.lines)
         /\ \A t \in d.vehicle.riders : /\ d.trips[t].status = "Riding"
                                        /\ CurrentLeg(d.trips[t]).line = d.vehicle.line
         /\ LinesTyped(c.lines)
<1> DEFINE V == [c.vehicles EXCEPT ![id] = d.vehicle]
<1>1. DOMAIN V = DOMAIN c.vehicles /\ V[id] = d.vehicle
  OBVIOUS
<1>2. d \in Drive(c.trips) /\ Sound(c.lines, V, d.trips)
  BY DEF DriveSound
<1>3. /\ d = [vehicle |-> d.vehicle, trips |-> d.trips]
      /\ d.vehicle \in Vehicle /\ d.trips \in [DOMAIN c.trips -> Trip] /\ DOMAIN d.trips = DOMAIN c.trips
  BY <1>2 DEF Drive
<1> HIDE DEF V
<1>4. VehicleSound(V[id], c.lines)
  BY <1>1, <1>2 DEF Sound
<1>5. /\ Cardinality(V[id].riders) <= Seats
      /\ \A t \in V[id].riders : /\ t \in DOMAIN d.trips /\ d.trips[t].status = "Riding"
                                 /\ CurrentLeg(d.trips[t]).line = V[id].line
  BY <1>1, <1>2 DEF Sound, Seated
<1>6. LinesTyped(c.lines) /\ \A t \in DOMAIN d.trips : TripSound(d.trips[t], c.lines)
  BY <1>2 DEF Sound
<1>7. QED
  BY <1>1, <1>3, <1>4, <1>5, <1>6 DEF VehicleSound

\* The vehicle moves and its riders change: what is to be shown then.
LEMMA DriveChanges ==
  ASSUME NEW c, NEW id \in DOMAIN c.vehicles, NEW d, DriveSound(c, id, d), NEW w \in Vehicle,
         NEW U \in [DOMAIN c.trips -> Trip],
         w.line = d.vehicle.line, OnItinerary(w, Legs[c.lines[w.line].pattern]),
         \A t \in DOMAIN c.trips : TripSound(U[t], c.lines),
         Cardinality(w.riders) <= Seats,
         \A t \in w.riders : t \in DOMAIN c.trips /\ U[t].status = "Riding" /\ CurrentLeg(U[t]).line = w.line,
         \A t \in w.riders : t \notin d.vehicle.riders => d.trips[t].status # "Riding",
         \A t \in DOMAIN c.trips : t \notin w.riders =>
           IF t \in d.vehicle.riders THEN U[t].status # "Riding" ELSE U[t] = d.trips[t]
  PROVE  DriveSound(c, id, [vehicle |-> w, trips |-> U])
<1> DEFINE V == [c.vehicles EXCEPT ![id] = d.vehicle]
           W == [c.vehicles EXCEPT ![id] = w]
           e == [vehicle |-> w, trips |-> U]
<1>1. /\ DOMAIN V = DOMAIN c.vehicles /\ V[id] = d.vehicle /\ [V EXCEPT ![id] = w] = W
      /\ DOMAIN W = DOMAIN c.vehicles /\ W[id] = w /\ \A v \in DOMAIN c.vehicles : v # id => W[v] = V[v]
  OBVIOUS
<1>2. /\ Sound(c.lines, V, d.trips) /\ d.vehicle.line = c.vehicles[id].line
      /\ DOMAIN d.trips = DOMAIN c.trips /\ d.vehicle.line \in DOMAIN c.lines
  BY DriveFacts DEF DriveSound
<1>3. e \in Drive(c.trips) /\ e.vehicle = w /\ e.trips = U /\ DOMAIN U = DOMAIN c.trips
  BY DEF Drive
<1> HIDE DEF V, W, e
<1>4. Seated([V EXCEPT ![id] = w], U)
  <2>1. Seated(V, d.trips) /\ id \in DOMAIN V
    BY <1>1, <1>2 DEF Sound
  <2>2. PICK T : T = d.trips
    OBVIOUS
  <2>3. /\ DOMAIN U = DOMAIN T /\ w.line = V[id].line
        /\ \A t \in w.riders : t \in DOMAIN T /\ U[t].status = "Riding" /\ CurrentLeg(U[t]).line = w.line
        /\ \A t \in w.riders : t \notin V[id].riders => T[t].status # "Riding"
        /\ \A t \in DOMAIN T : t \notin w.riders =>
             IF t \in V[id].riders THEN U[t].status # "Riding" ELSE U[t] = T[t]
    BY <1>1, <1>2, <1>3, <2>2
  <2>4. QED
    BY <2>1, <2>2, <2>3, Reseat
<1>5. \A v \in DOMAIN W : VehicleSound(W[v], c.lines)
  <2>1. TAKE v \in DOMAIN W
  <2>2. CASE v = id
    BY <1>1, <1>2, <2>2 DEF VehicleSound
  <2>3. CASE v # id
    BY <1>1, <1>2, <2>3 DEF Sound
  <2>4. QED
    BY <2>2, <2>3
<1>6. Sound(c.lines, W, U)
  BY <1>1, <1>2, <1>3, <1>4, <1>5 DEF Sound
<1>7. DriveSound(c, id, e)
  BY <1>2, <1>3, <1>6 DEF DriveSound, W
<1>8. QED
  BY <1>7 DEF e

\* Boarding seats no more than fit, and only who waits for this line.
LEMMA BoardSound ==
  ASSUME NEW c, NEW id \in DOMAIN c.vehicles, NEW d, DriveSound(c, id, d),
         NEW stop, NEW found, Found(found, c.trips)
  PROVE  /\ DriveSound(c, id, Board(d, stop, found))
         /\ Board(d, stop, found).vehicle.index = d.vehicle.index
<1> DEFINE v == d.vehicle
           CanBoard(t) ==
             LET trip == d.trips[t]
             IN  /\ trip.status = "Waiting" /\ t \notin Riders(found)
                 /\ CurrentLeg(trip).line = v.line /\ CurrentLeg(trip).board = v.index
                 /\ trip.at = Where[stop]
           able == {t \in OnPlatform(found, stop) : CanBoard(t)}
           n == Seats - Cardinality(v.riders)
           taken == FirstOf(n, able, found)
           w == [v EXCEPT !.riders = @ \cup taken]
           U == [t \in DOMAIN d.trips |->
                   IF t \in taken THEN [d.trips[t] EXCEPT !.status = "Riding"] ELSE d.trips[t]]
<1>1. Board(d, stop, found) = [vehicle |-> w, trips |-> U]
  BY DEF Board
<1>2. /\ v \in Vehicle /\ v.line \in DOMAIN c.lines
      /\ OnItinerary(v, Legs[c.lines[v.line].pattern])
      /\ v.riders \in SUBSET DOMAIN c.trips /\ Cardinality(v.riders) <= Seats
      /\ DOMAIN d.trips = DOMAIN c.trips /\ d.trips \in [DOMAIN c.trips -> Trip]
      /\ \A t \in DOMAIN c.trips : TripSound(d.trips[t], c.lines)
      /\ \A t \in v.riders : d.trips[t].status = "Riding" /\ CurrentLeg(d.trips[t]).line = v.line
      /\ LinesTyped(c.lines)
  BY DriveFacts
<1>3. DOMAIN c.trips \in SUBSET Nat /\ IsFiniteSet(DOMAIN c.trips)
  BY DEF Found
<1>4. Seats \in Nat /\ IsFiniteSet(v.riders) /\ Cardinality(v.riders) \in Nat /\ n \in Nat
  <2>1. Seats \in Nat
    BY TripTickAssumption DEF TripTickAssumption
  <2>2. IsFiniteSet(v.riders) /\ Cardinality(v.riders) \in Nat
    BY <1>2, <1>3, FS_Subset, FS_CardinalityType
  <2>3. QED
    BY <1>2, <2>1, <2>2
<1>5. able \subseteq DOMAIN c.trips /\ \A t \in able : d.trips[t].status = "Waiting" /\ CurrentLeg(d.trips[t]).line = v.line
  BY DEF OnPlatform, FirstOf, Waiters, Found
<1> HIDE DEF able, n
<1>6. able \in SUBSET Nat /\ IsFiniteSet(able) /\ \A t \in able : found.trips[t].patience \in Int
  BY <1>3, <1>5, FS_Subset DEF Found
<1>7. taken \subseteq able /\ IsFiniteSet(taken) /\ Cardinality(taken) <= n
  BY <1>4, <1>6, FirstOfFacts
<1> HIDE DEF taken
<1>8. \A t \in taken : /\ t \in DOMAIN c.trips /\ d.trips[t].status = "Waiting"
                       /\ CurrentLeg(d.trips[t]).line = v.line
  BY <1>5, <1>7
<1> HIDE DEF v
<1>9. w \in Vehicle /\ w.line = v.line /\ w.riders = v.riders \cup taken /\ w.index = v.index
      /\ w.step = v.step /\ w.progress = v.progress
  <2>1. v.riders \cup taken \in SUBSET Nat
    BY <1>2, <1>3, <1>8
  <2>2. QED
    BY <1>2, <2>1 DEF Vehicle
<1> HIDE DEF w
<1>10. OnItinerary(w, Legs[c.lines[w.line].pattern])
  BY <1>2, <1>9 DEF OnItinerary
<1>11. Cardinality(w.riders) <= Seats
  <2>1. Cardinality(v.riders \cup taken) <= Cardinality(v.riders) + Cardinality(taken)
    <3>1. v.riders \cap taken \in SUBSET taken
      OBVIOUS
    <3>2. Cardinality(v.riders \cup taken) = Cardinality(v.riders) + Cardinality(taken) - Cardinality(v.riders \cap taken)
      BY <1>4, <1>7, FS_Union
    <3>3. Cardinality(v.riders \cap taken) \in Nat /\ Cardinality(taken) \in Nat
      BY <1>7, <3>1, FS_Subset, FS_CardinalityType
    <3>4. QED
      BY <1>4, <3>2, <3>3
  <2>2. Cardinality(taken) \in Nat /\ Cardinality(v.riders \cup taken) \in Nat
    BY <1>4, <1>7, FS_Union, FS_CardinalityType
  <2>3. Cardinality(taken) <= Seats - Cardinality(v.riders)
    BY <1>7 DEF n, v
  <2>4. QED
    BY <1>4, <1>9, <2>1, <2>2, <2>3
<1>12. ASSUME NEW t \in DOMAIN c.trips
       PROVE  /\ U[t] \in Trip /\ TripSound(U[t], c.lines)
              /\ t \in taken => U[t].status = "Riding" /\ CurrentLeg(U[t]) = CurrentLeg(d.trips[t])
              /\ t \notin taken => U[t] = d.trips[t]
  <2>1. CASE t \notin taken
    BY <1>2, <2>1
  <2>2. CASE t \in taken
    <3>1. PICK trip : trip = d.trips[t]
      OBVIOUS
    <3>2. PICK on : on = [trip EXCEPT !.status = "Riding"]
      OBVIOUS
    <3>3. U[t] = on
      BY <1>2, <2>2, <3>1, <3>2
    <3>4. TripSound(trip, c.lines) /\ trip.status = "Waiting" /\ CurrentLeg(trip).line = v.line /\ trip \in Trip
      BY <1>2, <1>8, <2>2, <3>1
    <3>5. /\ on \in Trip /\ on.status = "Riding" /\ on.plan = trip.plan /\ on.leg = trip.leg /\ on.to = trip.to
          /\ CurrentLeg(on) = CurrentLeg(trip)
      BY <3>2, <3>4 DEF Trip, Statuses, CurrentLeg
    <3>6. ~IsWalk(CurrentLeg(trip))
      BY <1>2, <3>4 DEF LinesTyped, IsWalk
    <3>7. TripSound(on, c.lines)
      BY <3>4, <3>5, <3>6 DEF TripSound, HasLeg
    <3>8. QED
      BY <2>2, <3>1, <3>3, <3>5, <3>7
  <2>3. QED
    BY <2>1, <2>2
<1>13. U \in [DOMAIN c.trips -> Trip]
  BY <1>2, <1>12
<1> HIDE DEF U
<1>14. \A t \in w.riders : t \in DOMAIN c.trips /\ U[t].status = "Riding" /\ CurrentLeg(U[t]).line = w.line
  <2>1. TAKE t \in w.riders
  <2>2. CASE t \in taken
    BY <1>8, <1>9, <1>12, <2>2
  <2>3. CASE t \notin taken
    BY <1>2, <1>9, <1>12, <2>3
  <2>4. QED
    BY <2>2, <2>3
<1>15. \A t \in w.riders : t \notin v.riders => d.trips[t].status # "Riding"
  BY <1>8, <1>9
<1>16. \A t \in DOMAIN c.trips : t \notin w.riders => t \notin v.riders /\ U[t] = d.trips[t]
  BY <1>9, <1>12
<1>17. DriveSound(c, id, [vehicle |-> w, trips |-> U])
  BY <1>2, <1>9, <1>10, <1>11, <1>12, <1>13, <1>14, <1>15, <1>16, DriveChanges DEF v
<1>18. QED
  BY <1>1, <1>9, <1>17 DEF v

\* Whoever gets off walks on: a ride is followed by a walk.
LEMMA LeavesSound ==
  ASSUME NEW trip, NEW lines, TripSound(trip, lines), trip.status = "Riding", NEW at \in Position
  PROVE  LET on == [trip EXCEPT !.at = at, !.status = "Walking", !.leg = @ + 1, !.wait = 0]
         IN  TripSound(on, lines) /\ on.status = "Walking"
<1> DEFINE on == [trip EXCEPT !.at = at, !.status = "Walking", !.leg = @ + 1, !.wait = 0]
<1>1. /\ trip \in Trip /\ PlanLinks(trip.plan, trip.to) /\ HasLeg(trip)
      /\ PlanExists(trip.plan, trip.leg, lines) /\ ~IsWalk(CurrentLeg(trip))
  BY DEF TripSound
<1>2. trip.leg \in Nat /\ trip.leg \in 1..Len(trip.plan) /\ Len(trip.plan) \in Nat
  BY <1>1, TripFields DEF HasLeg
<1>3. trip.leg < Len(trip.plan) /\ IsWalk(trip.plan[trip.leg + 1])
  BY <1>1, <1>2 DEF PlanLinks, CurrentLeg
<1>4. trip.leg + 1 \in Nat \ {0} /\ "Walking" \in Statuses /\ 0 \in Int
  BY <1>2 DEF Statuses
<1>5. on \in Trip
  BY <1>1, <1>4 DEF Trip
<1>6. /\ on.plan = trip.plan /\ on.leg = trip.leg + 1 /\ on.to = trip.to /\ on.status = "Walking"
  BY <1>1 DEF Trip
<1> HIDE DEF on
<1>7. HasLeg(on) /\ IsWalk(CurrentLeg(on))
  BY <1>2, <1>3, <1>6 DEF HasLeg, CurrentLeg
<1>8. PlanExists(on.plan, on.leg, lines)
  BY <1>1, <1>2, <1>6 DEF PlanExists
<1>9. TripSound(on, lines)
  BY <1>1, <1>5, <1>6, <1>7, <1>8 DEF TripSound
<1>10. QED
  BY <1>6, <1>9 DEF on

\* Who alights walks on from the stop, and its seat is free.
LEMMA DisembarkSound ==
  ASSUME NEW c, NEW id \in DOMAIN c.vehicles, NEW d, DriveSound(c, id, d),
         NEW leg, leg.to \in DOMAIN Where, NEW done, IsFiniteSet(DOMAIN c.trips)
  PROVE  /\ DriveSound(c, id, Disembark(d, leg, done))
         /\ Disembark(d, leg, done).vehicle.index = d.vehicle.index
<1> DEFINE v == d.vehicle
           Leaves(t) ==
             LET trip == d.trips[t]
             IN  t \in v.riders /\ HasLeg(trip) /\ Alights(CurrentLeg(trip), v, leg, done)
           left == {t \in DOMAIN d.trips : Leaves(t)}
           w == [v EXCEPT !.riders = @ \ left]
           U == [t \in DOMAIN d.trips |->
                   IF t \in left
                   THEN [d.trips[t] EXCEPT !.at = Where[leg.to], !.status = "Walking", !.leg = @ + 1, !.wait = 0]
                   ELSE d.trips[t]]
<1>1. Disembark(d, leg, done) = [vehicle |-> w, trips |-> U]
  BY DEF Disembark
<1>2. /\ v \in Vehicle /\ v.line \in DOMAIN c.lines
      /\ OnItinerary(v, Legs[c.lines[v.line].pattern])
      /\ v.riders \in SUBSET DOMAIN c.trips /\ Cardinality(v.riders) <= Seats
      /\ DOMAIN d.trips = DOMAIN c.trips /\ d.trips \in [DOMAIN c.trips -> Trip]
      /\ \A t \in DOMAIN c.trips : TripSound(d.trips[t], c.lines)
      /\ \A t \in v.riders : d.trips[t].status = "Riding" /\ CurrentLeg(d.trips[t]).line = v.line
  BY DriveFacts
<1>3. left \subseteq v.riders
  OBVIOUS
<1> HIDE DEF v, left
<1>4. w \in Vehicle /\ w.line = v.line /\ w.riders = v.riders \ left /\ w.index = v.index
      /\ w.step = v.step /\ w.progress = v.progress
  BY <1>2 DEF Vehicle
<1> HIDE DEF w
<1>5. OnItinerary(w, Legs[c.lines[w.line].pattern])
  BY <1>2, <1>4 DEF OnItinerary
<1>6. Cardinality(w.riders) <= Seats
  <2>1. IsFiniteSet(v.riders)
    BY <1>2, FS_Subset
  <2>2. w.riders \in SUBSET v.riders
    BY <1>4
  <2>3. Cardinality(w.riders) <= Cardinality(v.riders) /\ IsFiniteSet(w.riders)
    BY <2>1, <2>2, FS_Subset
  <2>4. Cardinality(w.riders) \in Nat /\ Cardinality(v.riders) \in Nat /\ Seats \in Nat
    BY <2>1, <2>3, FS_CardinalityType, TripTickAssumption DEF TripTickAssumption
  <2>5. QED
    BY <1>2, <2>3, <2>4
<1>7. ASSUME NEW t \in DOMAIN c.trips
      PROVE  /\ TripSound(U[t], c.lines)
             /\ t \in left => U[t].status = "Walking"
             /\ t \notin left => U[t] = d.trips[t]
  <2>1. CASE t \notin left
    BY <1>2, <2>1
  <2>2. CASE t \in left
    <3>1. PICK trip : trip = d.trips[t]
      OBVIOUS
    <3>2. PICK at : at = Where[leg.to]
      OBVIOUS
    <3>3. PICK on : on = [trip EXCEPT !.at = at, !.status = "Walking", !.leg = @ + 1, !.wait = 0]
      OBVIOUS
    <3>4. U[t] = on
      BY <1>2, <2>2, <3>1, <3>2, <3>3
    <3>5. TripSound(trip, c.lines) /\ trip.status = "Riding" /\ at \in Position
      BY <1>2, <1>3, <2>2, <3>1, <3>2, WherePosition
    <3>6. TripSound(on, c.lines) /\ on.status = "Walking"
      BY <3>3, <3>5, LeavesSound
    <3>7. QED
      BY <2>2, <3>4, <3>6
  <2>3. QED
    BY <2>1, <2>2
<1>8. U \in [DOMAIN c.trips -> Trip]
  BY <1>2, <1>7 DEF TripSound
<1> HIDE DEF U
<1>9. \A t \in w.riders : t \in DOMAIN c.trips /\ U[t].status = "Riding" /\ CurrentLeg(U[t]).line = w.line
  BY <1>2, <1>4, <1>7
<1>10. \A t \in w.riders : t \notin v.riders => d.trips[t].status # "Riding"
  BY <1>4
<1>11. \A t \in DOMAIN c.trips : t \notin w.riders =>
         IF t \in v.riders THEN U[t].status # "Riding" ELSE U[t] = d.trips[t]
  BY <1>3, <1>4, <1>7
<1>12. DriveSound(c, id, [vehicle |-> w, trips |-> U])
  BY <1>2, <1>4, <1>5, <1>6, <1>7, <1>8, <1>9, <1>10, <1>11, DriveChanges DEF v
<1>13. QED
  BY <1>1, <1>4, <1>12 DEF v

\* The end of a leg: some alight, some board, and the vehicle stands on the next leg.
LEMMA CompleteLegSound ==
  ASSUME NEW c, NEW id \in DOMAIN c.vehicles, NEW d, DriveSound(c, id, d),
         NEW found, Found(found, c.trips),
         NEW legs, Itinerary(legs), NEW done \in 1..Len(legs)
  PROVE  DriveSound(c, id, CompleteLeg(d, legs, done, found))
<1>1. legs[done].to \in DOMAIN Where
  BY ItineraryFacts
<1>2. DriveSound(c, id, Disembark(d, legs[done], done))
  BY <1>1, DisembarkSound DEF Found
<1>3. QED
  BY <1>2, BoardSound DEF CompleteLeg

\* The cursor moves to a step of the itinerary again.
LEMMA AdvanceCursorFacts ==
  ASSUME NEW v \in Vehicle, NEW legs, Itinerary(legs), OnItinerary(v, legs)
  PROVE  /\ AdvanceCursor(v, legs) \in Vehicle /\ OnItinerary(AdvanceCursor(v, legs), legs)
         /\ AdvanceCursor(v, legs).line = v.line /\ AdvanceCursor(v, legs).riders = v.riders
<1>1. /\ v.index \in 1..Len(legs) /\ v.step \in Nat /\ Len(legs) \in Nat /\ Len(legs) >= 2
      /\ Len(legs[v.index].steps) \in Nat
  BY ItineraryFacts DEF OnItinerary, Vehicle
<1>2. \A i \in 1..Len(legs) : legs[i].steps # <<>> =>
        Len(legs[i].steps) >= 1 /\ \A k \in 1..Len(legs[i].steps) : 0 \in 0..(legs[i].steps[k] - 1)
  <2>1. TAKE i \in 1..Len(legs)
  <2>2. HAVE legs[i].steps # <<>>
  <2>3. PICK s \in Seq(Nat \ {0}) : s = legs[i].steps
    BY ItineraryFacts DEF Path
  <2>4. Len(s) >= 1 /\ \A k \in 1..Len(s) : s[k] \in Nat \ {0}
    BY <2>2, <2>3
  <2>5. \A k \in 1..Len(s) : 0 \in 0..(s[k] - 1)
    BY <2>4
  <2>6. QED
    BY <2>3, <2>4, <2>5
<1>3. CASE v.step < Len(legs[v.index].steps)
  <2>1. PICK w : w = [v EXCEPT !.step = @ + 1, !.progress = 0]
    OBVIOUS
  <2>2. AdvanceCursor(v, legs) = w
    BY <1>3, <2>1 DEF AdvanceCursor
  <2>3. v.step + 1 \in Nat /\ 0 \in Nat
    BY <1>1
  <2>4. /\ w \in Vehicle /\ w.line = v.line /\ w.riders = v.riders /\ w.index = v.index
        /\ w.step = v.step + 1 /\ w.progress = 0
    BY <2>1, <2>3 DEF Vehicle
  <2>5. legs[v.index].steps # <<>>
    <3>1. CASE legs[v.index].steps = <<>>
      <4>1. Len(legs[v.index].steps) = 0
        BY <3>1
      <4>2. QED
        BY <1>1, <1>3, <4>1
    <3>2. QED
      BY <3>1
  <2>6. v.step + 1 \in 1..Len(legs[v.index].steps)
    BY <1>1, <1>3
  <2>7. OnItinerary(w, legs)
    BY <1>1, <1>2, <2>4, <2>5, <2>6 DEF OnItinerary
  <2>8. QED
    BY <2>2, <2>4, <2>7
<1>4. CASE ~(v.step < Len(legs[v.index].steps))
  <2>1. PICK i : i = Around(legs, v.index + 1)
    OBVIOUS
  <2>2. i \in 1..Len(legs) /\ i \in Nat
    BY <1>1, <2>1 DEF Around
  <2>3. PICK w : w = [v EXCEPT !.index = i, !.step = 1, !.progress = 0]
    OBVIOUS
  <2>4. AdvanceCursor(v, legs) = w
    <3>1. AdvanceCursor(v, legs) = [v EXCEPT !.index = Around(legs, v.index + 1), !.step = 1, !.progress = 0]
      BY <1>4 DEF AdvanceCursor, Vehicle
    <3>2. QED
      BY <2>1, <2>3, <3>1
  <2>5. 0 \in Nat /\ 1 \in Nat
    OBVIOUS
  <2>6. /\ w \in Vehicle /\ w.line = v.line /\ w.riders = v.riders /\ w.index = i
        /\ w.step = 1 /\ w.progress = 0
    BY <2>2, <2>3, <2>5 DEF Vehicle
  <2>7. OnItinerary(w, legs)
    <3>1. CASE legs[i].steps = <<>>
      BY <2>2, <2>6, <3>1 DEF OnItinerary
    <3>2. CASE legs[i].steps # <<>>
      <4>1. 1 \in 1..Len(legs[i].steps)
        BY <1>2, <2>2, <3>2, ItineraryFacts
      <4>2. QED
        BY <1>2, <2>2, <2>6, <3>2, <4>1 DEF OnItinerary
    <3>3. QED
      BY <3>1, <3>2
  <2>8. QED
    BY <2>4, <2>6, <2>7
<1>5. QED
  BY <1>3, <1>4

\* The vehicle moves without letting anybody on or off.
LEMMA MovedSound ==
  ASSUME NEW c, NEW id \in DOMAIN c.vehicles, NEW d, DriveSound(c, id, d), NEW w \in Vehicle,
         w.line = d.vehicle.line, w.riders = d.vehicle.riders,
         OnItinerary(w, Legs[c.lines[w.line].pattern])
  PROVE  DriveSound(c, id, [d EXCEPT !.vehicle = w])
<1>1. PICK U : U = d.trips
  OBVIOUS
<1>2. /\ d.trips \in [DOMAIN c.trips -> Trip] /\ d = [vehicle |-> d.vehicle, trips |-> d.trips]
      /\ \A t \in DOMAIN c.trips : TripSound(d.trips[t], c.lines)
      /\ d.vehicle.riders \in SUBSET DOMAIN c.trips /\ Cardinality(d.vehicle.riders) <= Seats
      /\ \A t \in d.vehicle.riders : d.trips[t].status = "Riding" /\ CurrentLeg(d.trips[t]).line = d.vehicle.line
  BY DriveFacts
<1>3. [d EXCEPT !.vehicle = w] = [vehicle |-> w, trips |-> U]
  BY <1>1, <1>2
<1>4. \A t \in DOMAIN c.trips : t \notin w.riders =>
         IF t \in d.vehicle.riders THEN U[t].status # "Riding" ELSE U[t] = d.trips[t]
  BY <1>1
<1>5. DriveSound(c, id, [vehicle |-> w, trips |-> U])
  BY <1>1, <1>2, <1>4, DriveChanges
<1>6. QED
  BY <1>3, <1>5

\* The seconds a drive has left, with what it has done so far.
Runs(c, id) ==
  {run \in [drive : Drive(c.trips), left : Nat, empties : Nat] : DriveSound(c, id, run.drive)}

\* One round of the loop in which a vehicle uses up its substep.
LEMMA DriveOnSound ==
  ASSUME NEW c, NEW id \in DOMAIN c.vehicles, NEW found, Found(found, c.trips),
         NEW legs, Itinerary(legs), legs = Legs[c.lines[c.vehicles[id].line].pattern],
         NEW run \in Runs(c, id)
  PROVE  DriveOn(run, legs, found) \in Runs(c, id)
<1> DEFINE d == run.drive
           v == d.vehicle
           steps == legs[v.index].steps
           w == AdvanceCursor(v, legs)
           moved == [d EXCEPT !.vehicle = w]
           arrived == IF moved.vehicle.index = v.index THEN moved
                      ELSE CompleteLeg(moved, legs, v.index, found)
           limit == Max({1, Sum([i \in 1..Len(legs) |-> Len(legs[i].steps)])})
           rest == steps[v.step] - v.progress
           onward == [vehicle |-> [v EXCEPT !.progress = @ + run.left], trips |-> d.trips]
<1>0. /\ DriveSound(c, id, d) /\ run.left \in Nat /\ run.empties \in Nat /\ d \in Drive(c.trips)
      /\ run = [drive |-> d, left |-> run.left, empties |-> run.empties]
  BY DEF Runs
<1>1. /\ d = [vehicle |-> v, trips |-> d.trips] /\ v \in Vehicle /\ v.line = c.vehicles[id].line
      /\ OnItinerary(v, legs)
  BY <1>0, DriveFacts DEF DriveSound
<1>2. v.index \in 1..Len(legs) /\ v.step \in Nat /\ v.progress \in Nat
  BY <1>1 DEF OnItinerary, Vehicle
<1>3. DriveOn(run, legs, found) =
        IF run.left = 0 THEN run
        ELSE IF steps = <<>> THEN
          [drive |-> CompleteLeg(moved, legs, v.index, found),
           left |-> IF run.empties + 1 > limit THEN 0 ELSE run.left, empties |-> run.empties + 1]
        ELSE IF run.left < rest THEN
          [drive |-> onward, left |-> 0, empties |-> 0]
        ELSE [drive |-> arrived, left |-> run.left - rest, empties |-> 0]
  <2>1. [d EXCEPT !.vehicle.progress = @ + run.left] = onward
    BY <1>1 DEF Vehicle
  <2> HIDE DEF onward
  <2>2. QED
    BY <2>1 DEF DriveOn
<1> HIDE DEF limit
<1>4. /\ w \in Vehicle /\ OnItinerary(w, legs) /\ w.line = v.line /\ w.riders = v.riders
  BY <1>1, AdvanceCursorFacts
<1> HIDE DEF w
<1>5. DriveSound(c, id, moved)
  <2> HIDE DEF d
  <2>1. QED
    BY <1>0, <1>1, <1>4, MovedSound
<1>6. DriveSound(c, id, CompleteLeg(moved, legs, v.index, found))
  <2> HIDE DEF moved, v
  <2>1. QED
    BY <1>2, <1>5, CompleteLegSound
<1>7. DriveSound(c, id, arrived)
  BY <1>5, <1>6
<1>8. ASSUME steps # <<>>
      PROVE  rest \in Nat
  <2>1. v.step \in 1..Len(steps) /\ v.progress \in 0..(steps[v.step] - 1)
    BY <1>1, <1>8 DEF OnItinerary
  <2>2. steps \in Seq(Nat)
    BY <1>2, ItineraryFacts
  <2>3. steps[v.step] \in Nat
    BY <2>1, <2>2, ElementOfSeq
  <2> HIDE DEF v, steps
  <2>4. QED
    BY <2>1, <2>3
<1>9. ASSUME steps # <<>>, run.left < rest
      PROVE  DriveSound(c, id, onward)
  <2>1. v.step \in 1..Len(steps) /\ v.progress \in 0..(steps[v.step] - 1)
    BY <1>1, <1>9 DEF OnItinerary
  <2>2. steps \in Seq(Nat)
    BY <1>2, ItineraryFacts
  <2>3. steps[v.step] \in Nat
    BY <2>1, <2>2, ElementOfSeq
  <2>4. PICK p \in Nat : p = v.progress + run.left
    BY <1>0, <1>2
  <2>5. p \in 0..(steps[v.step] - 1)
    <3> HIDE DEF v, steps
    <3>1. QED
      BY <1>0, <1>2, <1>9, <2>1, <2>3, <2>4
  <2>6. PICK x : x = [v EXCEPT !.progress = p]
    OBVIOUS
  <2>7. x \in Vehicle /\ x.line = v.line /\ x.riders = v.riders /\ x.index = v.index /\ x.step = v.step /\ x.progress = p
    BY <1>1, <2>6 DEF Vehicle
  <2>8. OnItinerary(x, legs)
    BY <1>1, <1>9, <2>5, <2>7 DEF OnItinerary
  <2>9. onward = [d EXCEPT !.vehicle = x]
    BY <1>1, <2>4, <2>6 DEF Vehicle
  <2>10. DriveSound(c, id, [d EXCEPT !.vehicle = x])
    <3> HIDE DEF d
    <3>1. QED
      BY <1>0, <1>1, <2>7, <2>8, MovedSound
  <2>11. QED
    BY <2>9, <2>10
<1> HIDE DEF d, v, steps, moved, arrived, rest, onward
<1>10. \A x, left, empties : DriveSound(c, id, x) /\ left \in Nat /\ empties \in Nat
         => [drive |-> x, left |-> left, empties |-> empties] \in Runs(c, id)
  BY DEF Runs, DriveSound
<1>11. CASE run.left = 0
  BY <1>3, <1>11
<1>12. CASE run.left # 0 /\ steps = <<>>
  <2>1. (IF run.empties + 1 > limit THEN 0 ELSE run.left) \in Nat /\ run.empties + 1 \in Nat
    BY <1>0
  <2>2. QED
    BY <1>3, <1>6, <1>10, <1>12, <2>1
<1>13. CASE run.left # 0 /\ steps # <<>> /\ run.left < rest
  BY <1>3, <1>9, <1>10, <1>13
<1>14. CASE run.left # 0 /\ steps # <<>> /\ ~(run.left < rest)
  <2>1. run.left - rest \in Nat
    BY <1>0, <1>8, <1>14
  <2>2. QED
    BY <1>3, <1>7, <1>10, <1>14, <2>1
<1>15. QED
  BY <1>11, <1>12, <1>13, <1>14

\* Every round of the loop stays in M.
RoundsStay(M, legs, found) == \A r \in M : DriveOn(r, legs, found) \in M
Begun(d, seconds) == [drive |-> d, left |-> seconds, empties |-> 0]
DrivesOf(M) == {r.drive : r \in M}

\* What every round keeps, the whole loop keeps.
LEMMA AdvanceVehicleStays ==
  ASSUME NEW legs, Itinerary(legs), NEW found, NEW d, NEW seconds \in Nat, NEW M,
         Begun(d, seconds) \in M,
         RoundsStay(M, legs, found)
  PROVE  AdvanceVehicle(d, legs, found, seconds) \in DrivesOf(M)
<1> DEFINE N == seconds * (1 + Cardinality({i \in DOMAIN legs : legs[i].steps = <<>>}))
           base == [drive |-> d, left |-> seconds, empties |-> 0]
           Op(x) == DriveOn(x, legs, found)
           run[n \in 0..N] == IF n = 0 THEN base ELSE Op(run[n - 1])
<1>1. AdvanceVehicle(d, legs, found, seconds) = run[N].drive
  BY DEF AdvanceVehicle
<1>2. N \in Nat
  <2>1. PICK k : k = Cardinality({i \in DOMAIN legs : legs[i].steps = <<>>})
    OBVIOUS
  <2>2. k \in Nat
    <3>1. DOMAIN legs = 1..Len(legs) /\ Len(legs) \in Nat
      BY ItineraryFacts
    <3>2. IsFiniteSet(1..Len(legs))
      BY <3>1, FS_Interval
    <3>3. {i \in DOMAIN legs : legs[i].steps = <<>>} \in SUBSET (1..Len(legs))
      BY <3>1
    <3>4. IsFiniteSet({i \in DOMAIN legs : legs[i].steps = <<>>})
      BY <3>2, <3>3, FS_Subset
    <3>5. QED
      BY <2>1, <3>4, FS_CardinalityType
  <2>3. 1 + k \in Nat
    BY <2>2
  <2>4. \A a, b \in Nat : a * b \in Nat
    OBVIOUS
  <2>5. QED
    BY <2>1, <2>3, <2>4
<1>3. base \in M
  BY DEF Begun
<1>4. \A x \in M : Op(x) \in M
  BY DEF RoundsStay
<1>5. run = CHOOSE f : f = [n \in 0..N |-> IF n = 0 THEN base ELSE Op(f[n - 1])]
  OBVIOUS
<1> HIDE DEF N, base, Op, run
<1>6. PICK step : step = [x \in (1..N) \X M |-> Op(x[2])]
  OBVIOUS
<1>7. step \in StepsOf(N, M)
  BY <1>4, <1>6 DEF StepsOf
<1>8. PICK g \in [0..N -> M] : Iterates(g, N, base, step)
  BY <1>2, <1>3, <1>7, Iteration
<1>9. g = [n \in 0..N |-> IF n = 0 THEN base ELSE Op(g[n - 1])]
  <2>1. ASSUME NEW n \in 0..N, n # 0
        PROVE  step[<<n, g[n - 1]>>] = Op(g[n - 1])
    <3>1. n \in 1..N /\ n - 1 \in 0..N
      BY <1>2, <2>1
    <3>2. QED
      BY <1>6, <3>1
  <2>2. QED
    BY <1>8, <2>1 DEF Iterates
<1>10. run = [n \in 0..N |-> IF n = 0 THEN base ELSE Op(run[n - 1])]
  BY <1>5, <1>9
<1>11. run[0] = base
  BY <1>2, <1>10
<1>12. \A n \in 1..N : run[n - 1] \in M => run[n] = step[<<n, run[n - 1]>>]
  BY <1>2, <1>6, <1>10
<1>13. run[N] \in M
  BY <1>2, <1>3, <1>7, <1>11, <1>12, Recursion
<1>14. QED
  BY <1>1, <1>13 DEF DrivesOf

\* So the whole loop keeps the vehicle and the trips sound.
LEMMA AdvanceVehicleSound ==
  ASSUME NEW c, NEW id \in DOMAIN c.vehicles, NEW found, Found(found, c.trips),
         NEW legs, Itinerary(legs), legs = Legs[c.lines[c.vehicles[id].line].pattern],
         NEW d, DriveSound(c, id, d), NEW seconds \in Nat
  PROVE  DriveSound(c, id, AdvanceVehicle(d, legs, found, seconds))
<1>1. Begun(d, seconds) \in Runs(c, id)
  BY DEF Runs, DriveSound, Begun
<1>2. RoundsStay(Runs(c, id), legs, found)
  BY DriveOnSound DEF RoundsStay
<1>3. AdvanceVehicle(d, legs, found, seconds) \in DrivesOf(Runs(c, id))
  BY <1>1, <1>2, AdvanceVehicleStays
<1>4. QED
  BY <1>3 DEF Runs, DrivesOf

\* The city in which only the vehicles and what their trips do have changed.
SameBut(d, c) ==
  /\ d.clock = c.clock /\ d.spawned = c.spawned /\ d.lines = c.lines
  /\ d.resolutions = c.resolutions /\ d.tally = c.tally
  /\ DOMAIN d.vehicles = DOMAIN c.vehicles /\ DOMAIN d.trips = DOMAIN c.trips
Moved(c) == {d \in City : SameBut(d, c) /\ Sound(d.lines, d.vehicles, d.trips)}

\* A vehicle that moves leaves the rest of the city as it was, and all of it sound.
LEMMA TickVehicleSound ==
  ASSUME NEW c \in City, Sound(c.lines, c.vehicles, c.trips), NEW id \in DOMAIN c.vehicles,
         NEW found, Found(found, c.trips), NEW seconds \in Nat
  PROVE  TickVehicle(c, id, found, seconds) \in Moved(c)
<1> DEFINE v == c.vehicles[id]
           legs == LegsOf(c, v.line)
           leg == legs[v.index]
           start == [vehicle |-> v, trips |-> c.trips]
           ready == IF Departing(v, leg) THEN Board(start, leg.from, found) ELSE start
           end == AdvanceVehicle(ready, legs, found, seconds)
           V == [c.vehicles EXCEPT ![id] = end.vehicle]
           after == [c EXCEPT !.vehicles = V, !.trips = end.trips]
<1>1. TickVehicle(c, id, found, seconds) = IF IsRouteOperational(c, v.line) THEN after ELSE c
  BY DEF TickVehicle, Driven
<1>2. /\ c.vehicles \in Partial(Vehicle) /\ c.trips \in Partial(Trip)
      /\ c = [clock |-> c.clock, spawned |-> c.spawned, trips |-> c.trips, vehicles |-> c.vehicles,
              lines |-> c.lines, resolutions |-> c.resolutions, tally |-> c.tally]
  BY DEF City
<1>3. /\ DOMAIN c.vehicles \in SUBSET Nat /\ c.vehicles \in [DOMAIN c.vehicles -> Vehicle]
      /\ DOMAIN c.trips \in SUBSET Nat /\ c.trips \in [DOMAIN c.trips -> Trip]
  BY <1>2, PartialFacts
<1>4. Itinerary(legs) /\ legs = Legs[c.lines[c.vehicles[id].line].pattern]
  <2>1. v.line \in DOMAIN c.lines
    BY DEF Sound, VehicleSound
  <2>2. c.lines[v.line].pattern \in Patterns
    BY <2>1 DEF Sound, LinesTyped, Line
  <2>3. QED
    BY <2>2, LegsFacts DEF LegsOf
<1>5. DriveSound(c, id, start)
  <2>1. [c.vehicles EXCEPT ![id] = v] = c.vehicles /\ v \in Vehicle
    BY <1>3
  <2>2. QED
    BY <1>3, <2>1 DEF DriveSound, Drive
<1> HIDE DEF start, legs, leg, v
<1>6. DriveSound(c, id, ready)
  BY <1>5, BoardSound
<1> HIDE DEF ready
<1>7. DriveSound(c, id, end)
  BY <1>4, <1>6, AdvanceVehicleSound
<1>8. end.vehicle \in Vehicle /\ end.trips \in [DOMAIN c.trips -> Trip] /\ DOMAIN end.trips = DOMAIN c.trips
  BY <1>7, DriveFacts
<1>9. Sound(c.lines, V, end.trips)
  BY <1>7 DEF DriveSound
<1> HIDE DEF end
<1>10. V \in [DOMAIN c.vehicles -> Vehicle]
  BY <1>3, <1>8
<1>11. V \in Partial(Vehicle) /\ end.trips \in Partial(Trip) /\ DOMAIN V = DOMAIN c.vehicles
  BY <1>3, <1>8, <1>10, IsPartial
<1> HIDE DEF V
<1>12. /\ after.clock = c.clock /\ after.spawned = c.spawned /\ after.lines = c.lines
       /\ after.resolutions = c.resolutions /\ after.tally = c.tally
       /\ after.vehicles = V /\ after.trips = end.trips
  BY <1>2
<1>13. after \in City
  BY <1>2, <1>11 DEF City
<1> HIDE DEF after
<1>14. after \in Moved(c)
  BY <1>8, <1>9, <1>11, <1>12, <1>13 DEF Moved, SameBut
<1>15. c \in Moved(c)
  BY DEF Moved, SameBut
<1>16. QED
  BY <1>1, <1>14, <1>15

\* What every vehicle that moves keeps, they keep together.
LEMMA TickVehiclesStays ==
  ASSUME NEW c, Numbered(DOMAIN c.vehicles), NEW seconds, NEW M, c \in M,
         \A id \in DOMAIN c.vehicles, x \in M : TickVehicle(x, id, c, seconds) \in M
  PROVE  TickVehicles(c, seconds) \in M
<1> DEFINE ids == Ascending(DOMAIN c.vehicles)
           N == Len(ids)
           Op(n, x) == TickVehicle(x, ids[n], c, seconds)
           after[n \in 0..N] == IF n = 0 THEN c ELSE Op(n, after[n - 1])
<1>1. TickVehicles(c, seconds) = after[N]
  BY DEF TickVehicles
<1>2. N \in Nat /\ \A n \in 1..N : ids[n] \in DOMAIN c.vehicles
  <2>1. DOMAIN c.vehicles \in SUBSET Nat /\ IsFiniteSet(DOMAIN c.vehicles)
    BY NumberedFinite
  <2> HIDE DEF ids
  <2>2. N = Cardinality(DOMAIN c.vehicles) /\ Cardinality(DOMAIN c.vehicles) \in Nat
    BY <2>1, AscendingFacts DEF ids
  <2>3. \A n \in 1..Cardinality(DOMAIN c.vehicles) : ids[n] \in DOMAIN c.vehicles
    BY <2>1, AscendingFacts DEF ids
  <2>4. QED
    BY <2>2, <2>3
<1>3. c \in M
  OBVIOUS
<1>5. \A n \in 1..N, x \in M : Op(n, x) \in M
  BY <1>2
<1>6. after = CHOOSE f : f = [n \in 0..N |-> IF n = 0 THEN c ELSE Op(n, f[n - 1])]
  OBVIOUS
<1> HIDE DEF N, Op, after
<1>7. PICK step : step = [x \in (1..N) \X M |-> Op(x[1], x[2])]
  OBVIOUS
<1>8. step \in StepsOf(N, M)
  BY <1>5, <1>7 DEF StepsOf
<1>9. PICK g \in [0..N -> M] : Iterates(g, N, c, step)
  BY <1>2, <1>3, <1>8, Iteration
<1>10. g = [n \in 0..N |-> IF n = 0 THEN c ELSE Op(n, g[n - 1])]
  <2>1. ASSUME NEW n \in 0..N, n # 0
        PROVE  step[<<n, g[n - 1]>>] = Op(n, g[n - 1])
    <3>1. n \in 1..N /\ n - 1 \in 0..N
      BY <1>2, <2>1
    <3>2. QED
      BY <1>7, <3>1
  <2>2. QED
    BY <1>9, <2>1 DEF Iterates
<1>11. after = [n \in 0..N |-> IF n = 0 THEN c ELSE Op(n, after[n - 1])]
  BY <1>6, <1>10
<1>12. after[0] = c
  BY <1>2, <1>11
<1>13. \A n \in 1..N : after[n - 1] \in M => after[n] = step[<<n, after[n - 1]>>]
  BY <1>2, <1>7, <1>11
<1>14. after[N] \in M
  BY <1>2, <1>3, <1>8, <1>12, <1>13, Recursion
<1>15. QED
  BY <1>1, <1>14

\* The city itself is what its vehicles find.
LEMMA FoundItself ==
  ASSUME NEW c \in City, IsFiniteSet(DOMAIN c.trips)
  PROVE  Found(c, c.trips)
<1>1. c.trips \in Partial(Trip)
  BY DEF City
<1>2. DOMAIN c.trips \in SUBSET Nat /\ \A t \in DOMAIN c.trips : c.trips[t] \in Trip
  BY <1>1, PartialFacts
<1>3. \A t \in DOMAIN c.trips : c.trips[t].patience \in Int
  BY <1>2, TripFields
<1>4. QED
  BY <1>2, <1>3 DEF Found

\* All of them leave the rest of the city as it was, and all of it sound.
LEMMA TickVehiclesSound ==
  ASSUME NEW c \in City, Sound(c.lines, c.vehicles, c.trips), Numbered(DOMAIN c.vehicles),
         IsFiniteSet(DOMAIN c.trips), NEW seconds \in Nat
  PROVE  TickVehicles(c, seconds) \in Moved(c)
<1>1. c \in Moved(c)
  BY DEF Moved, SameBut
<1>2. ASSUME NEW id \in DOMAIN c.vehicles, NEW x \in Moved(c)
      PROVE  TickVehicle(x, id, c, seconds) \in Moved(c)
  <2>1. x \in City /\ Sound(x.lines, x.vehicles, x.trips) /\ SameBut(x, c) /\ id \in DOMAIN x.vehicles
    BY <1>2 DEF Moved, SameBut
  <2>2. Found(c, x.trips)
    BY <2>1, FoundItself DEF Found, SameBut
  <2>3. TickVehicle(x, id, c, seconds) \in Moved(x)
    BY <2>1, <2>2, TickVehicleSound
  <2>4. QED
    BY <2>1, <2>3 DEF Moved, SameBut
<1>3. QED
  BY <1>1, <1>2, TickVehiclesStays

-----------------------------------------------------------------------------
(* A substep.                                                              *)

\* The fields of a city.
LEMMA CityFields ==
  ASSUME NEW c \in City
  PROVE  /\ c = [clock |-> c.clock, spawned |-> c.spawned, trips |-> c.trips, vehicles |-> c.vehicles,
                 lines |-> c.lines, resolutions |-> c.resolutions, tally |-> c.tally]
         /\ c.clock \in Nat /\ c.spawned \in 0..Len(Demands) /\ c.spawned \in Nat /\ Len(Demands) \in Nat
         /\ c.trips \in Partial(Trip) /\ c.vehicles \in Partial(Vehicle) /\ c.lines \in Partial(Line)
         /\ c.resolutions \in Seq(Resolution) /\ c.tally \in Tally
         /\ DOMAIN c.trips \in SUBSET Nat /\ c.trips \in [DOMAIN c.trips -> Trip]
         /\ \A t \in DOMAIN c.trips : c.trips[t] \in Trip
<1>1. /\ c = [clock |-> c.clock, spawned |-> c.spawned, trips |-> c.trips, vehicles |-> c.vehicles,
              lines |-> c.lines, resolutions |-> c.resolutions, tally |-> c.tally]
      /\ c.clock \in Nat /\ c.spawned \in 0..Len(Demands)
      /\ c.trips \in Partial(Trip) /\ c.vehicles \in Partial(Vehicle) /\ c.lines \in Partial(Line)
      /\ c.resolutions \in Seq(Resolution) /\ c.tally \in Tally
  BY DEF City
<1>2. Len(Demands) \in Nat
  BY TripTickAssumption DEF TripTickAssumption
<1>3. /\ DOMAIN c.trips \in SUBSET Nat /\ c.trips \in [DOMAIN c.trips -> Trip]
      /\ \A t \in DOMAIN c.trips : c.trips[t] \in Trip
  BY <1>1, PartialFacts
<1>4. QED
  BY <1>1, <1>2, <1>3

\* Finitely many trips travel, and every one of them was spawned.
LEMMA TripsFinite ==
  ASSUME NEW c, CityInv(c)
  PROVE  IsFiniteSet(DOMAIN c.trips) /\ DOMAIN c.trips \subseteq 1..c.spawned
<1>1. DOMAIN c.trips \subseteq 1..c.spawned /\ c.spawned \in Nat
  BY CityFields DEF CityInv, Accounted
<1>2. IsFiniteSet(1..c.spawned)
  BY <1>1, FS_Interval
<1>3. QED
  BY <1>1, <1>2, FS_Subset

\* The vehicles and what their trips do are all that moving changes.
LEMMA MovedInv ==
  ASSUME NEW c, CityInv(c), NEW d \in Moved(c)
  PROVE  CityInv(d)
BY DEF CityInv, Moved, SameBut, Accounted

\* Seats depend on nothing of a trip but its status and its leg.
LEMMA SeatedSame ==
  ASSUME NEW V, NEW T, Seated(V, T), NEW U, DOMAIN U = DOMAIN T,
         \A t \in DOMAIN T : /\ U[t].status = T[t].status /\ CurrentLeg(U[t]) = CurrentLeg(T[t])
  PROVE  Seated(V, U)
BY DEF Seated

\* Time passes: patience runs out and deadlines come closer, and nothing else changes.
LEMMA AdvanceClockSound ==
  ASSUME NEW c, CityInv(c), NEW seconds \in Nat
  PROVE  CityInv(AdvanceClock(c, seconds))
<1> DEFINE Later(trip) == [trip EXCEPT !.left = Max({@ - seconds, -(Grace + MaxDelta)}),
                                       !.drive = Floor(@ - seconds)]
           clock == Min({c.clock + seconds, LastDue})
           U == [t \in DOMAIN c.trips |-> Later(c.trips[t])]
           d == AdvanceClock(c, seconds)
<1>1. c \in City /\ Sound(c.lines, c.vehicles, c.trips)
  BY DEF CityInv
<1>2. d = [c EXCEPT !.clock = clock, !.trips = U]
  BY DEF AdvanceClock
<1>3. clock \in Nat
  <2>1. c.clock + seconds \in Nat
    BY <1>1, CityFields
  <2>2. LastDue \in Nat
    <3>1. Demands \in Seq([due : Nat, from : Nat \X Nat, to : Nat \X Nat, drive : Nat])
      BY TripTickAssumption DEF TripTickAssumption
    <3>2. Demands # <<>> => Demands[Len(Demands)] \in [due : Nat, from : Nat \X Nat, to : Nat \X Nat, drive : Nat]
      <4>1. Len(Demands) \in Nat /\ (Demands # <<>> => Len(Demands) # 0)
        BY <3>1, EmptySeq
      <4>2. Demands # <<>> => Len(Demands) \in 1..Len(Demands)
        BY <4>1
      <4>3. QED
        BY <3>1, <4>2, ElementOfSeq
    <3>3. QED
      BY <3>2 DEF LastDue
  <2>3. QED
    BY <2>1, <2>2, MinFacts
<1>4. ASSUME NEW t \in DOMAIN c.trips
      PROVE  /\ TripSound(Later(c.trips[t]), c.lines)
             /\ Later(c.trips[t]).status = c.trips[t].status /\ CurrentLeg(Later(c.trips[t])) = CurrentLeg(c.trips[t])
  <2>1. PICK trip : trip = c.trips[t]
    OBVIOUS
  <2>2. trip \in Trip /\ TripSound(trip, c.lines)
    BY <1>1, <2>1 DEF Sound, TripSound
  <2>3. MaxDelta \in Int /\ Grace \in Int
    <3>1. PICK m \in Deltas : \A x \in Deltas : m >= x
      BY TripTickAssumption DEF TripTickAssumption
    <3>2. Deltas \in SUBSET Int
      BY TripTickAssumption DEF TripTickAssumption
    <3>3. Max(Deltas) \in Deltas
      BY <3>1, <3>2, MaxFacts
    <3>4. QED
      BY <3>2, <3>3, TripTickAssumption DEF MaxDelta, TripTickAssumption
  <2>4. trip.left - seconds \in Int /\ -(Grace + MaxDelta) \in Int /\ trip.drive - seconds \in Int
    BY <2>2, <2>3, TripFields
  <2>5. PICK left \in Int : left = Max({trip.left - seconds, -(Grace + MaxDelta)})
    BY <2>4, MaxOfTwo
  <2>6. PICK drive \in Nat : drive = Floor(trip.drive - seconds)
    BY <2>4, FloorType
  <2>7. PICK on : on = [trip EXCEPT !.left = left, !.drive = drive]
    OBVIOUS
  <2>8. Later(trip) = on
    BY <2>2, <2>5, <2>6, <2>7 DEF Trip
  <2>9. /\ on \in Trip /\ on.plan = trip.plan /\ on.leg = trip.leg /\ on.to = trip.to /\ on.status = trip.status
        /\ on.at = trip.at
        /\ CurrentLeg(on) = CurrentLeg(trip)
    BY <2>2, <2>7 DEF Trip, CurrentLeg
  <2>10. TripSound(on, c.lines)
    BY <2>2, <2>9 DEF TripSound, HasLeg
  <2> HIDE DEF Later
  <2>11. QED
    BY <2>1, <2>8, <2>9, <2>10
<1> HIDE DEF Later
<1>5. U \in [DOMAIN c.trips -> Trip] /\ DOMAIN U = DOMAIN c.trips
  BY <1>4 DEF TripSound
<1>6. Sound(c.lines, c.vehicles, U)
  <2>1. Seated(c.vehicles, U)
    BY <1>1, <1>4, SeatedSame DEF Sound
  <2>2. QED
    BY <1>1, <1>4, <2>1 DEF Sound
<1>7. U \in Partial(Trip)
  BY <1>1, <1>5, CityFields, IsPartial
<1> HIDE DEF U, clock, d
<1>8. /\ d.clock = clock /\ d.spawned = c.spawned /\ d.trips = U /\ d.vehicles = c.vehicles
      /\ d.lines = c.lines /\ d.resolutions = c.resolutions /\ d.tally = c.tally /\ d \in City
  BY <1>1, <1>2, <1>3, <1>7 DEF City
<1>9. QED
  BY <1>5, <1>6, <1>8 DEF CityInv, Accounted, d

\* What is numbered one to one by a finite set has its size.
LEMMA OneToOne ==
  ASSUME NEW S, IsFiniteSet(S), NEW T, NEW f \in [S -> T],
         \A i, j \in S : f[i] = f[j] => i = j, \A x \in T : \E i \in S : f[i] = x
  PROVE  IsFiniteSet(T) /\ Cardinality(T) = Cardinality(S)
<1>1. f \in Bijection(S, T)
  BY DEF Bijection, Injection, Surjection, IsInjective
<1>2. ExistsBijection(S, T)
  BY <1>1 DEF ExistsBijection
<1>3. QED
  BY <1>2, FS_Bijection

\* No trip is resolved twice, and those that are with this outcome.
OnceEach(r) == \A i, j \in 1..Len(r) : r[i].trip = r[j].trip => i = j
TripsWith(r, b) == {r[i].trip : i \in {j \in 1..Len(r) : r[j].completed = b}}

\* Resolutions that are appended, counted by the trips they are about.
LEMMA CountAppended ==
  ASSUME NEW s \in Seq(Resolution), NEW r \in Seq(Resolution), NEW b, OnceEach(r)
  PROVE  /\ CountOf(s \o r, b) = CountOf(s, b) + Cardinality(TripsWith(r, b))
         /\ CountOf(s, b) \in Nat /\ Cardinality(TripsWith(r, b)) \in Nat
<1> DEFINE X == TripsWith(r, b)
           m == Len(s)
           k == Len(r)
           A == {i \in 1..m : s[i].completed = b}
           B == {i \in 1..k : r[i].completed = b}
           C == {i \in 1..(m + k) : i - m \in B}
           all == {i \in 1..Len(s \o r) : (s \o r)[i].completed = b}
<1>1. m \in Nat /\ k \in Nat /\ Len(s \o r) = m + k
  OBVIOUS
<1>2. all = A \cup C
  <2>1. \A i \in 1..(m + k) : (s \o r)[i] = IF i <= m THEN s[i] ELSE r[i - m]
    BY <1>1
  <2>2. \A i \in 1..(m + k) : i <= m => i \in 1..m /\ i - m \notin 1..k
    BY <1>1
  <2>3. \A i \in 1..(m + k) : ~(i <= m) => i \notin 1..m /\ i - m \in 1..k
    BY <1>1
  <2>4. \A i \in 1..m : i \in 1..(m + k)
    BY <1>1
  <2> HIDE DEF m, k
  <2>5. \A i \in 1..(m + k) : i \in all <=> i \in A \/ i \in C
    BY <1>1, <2>1, <2>2, <2>3
  <2>6. all \subseteq 1..(m + k) /\ A \subseteq 1..(m + k) /\ C \subseteq 1..(m + k)
    BY <1>1, <2>4
  <2>7. QED
    BY <2>5, <2>6
<1>3. IsFiniteSet(1..m) /\ IsFiniteSet(1..k) /\ IsFiniteSet(1..(m + k))
  BY <1>1, FS_Interval
<1>4. IsFiniteSet(A) /\ IsFiniteSet(B) /\ IsFiniteSet(C)
  BY <1>3, FS_Subset
<1>5. A \cap C = {}
  BY <1>1
<1>6. Cardinality(C) = Cardinality(B)
  <2> DEFINE f == [i \in B |-> i + m]
  <2>1. IsFiniteSet(C) /\ Cardinality(C) = Cardinality(B)
    <3>1. \A i \in B : i + m \in C
      BY <1>1
    <3>2. \A i, j \in B : i + m = j + m => i = j
      BY <1>1
    <3>3. \A x \in C : x - m \in B /\ (x - m) + m = x
      BY <1>1
    <3> HIDE DEF B, C, m
    <3>4. f \in [B -> C] /\ \A i, j \in B : f[i] = f[j] => i = j
      BY <3>1, <3>2
    <3>5. \A x \in C : \E i \in B : f[i] = x
      BY <3>3
    <3> HIDE DEF f
    <3>6. QED
      BY <1>4, <3>4, <3>5, OneToOne
  <2>2. QED
    BY <2>1
<1>7. IsFiniteSet(X) /\ Cardinality(X) = Cardinality(B)
  <2> DEFINE f == [i \in B |-> r[i].trip]
  <2>1. IsFiniteSet(X) /\ Cardinality(X) = Cardinality(B)
    <3>1. \A i \in B : r[i].trip \in X
      BY DEF TripsWith
    <3>2. \A i, j \in B : r[i].trip = r[j].trip => i = j
      BY DEF OnceEach
    <3>3. \A x \in X : \E i \in B : r[i].trip = x
      BY DEF TripsWith
    <3> HIDE DEF B, X
    <3>4. f \in [B -> X] /\ \A i, j \in B : f[i] = f[j] => i = j
      BY <3>1, <3>2
    <3>5. \A x \in X : \E i \in B : f[i] = x
      BY <3>3
    <3> HIDE DEF f
    <3>6. QED
      BY <1>4, <3>4, <3>5, OneToOne
  <2>2. QED
    BY <2>1
<1>8. Cardinality(A \cup C) = Cardinality(A) + Cardinality(C) - Cardinality(A \cap C)
  BY <1>4, FS_Union
<1>9. Cardinality(A) \in Nat /\ Cardinality(C) \in Nat /\ Cardinality(B) \in Nat /\ Cardinality({}) = 0
  BY <1>4, FS_CardinalityType, FS_EmptySet
<1>10. CountOf(s \o r, b) = Cardinality(all) /\ CountOf(s, b) = Cardinality(A)
  BY DEF CountOf
<1> HIDE DEF A, B, C, all
<1>11. Cardinality(all) = Cardinality(A) + Cardinality(B) - 0
  BY <1>2, <1>5, <1>6, <1>8, <1>9
<1>12. QED
  BY <1>7, <1>9, <1>10, <1>11

-----------------------------------------------------------------------------
(* The trips that are over leave and are reported.                         *)

OverIn(result, statuses) == {t \in DOMAIN result : result[t].status \in statuses}
Reported(result, over) ==
  [i \in 1..Len(over) |-> [trip |-> over[i], completed |-> result[over[i]].status # "Unserved"]]

\* The seconds waited in a substep are a number.
LEMMA WaitedInType ==
  ASSUME NEW c, NEW D \in SUBSET Nat, IsFiniteSet(D), c.trips \in [D -> Trip], NEW result \in [D -> Trip]
  PROVE  WaitedIn(c, result) \in Int
<1> DEFINE ids == Ascending(D)
           n == Cardinality(D)
           s == [i \in 1..Len(ids) |-> c.trips[ids[i]].patience - result[ids[i]].patience]
<1>1. n \in Nat /\ Len(ids) = n /\ \A i \in 1..n : ids[i] \in D
  BY AscendingFacts
<1>2. WaitedIn(c, result) = Sum(s)
  BY DEF WaitedIn
<1> HIDE DEF ids, n
<1>3. ASSUME NEW i \in 1..n
      PROVE  c.trips[ids[i]].patience - result[ids[i]].patience \in Int
  <2>1. c.trips[ids[i]] \in Trip /\ result[ids[i]] \in Trip
    BY <1>1
  <2>2. c.trips[ids[i]].patience \in Int /\ result[ids[i]].patience \in Int
    BY <2>1, TripFields
  <2>3. QED
    BY <2>2
<1>4. s \in Seq(Int)
  BY <1>1, <1>3
<1> HIDE DEF s
<1>5. QED
  BY <1>2, <1>4, SumType

\* Every trip that is over is reported once, as completed unless nobody served it.
LEMMA ReportedFacts ==
  ASSUME NEW D \in SUBSET Nat, IsFiniteSet(D), NEW result \in [D -> Trip], NEW over,
         over = Ascending(OverIn(result, Terminal))
  PROVE  /\ Reported(result, over) \in Seq(Resolution)
         /\ \A i \in 1..Len(Reported(result, over)) :
              Reported(result, over)[i].trip \in OverIn(result, Terminal)
         /\ OnceEach(Reported(result, over))
         /\ \A t \in OverIn(result, Terminal) :
              \E i \in 1..Len(Reported(result, over)) : Reported(result, over)[i].trip = t
         /\ \A i \in 1..Len(Reported(result, over)) :
              Reported(result, over)[i].completed = (result[Reported(result, over)[i].trip].status # "Unserved")
<1> DEFINE S == OverIn(result, Terminal)
           n == Cardinality(S)
           r == Reported(result, over)
<1>1. S \in SUBSET Nat /\ S \subseteq D /\ IsFiniteSet(S)
  <2>1. S \subseteq D
    BY DEF OverIn
  <2>2. QED
    BY <2>1, FS_Subset
<1> HIDE DEF S
<1>2. /\ n \in Nat /\ Len(over) = n /\ \A i \in 1..n : over[i] \in S
      /\ \A i, j \in 1..n : over[i] = over[j] => i = j
      /\ \A x \in S : \E i \in 1..n : over[i] = x
  BY <1>1, AscendingFacts DEF S
<1> HIDE DEF n
<1>3. r = [i \in 1..n |-> [trip |-> over[i], completed |-> result[over[i]].status # "Unserved"]]
  BY <1>2 DEF Reported
<1>4. ASSUME NEW i \in 1..n
      PROVE  [trip |-> over[i], completed |-> result[over[i]].status # "Unserved"] \in Resolution
  <2>1. over[i] \in Nat /\ (result[over[i]].status # "Unserved") \in BOOLEAN
    BY <1>1, <1>2
  <2>2. QED
    BY <2>1 DEF Resolution
<1> HIDE DEF r
<1>5. r \in Seq(Resolution) /\ Len(r) = n
  BY <1>2, <1>3, <1>4
<1>6. \A i \in 1..n : r[i].trip = over[i] /\ r[i].completed = (result[over[i]].status # "Unserved")
  BY <1>3
<1>7. OnceEach(r)
  BY <1>2, <1>5, <1>6 DEF OnceEach
<1>8. QED
  BY <1>2, <1>5, <1>6, <1>7 DEF r, S

\* Those that reached their destination, on time or not, and those that gave up.
LEMMA ReportedByOutcome ==
  ASSUME NEW D \in SUBSET Nat, IsFiniteSet(D), NEW result \in [D -> Trip], NEW over,
         over = Ascending(OverIn(result, Terminal))
  PROVE  /\ OverIn(result, {"Arrived", "Late"}) = TripsWith(Reported(result, over), TRUE)
         /\ OverIn(result, {"Unserved"}) = TripsWith(Reported(result, over), FALSE)
<1> DEFINE r == Reported(result, over)
           S == OverIn(result, Terminal)
<1>1. /\ \A i \in 1..Len(r) : r[i].trip \in S
      /\ \A t \in S : \E i \in 1..Len(r) : r[i].trip = t
      /\ \A i \in 1..Len(r) : r[i].completed = (result[r[i].trip].status # "Unserved")
  BY ReportedFacts
<1>2. OverIn(result, {"Arrived", "Late"}) = {t \in S : (result[t].status # "Unserved") = TRUE}
  BY DEF OverIn, Terminal
<1>3. OverIn(result, {"Unserved"}) = {t \in S : (result[t].status # "Unserved") = FALSE}
  BY DEF OverIn, Terminal
<1> HIDE DEF r, S
<1>4. ASSUME NEW b \in BOOLEAN
      PROVE  {t \in S : (result[t].status # "Unserved") = b}
               = TripsWith(r, b)
  <2>1. ASSUME NEW t \in S, (result[t].status # "Unserved") = b
        PROVE  \E i \in {j \in 1..Len(r) : r[j].completed = b} : t = r[i].trip
    BY <1>1, <2>1
  <2>2. ASSUME NEW i \in 1..Len(r), r[i].completed = b
        PROVE  r[i].trip \in S /\ (result[r[i].trip].status # "Unserved") = b
    BY <1>1, <2>2
  <2>3. QED
    BY <2>1, <2>2 DEF TripsWith
<1>5. QED
  BY <1>2, <1>3, <1>4 DEF r

\* What their turn has made of the trips.
Turned(c, result) ==
  \A t \in DOMAIN c.trips :
    IF c.trips[t].status = "Riding" /\ t \in Riders(c) THEN result[t] = c.trips[t]
    ELSE Settled(result[t], c.lines)

\* What is left of them.
Remaining(c, result, T) ==
  /\ DOMAIN T = DOMAIN c.trips \ OverIn(result, Terminal)
  /\ \A t \in DOMAIN T : T[t] = result[t]

\* The trips that are not over keep their seats and plans when the others leave.
LEMMA RemainSound ==
  ASSUME NEW c, Sound(c.lines, c.vehicles, c.trips), NEW result, DOMAIN result = DOMAIN c.trips,
         Turned(c, result),
         NEW T, Remaining(c, result, T)
  PROVE  Sound(c.lines, c.vehicles, T)
<1>1. \A t : t \in Riders(c) <=> \E v \in DOMAIN c.vehicles : t \in c.vehicles[v].riders
  BY DEF Riders
<1>2. Seated(c.vehicles, c.trips) /\ \A t \in DOMAIN c.trips : TripSound(c.trips[t], c.lines)
  BY DEF Sound
<1>3. \A t \in DOMAIN c.trips : t \in DOMAIN T <=> result[t].status \notin Terminal
  BY DEF OverIn, Remaining
<1>4. \A t \in DOMAIN T : t \in DOMAIN c.trips /\ T[t] = result[t]
  BY DEF Remaining
<1>5. ASSUME NEW t \in DOMAIN c.trips, c.trips[t].status = "Riding", t \in Riders(c)
      PROVE  t \in DOMAIN T /\ T[t] = c.trips[t]
  <2>1. result[t] = c.trips[t]
    BY <1>5 DEF Turned
  <2>2. result[t].status \notin Terminal
    BY <1>5, <2>1 DEF Terminal
  <2>3. QED
    BY <1>3, <1>4, <2>1, <2>2
<1>6. ASSUME NEW t \in DOMAIN T, ~(c.trips[t].status = "Riding" /\ t \in Riders(c))
      PROVE  TripSound(T[t], c.lines) /\ T[t].status # "Riding"
  <2>1. Settled(result[t], c.lines) /\ T[t] = result[t] /\ result[t].status \notin Terminal
    BY <1>3, <1>4, <1>6 DEF Turned
  <2>2. QED
    BY <2>1 DEF Settled
<1>7. ASSUME NEW t \in DOMAIN T
      PROVE  TripSound(T[t], c.lines)
  <2>1. CASE c.trips[t].status = "Riding" /\ t \in Riders(c)
    <3>1. T[t] = c.trips[t]
      BY <1>4, <1>5, <2>1
    <3>2. QED
      BY <1>2, <1>4, <3>1
  <2>2. CASE ~(c.trips[t].status = "Riding" /\ t \in Riders(c))
    BY <1>6, <2>2
  <2>3. QED
    BY <2>1, <2>2
<1>8. Seated(c.vehicles, T)
  <2>1. ASSUME NEW v \in DOMAIN c.vehicles, NEW t \in c.vehicles[v].riders
        PROVE  t \in DOMAIN T /\ T[t].status = "Riding" /\ CurrentLeg(T[t]).line = c.vehicles[v].line
    <3>1. /\ t \in DOMAIN c.trips /\ c.trips[t].status = "Riding"
          /\ CurrentLeg(c.trips[t]).line = c.vehicles[v].line
      BY <1>2, <2>1 DEF Seated
    <3>2. t \in Riders(c)
      BY <1>1, <2>1
    <3>3. t \in DOMAIN T /\ T[t] = c.trips[t]
      BY <1>5, <3>1, <3>2
    <3>4. QED
      BY <3>1, <3>3
  <2>2. ASSUME NEW t \in DOMAIN T, T[t].status = "Riding"
        PROVE  \E v \in DOMAIN c.vehicles : t \in c.vehicles[v].riders
    BY <1>1, <1>6, <2>2
  <2>3. /\ \A v \in DOMAIN c.vehicles : Cardinality(c.vehicles[v].riders) <= Seats
        /\ \A v, w \in DOMAIN c.vehicles :
             v # w => \A t \in c.vehicles[v].riders : t \notin c.vehicles[w].riders
    BY <1>2 DEF Seated
  <2>4. QED
    BY <2>1, <2>2, <2>3 DEF Seated
<1>9. QED
  BY <1>7, <1>8 DEF Sound

\* Of resolutions of trips that were on their way, and of no trip twice.
Resolves(s, n, D) ==
  /\ \A i \in 1..Len(s) : s[i].trip \in 1..n /\ s[i].trip \notin D
  /\ OnceEach(s)
  /\ \A t \in 1..n : t \in D \/ \E i \in 1..Len(s) : s[i].trip = t
Reports(r, X) ==
  /\ \A i \in 1..Len(r) : r[i].trip \in X
  /\ OnceEach(r)
  /\ \A t \in X : \E i \in 1..Len(r) : r[i].trip = t

\* Reporting trips that had not been reported keeps the resolutions one per trip.
LEMMA AppendedOnce ==
  ASSUME NEW s \in Seq(Resolution), NEW r \in Seq(Resolution), NEW D, NEW X \in SUBSET D, NEW n \in Nat,
         D \subseteq 1..n, Resolves(s, n, D), Reports(r, X)
  PROVE  Resolves(s \o r, n, D \ X)
<1>1. PICK m \in Nat, k \in Nat : m = Len(s) /\ k = Len(r) /\ Len(s \o r) = m + k
  OBVIOUS
<1>2. PICK q : q = s \o r
  OBVIOUS
<1>3. \A i \in 1..m : q[i] = s[i] /\ i \in 1..(m + k)
  BY <1>1, <1>2
<1>4. \A i \in 1..k : q[i + m] = r[i] /\ i + m \in 1..(m + k)
  BY <1>1, <1>2
<1>5. ASSUME NEW i \in 1..(m + k)
      PROVE  \/ \E a \in 1..m : i = a /\ q[i] = s[a]
             \/ \E b \in 1..k : i = b + m /\ q[i] = r[b]
  <2>1. CASE i <= m
    <3>1. i \in 1..m
      BY <1>1, <2>1
    <3>2. QED
      BY <1>3, <3>1
  <2>2. CASE ~(i <= m)
    <3>1. i - m \in 1..k /\ i = (i - m) + m
      BY <1>1, <2>2
    <3>2. PICK b \in 1..k : i = b + m
      BY <3>1
    <3>3. q[b + m] = r[b]
      BY <1>4
    <3>4. QED
      BY <3>2, <3>3
  <2>3. QED
    BY <2>1, <2>2
<1>9. \A i \in 1..(m + k) : q[i].trip \in 1..n /\ q[i].trip \notin D \ X
  <2>1. \A a \in 1..m : s[a].trip \in 1..n /\ s[a].trip \notin D
    BY <1>1 DEF Resolves
  <2>2. \A b \in 1..k : r[b].trip \in 1..n /\ r[b].trip \in X
    <3>1. \A x \in X : x \in 1..n
      OBVIOUS
    <3>2. QED
      BY <1>1, <3>1 DEF Reports
  <2>3. QED
    BY <1>5, <2>1, <2>2
<1>10. ASSUME NEW i \in 1..(m + k), NEW j \in 1..(m + k), q[i].trip = q[j].trip
       PROVE  i = j
  <2>1. \A a, b \in 1..m : s[a].trip = s[b].trip => a = b
    BY <1>1 DEF Resolves, OnceEach
  <2>2. \A a, b \in 1..k : r[a].trip = r[b].trip => a = b
    BY <1>1 DEF Reports, OnceEach
  <2>3. \A a \in 1..m, b \in 1..k : s[a].trip # r[b].trip
    BY <1>1 DEF Resolves, Reports
  <2>4. CASE \E a \in 1..m : i = a /\ q[i] = s[a]
    <3>1. \E a \in 1..m : j = a /\ q[j] = s[a]
      BY <1>5, <1>10, <2>3, <2>4
    <3>2. QED
      BY <1>10, <2>1, <2>4, <3>1
  <2>5. CASE \E b \in 1..k : i = b + m /\ q[i] = r[b]
    <3>1. \E b \in 1..k : j = b + m /\ q[j] = r[b]
      BY <1>5, <1>10, <2>3, <2>5
    <3>2. QED
      BY <1>10, <2>2, <2>5, <3>1
  <2>6. QED
    BY <1>5, <2>4, <2>5
<1>11. \A t \in 1..n : t \in D \ X \/ \E i \in 1..(m + k) : q[i].trip = t
  <2> TAKE t \in 1..n
  <2>1. CASE t \in X
    <3>1. PICK i \in 1..k : r[i].trip = t
      BY <1>1, <2>1 DEF Reports
    <3>2. QED
      BY <1>4, <3>1
  <2>2. CASE t \notin D
    <3>1. PICK i \in 1..m : s[i].trip = t
      BY <1>1, <2>2 DEF Resolves
    <3>2. QED
      BY <1>3, <3>1
  <2>3. QED
    BY <2>1, <2>2
<1>12. QED
  BY <1>1, <1>2, <1>9, <1>10, <1>11 DEF Resolves, OnceEach

\* The trips that are over leave the city, reported and counted.
LEMMA ResolvedSound ==
  ASSUME NEW c, CityInv(c), NEW result \in [DOMAIN c.trips -> Trip],
         Turned(c, result)
  PROVE  CityInv(Resolved(c, result))
<1> DEFINE D == DOMAIN c.trips
           X == OverIn(result, Terminal)
           over == Ascending(X)
           r == Reported(result, over)
           T == Restrict(result, D \ X)
           arrived == Cardinality(OverIn(result, {"Arrived", "Late"}))
           late == Cardinality(OverIn(result, {"Late"}))
           unserved == Cardinality(OverIn(result, {"Unserved"}))
           waited == WaitedIn(c, result)
           fares == Cardinality({t \in OverIn(result, {"Arrived", "Late"}) : ~WalkingOnly(result[t].plan)})
           tally == [completed |-> c.tally.completed + arrived, late |-> c.tally.late + late,
                     unserved |-> c.tally.unserved + unserved, waited |-> c.tally.waited + waited,
                     fares |-> c.tally.fares + fares]
           d == Resolved(c, result)
<1>1. d = [c EXCEPT !.trips = T, !.resolutions = c.resolutions \o r, !.tally = tally]
  BY DEF Resolved, OverIn, Reported
<1>2. /\ c \in City /\ Sound(c.lines, c.vehicles, c.trips)
      /\ Accounted(c.trips, c.spawned, c.resolutions, c.tally)
      /\ Numbered(DOMAIN c.lines) /\ Numbered(DOMAIN c.vehicles)
  BY DEF CityInv
<1>3. /\ D \in SUBSET Nat /\ c.trips \in [D -> Trip] /\ c.spawned \in Nat /\ D \subseteq 1..c.spawned
      /\ IsFiniteSet(D) /\ c.resolutions \in Seq(Resolution) /\ c.tally \in Tally
  BY <1>2, CityFields, TripsFinite
<1>4. \A S : OverIn(result, S) \subseteq D /\ IsFiniteSet(OverIn(result, S))
  <2>1. \A S : OverIn(result, S) \subseteq D
    BY DEF OverIn
  <2>2. QED
    BY <1>3, <2>1, FS_Subset
<1>5. r \in Seq(Resolution) /\ Reports(r, X)
  BY <1>3, ReportedFacts DEF Reports
<1>6. /\ OverIn(result, {"Arrived", "Late"}) = TripsWith(r, TRUE)
      /\ OverIn(result, {"Unserved"}) = TripsWith(r, FALSE)
  BY <1>3, ReportedByOutcome
<1>7. arrived \in Nat /\ late \in Nat /\ unserved \in Nat /\ fares \in Nat
  <2>1. IsFiniteSet({t \in OverIn(result, {"Arrived", "Late"}) : ~WalkingOnly(result[t].plan)})
    BY <1>4, FS_Subset
  <2>2. QED
    BY <1>4, <2>1, FS_CardinalityType
<1>8. waited \in Int
  BY <1>3, WaitedInType
<1>9. X \subseteq D
  BY <1>4
<1>10. /\ DOMAIN T = D \ X /\ \A t \in DOMAIN T : T[t] = result[t]
       /\ T \in [D \ X -> Trip]
  BY DEF Restrict
<1> HIDE DEF D, X, over, r, T, arrived, late, unserved, waited, fares
<1>11. Sound(c.lines, c.vehicles, T)
  <2>1. DOMAIN result = DOMAIN c.trips
    OBVIOUS
  <2>2. DOMAIN T = DOMAIN c.trips \ OverIn(result, Terminal)
    BY <1>10 DEF D, X
  <2>3. Turned(c, result) /\ Sound(c.lines, c.vehicles, c.trips)
    BY <1>2
  <2>4. Remaining(c, result, T)
    BY <1>10, <2>2 DEF Remaining
  <2>5. QED
    BY <2>1, <2>3, <2>4, RemainSound
<1>12. tally \in Tally
  <2>1. /\ c.tally.completed \in Nat /\ c.tally.late \in Nat /\ c.tally.unserved \in Nat
        /\ c.tally.waited \in Int /\ c.tally.fares \in Nat
    BY <1>3 DEF Tally
  <2>2. /\ c.tally.completed + arrived \in Nat /\ c.tally.late + late \in Nat
        /\ c.tally.unserved + unserved \in Nat /\ c.tally.waited + waited \in Int
        /\ c.tally.fares + fares \in Nat
    BY <1>7, <1>8, <2>1
  <2>3. QED
    BY <2>2 DEF Tally
<1>13. T \in Partial(Trip)
  <2>1. D \ X \in SUBSET Nat
    BY <1>3
  <2>2. QED
    BY <1>10, <2>1, IsPartial
<1>14. c.resolutions \o r \in Seq(Resolution)
  BY <1>3, <1>5
<1>15. /\ c.tally.completed = CountOf(c.resolutions, TRUE) /\ c.tally.unserved = CountOf(c.resolutions, FALSE)
  BY <1>2 DEF Accounted
<1>16. CountOf(c.resolutions \o r, TRUE) = CountOf(c.resolutions, TRUE) + arrived
  <2>1. OnceEach(r) /\ arrived = Cardinality(TripsWith(r, TRUE))
    BY <1>5, <1>6 DEF arrived, Reports
  <2>2. QED
    BY <1>3, <1>5, <2>1, CountAppended
<1>17. CountOf(c.resolutions \o r, FALSE) = CountOf(c.resolutions, FALSE) + unserved
  <2>1. OnceEach(r) /\ unserved = Cardinality(TripsWith(r, FALSE))
    BY <1>5, <1>6 DEF unserved, Reports
  <2>2. QED
    BY <1>3, <1>5, <2>1, CountAppended
<1>18. tally.completed = CountOf(c.resolutions \o r, TRUE) /\ tally.unserved = CountOf(c.resolutions \o r, FALSE)
  BY <1>15, <1>16, <1>17
<1> HIDE DEF tally, d
<1>19. Accounted(T, c.spawned, c.resolutions \o r, tally)
  <2>1. Resolves(c.resolutions, c.spawned, D)
    BY <1>2 DEF Accounted, D, Resolves, OnceEach
  <2>2. PICK q : q = c.resolutions \o r
    OBVIOUS
  <2>3. Resolves(q, c.spawned, D \ X)
    BY <1>3, <1>5, <1>9, <2>1, <2>2, AppendedOnce
  <2>4. DOMAIN T \subseteq 1..c.spawned
    BY <1>3, <1>10
  <2>5. QED
    BY <1>10, <1>18, <2>2, <2>3, <2>4 DEF Accounted, Resolves, OnceEach
<1>20. /\ d \in City /\ d.trips = T /\ d.resolutions = c.resolutions \o r /\ d.tally = tally
       /\ d.spawned = c.spawned /\ d.vehicles = c.vehicles /\ d.lines = c.lines
  BY <1>1, <1>2, <1>12, <1>13, <1>14 DEF City
<1>21. QED
  BY <1>2, <1>11, <1>19, <1>20 DEF CityInv, d

\* The trips' part of a substep.
LEMMA AdvanceActiveTripsSound ==
  ASSUME NEW c, CityInv(c), NEW alighted, NEW seconds \in Nat
  PROVE  CityInv(AdvanceActiveTrips(c, alighted, seconds))
<1> DEFINE after(t) == TickTrip(c, t, IF t \in alighted THEN 0 ELSE seconds)
           result == [t \in DOMAIN c.trips |-> after(t)]
<1>1. LinesTyped(c.lines) /\ \A t \in DOMAIN c.trips : TripSound(c.trips[t], c.lines)
  BY DEF CityInv, Sound
<1>2. ASSUME NEW t \in DOMAIN c.trips
      PROVE  /\ after(t) \in Trip
             /\ IF c.trips[t].status = "Riding" /\ t \in Riders(c) THEN after(t) = c.trips[t]
                ELSE Settled(after(t), c.lines)
  <2>1. (IF t \in alighted THEN 0 ELSE seconds) \in Nat
    OBVIOUS
  <2>2. QED
    BY <1>1, <2>1, TickTripFacts
<1>3. AdvanceActiveTrips(c, alighted, seconds) = Resolved(c, result)
  BY DEF AdvanceActiveTrips
<1> HIDE DEF after
<1>4. result \in [DOMAIN c.trips -> Trip] /\ \A t \in DOMAIN c.trips : result[t] = after(t)
  BY <1>2
<1> HIDE DEF result
<1>5. QED
  BY <1>2, <1>3, <1>4, ResolvedSound DEF Turned

\* A substep: the vehicles, the clock, the trips.
LEMMA SubstepSound ==
  ASSUME NEW c, CityInv(c), NEW seconds \in Nat
  PROVE  CityInv(AdvanceTickSubstep(c, seconds))
<1>1. PICK before : before = AdvanceClock(c, seconds)
  OBVIOUS
<1>2. CityInv(before)
  BY <1>1, AdvanceClockSound
<1>3. PICK after : after = TickVehicles(before, seconds)
  OBVIOUS
<1>4. CityInv(after)
  <2>1. IsFiniteSet(DOMAIN before.trips)
    BY <1>2, TripsFinite
  <2>2. after \in Moved(before)
    BY <1>2, <1>3, <2>1, TickVehiclesSound DEF CityInv
  <2>3. QED
    BY <1>2, <2>2, MovedInv
<1>5. AdvanceTickSubstep(c, seconds) = AdvanceActiveTrips(after, JustDisembarked(before, after), seconds)
  BY <1>1, <1>3 DEF AdvanceTickSubstep, AfterVehicles
<1>6. QED
  BY <1>4, <1>5, AdvanceActiveTripsSound

-----------------------------------------------------------------------------
(* The demands that are due.                                               *)

\* Numbers after m that leave none out are as many as the last one is beyond m.
LEMMA PrefixCount ==
  ASSUME NEW m \in Nat, NEW n \in Nat, m <= n, NEW S \in SUBSET ((m + 1)..n),
         \A i \in S : \A j \in (m + 1)..n : j <= i => j \in S
  PROVE  /\ Cardinality(S) \in Nat /\ m + Cardinality(S) \in m..n
         /\ S = (m + 1)..(m + Cardinality(S))
<1>1. CASE S = {}
  <2>1. Cardinality(S) = 0
    BY <1>1, FS_EmptySet
  <2>2. (m + 1)..(m + 0) = {}
    OBVIOUS
  <2>3. QED
    BY <1>1, <2>1, <2>2
<1>2. CASE S # {}
  <2>1. S \in SUBSET (0..n)
    OBVIOUS
  <2>2. PICK k : k = Max(S)
    OBVIOUS
  <2>3. k \in S /\ \A y \in S : k >= y
    BY <1>2, <2>1, <2>2, BoundedMax
  <2>4. k \in Nat /\ k >= m + 1 /\ k <= n
    BY <2>3
  <2>5. S = (m + 1)..k
    <3>1. \A y \in S : y \in (m + 1)..n /\ y <= k
      BY <2>3
    <3>2. \A y \in S : y \in (m + 1)..k
      BY <2>4, <3>1
    <3>3. \A y \in (m + 1)..k : y \in (m + 1)..n /\ y <= k
      BY <2>4
    <3>4. \A y \in (m + 1)..k : y \in S
      BY <2>3, <3>3
    <3>5. QED
      BY <3>2, <3>4
  <2>6. Cardinality(S) = k - (m + 1) + 1
    <3>1. m + 1 \in Int /\ k \in Int /\ ~(m + 1 > k)
      BY <2>4
    <3>2. QED
      BY <2>5, <3>1, FS_Interval
  <2>7. QED
    BY <2>4, <2>5, <2>6
<1>3. QED
  BY <1>1, <1>2

Demand == [due : Nat, from : Nat \X Nat, to : Nat \X Nat, drive : Nat]

\* The fields of a demand, and the order they come in.
LEMMA DemandFacts ==
  ASSUME NEW i \in 1..Len(Demands)
  PROVE  /\ Demands[i] \in Demand /\ Demands[i].due \in Nat /\ Demands[i].drive \in Nat
         /\ Demands[i].from \in Position /\ Demands[i].to \in Position
         /\ \A j \in 1..i : Demands[j].due <= Demands[i].due
<1>1. Demands \in Seq(Demand)
  BY TripTickAssumption DEF TripTickAssumption, Demand
<1>2. Len(Demands) \in Nat /\ DOMAIN Demands = 1..Len(Demands)
  BY <1>1
<1>3. Demands[i] \in Demand
  BY <1>1, ElementOfSeq
<1>4. \A j \in 1..i : j \in 1..Len(Demands) /\ j <= i
  BY <1>2
<1>5. \A a, b \in DOMAIN Demands : a <= b => Demands[a].due <= Demands[b].due
  BY TripTickAssumption DEF TripTickAssumption
<1>6. \A j \in 1..i : Demands[j].due <= Demands[i].due
  BY <1>2, <1>4, <1>5
<1>7. QED
  BY <1>3, <1>6 DEF Demand, Position

\* A new trip is sound, and not aboard of anything.
LEMMA BuildTripSound ==
  ASSUME NEW c, c.clock \in Nat, LinesTyped(c.lines), NEW demand \in Demand
  PROVE  /\ TripSound(BuildTrip(c, demand), c.lines)
         /\ BuildTrip(c, demand).status # "Riding"
<1> DEFINE plan == PlanFrom(c, demand.from, demand.to)
           trip == BuildTrip(c, demand)
           byCar == demand.drive > 0 /\ demand.drive < plan.seconds
           left == Slack - (c.clock - demand.due)
           status == IF byCar THEN "Driving" ELSE StatusAfterLeg(plan.legs, 1)
           drive == IF byCar THEN demand.drive ELSE 0
           legs == IF byCar THEN <<>> ELSE plan.legs
<1>1. /\ demand.from \in Position /\ demand.to \in Position /\ demand.due \in Nat /\ demand.drive \in Nat
  BY DEF Demand, Position
<1>2. /\ PlanLinks(plan.legs, demand.to) /\ PlanExists(plan.legs, 1, c.lines)
  BY <1>1, PlanFromFacts
<1>3. trip = [at |-> demand.from, to |-> demand.to, left |-> left, status |-> status,
              plan |-> legs, leg |-> 1, patience |-> Patience, wait |-> 0, drive |-> drive]
  BY DEF BuildTrip, ChosenTrip
<1> HIDE DEF plan, byCar
<1>4. plan.legs \in Seq(Leg) /\ Len(plan.legs) \in Nat /\ Len(plan.legs) >= 1
  <2>1. plan.legs \in Seq(Leg) /\ plan.legs # <<>>
    BY <1>2 DEF PlanLinks
  <2>2. QED
    BY <2>1, EmptySeq
<1>5. /\ ~byCar => status \in {"Walking", "Waiting"} /\ (status = "Walking" <=> IsWalk(plan.legs[1]))
      /\ byCar => status = "Driving"
  BY <1>4, StatusAfterLegFacts
<1>6. status \in Statuses
  BY <1>5 DEF Statuses
<1>7. left \in Int
  <2>1. Slack \in Int
    BY TripTickAssumption DEF TripTickAssumption
  <2>2. QED
    BY <1>1, <2>1
<1>8. drive \in Nat
  BY <1>1
<1>9. legs \in Seq(Leg)
  <2>1. <<>> \in Seq(Leg)
    OBVIOUS
  <2>2. QED
    BY <1>4, <2>1
<1>10. Patience \in Int /\ 0 \in Int /\ 1 \in Nat \ {0}
  BY TripTickAssumption DEF TripTickAssumption
<1>11. legs = IF byCar THEN <<>> ELSE plan.legs
  OBVIOUS
<1> HIDE DEF left, status, drive, legs, trip
<1>12. trip \in Trip
  BY <1>1, <1>3, <1>6, <1>7, <1>8, <1>9, <1>10 DEF Trip
<1>13. trip.status = status /\ trip.plan = legs /\ trip.leg = 1 /\ trip.to = demand.to
  BY <1>3
<1>14. CASE byCar
  BY <1>5, <1>11, <1>12, <1>13, <1>14 DEF TripSound, trip
<1>15. CASE ~byCar
  <2>1. trip.plan = plan.legs
    BY <1>11, <1>13, <1>15
  <2>2. HasLeg(trip)
    BY <1>4, <1>13, <2>1 DEF HasLeg
  <2>3. CurrentLeg(trip) = plan.legs[1]
    BY <1>13, <2>1 DEF CurrentLeg
  <2>4. IsWalk(CurrentLeg(trip)) /\ trip.status = "Walking"
    BY <1>2, <1>5, <1>13, <1>15, <2>3 DEF PlanLinks
  <2>5. trip.status # "Riding"
    BY <1>5, <1>13, <1>15
  <2>6. QED
    BY <1>2, <1>12, <1>13, <2>1, <2>2, <2>4, <2>5 DEF TripSound, trip
<1>16. QED
  BY <1>14, <1>15

\* The demands that are due become trips.
LEMMA DrainAndSpawnSound ==
  ASSUME NEW c, CityInv(c)
  PROVE  CityInv(DrainAndSpawn(c))
<1> DEFINE n == Len(Demands)
           due == {i \in (c.spawned + 1)..n : Demands[i].due <= c.clock}
           T == [t \in DOMAIN c.trips \cup due |->
                   IF t \in due THEN BuildTrip(c, Demands[t]) ELSE c.trips[t]]
           d == DrainAndSpawn(c)
           spawned == c.spawned + Cardinality(due)
<1>1. c \in City /\ Sound(c.lines, c.vehicles, c.trips) /\ Accounted(c.trips, c.spawned, c.resolutions, c.tally)
  BY DEF CityInv
<1>2. /\ c.clock \in Nat /\ c.spawned \in 0..n /\ c.spawned \in Nat /\ n \in Nat
      /\ DOMAIN c.trips \in SUBSET Nat /\ \A t \in DOMAIN c.trips : c.trips[t] \in Trip
  BY <1>1, CityFields
<1>3. Cardinality(due) \in Nat /\ spawned \in c.spawned..n /\ due = (c.spawned + 1)..spawned
  <2>1. \A i \in due : \A j \in (c.spawned + 1)..n : j <= i => j \in due
    <3>1. TAKE i \in due
    <3>2. TAKE j \in (c.spawned + 1)..n
    <3>3. HAVE j <= i
    <3>4. i \in 1..n /\ j \in 1..i /\ j \in 1..n /\ Demands[i].due <= c.clock
      BY <1>2, <3>3
    <3>5. Demands[j].due <= Demands[i].due /\ Demands[j].due \in Nat /\ Demands[i].due \in Nat
      BY <3>4, DemandFacts
    <3>6. QED
      BY <1>2, <3>4, <3>5
  <2>2. due \in SUBSET ((c.spawned + 1)..n) /\ c.spawned <= n
    BY <1>2
  <2> HIDE DEF due, n
  <2>3. QED
    BY <1>2, <2>1, <2>2, PrefixCount
<1>4. d = [c EXCEPT !.spawned = spawned, !.trips = T]
  BY DEF DrainAndSpawn
<1>5. \A t \in due : t \in 1..n
  BY <1>2
<1>6. LinesTyped(c.lines) /\ Seated(c.vehicles, c.trips) /\ \A t \in DOMAIN c.trips : TripSound(c.trips[t], c.lines)
  BY <1>1 DEF Sound
<1>7. DOMAIN c.trips \subseteq 1..c.spawned
  BY <1>1 DEF Accounted
<1>8. \A t \in due : t \notin 1..c.spawned
  BY <1>2
<1> HIDE DEF due, n, spawned
<1>9. \A t \in due : /\ TripSound(BuildTrip(c, Demands[t]), c.lines)
                     /\ BuildTrip(c, Demands[t]).status # "Riding"
  BY <1>2, <1>5, <1>6, DemandFacts, BuildTripSound DEF n
<1>10. /\ DOMAIN T = DOMAIN c.trips \cup due
       /\ \A t \in due : T[t] = BuildTrip(c, Demands[t])
       /\ \A t \in DOMAIN c.trips : T[t] = c.trips[t]
  BY <1>7, <1>8
<1> HIDE DEF T, d
<1>11. \A t \in DOMAIN T : TripSound(T[t], c.lines)
  BY <1>6, <1>9, <1>10
<1>12. Seated(c.vehicles, T)
  BY <1>6, <1>9, <1>10 DEF Seated
<1>13. T \in Partial(Trip)
  <2>1. DOMAIN T \in SUBSET Nat
    BY <1>2, <1>3, <1>10
  <2>2. T \in [DOMAIN T -> Trip]
    <3>1. T = [t \in DOMAIN T |-> T[t]]
      BY DEF T
    <3>2. \A t \in DOMAIN T : T[t] \in Trip
      BY <1>11 DEF TripSound
    <3>3. QED
      BY <3>1, <3>2
  <2>3. QED
    BY <2>1, <2>2, IsPartial
<1>14. spawned \in 0..n
  BY <1>2, <1>3
<1>15. /\ d \in City /\ d.trips = T /\ d.spawned = spawned
       /\ d.vehicles = c.vehicles /\ d.lines = c.lines /\ d.resolutions = c.resolutions /\ d.tally = c.tally
  BY <1>1, <1>4, <1>13, <1>14 DEF City, n
<1>16. Sound(c.lines, c.vehicles, T)
  BY <1>1, <1>6, <1>11, <1>12 DEF Sound
<1>17. Accounted(T, spawned, c.resolutions, c.tally)
  <2>1. \A t : t \in 1..c.spawned => t \in 1..spawned
    BY <1>2, <1>3
  <2>2. \A t : t \in due => t \in 1..spawned
    BY <1>2, <1>3
  <2>3. \A t : t \in 1..spawned => t \in 1..c.spawned \/ t \in due
    BY <1>2, <1>3
  <2>4. \A i \in 1..Len(c.resolutions) : /\ c.resolutions[i].trip \in 1..c.spawned
                                         /\ c.resolutions[i].trip \notin DOMAIN c.trips
    BY <1>1 DEF Accounted
  <2>5. DOMAIN T \subseteq 1..spawned
    BY <1>7, <1>10, <2>1, <2>2
  <2>6. \A i \in 1..Len(c.resolutions) : /\ c.resolutions[i].trip \in 1..spawned
                                         /\ c.resolutions[i].trip \notin DOMAIN T
    BY <1>8, <1>10, <2>1, <2>4
  <2>7. \A t \in 1..spawned : t \in DOMAIN T \/ \E i \in 1..Len(c.resolutions) : c.resolutions[i].trip = t
    BY <1>1, <1>10, <2>3 DEF Accounted
  <2>8. QED
    BY <1>1, <2>5, <2>6, <2>7 DEF Accounted
<1>18. QED
  BY <1>15, <1>16, <1>17 DEF CityInv, d

-----------------------------------------------------------------------------
(* The tick.                                                               *)

\* What remains of the leg a vehicle is on, or of the first leg with a step, in seconds.
LEMMA SecondsUntilStopType ==
  ASSUME NEW c, Sound(c.lines, c.vehicles, c.trips), NEW id \in DOMAIN c.vehicles
  PROVE  SecondsUntilStop(c, id) \subseteq Int
<1> DEFINE v == c.vehicles[id]
           legs == LegsOf(c, v.line)
           Coming(k) == legs[Around(legs, v.index + k)].steps
           real == {k \in 0..(Len(legs) - 1) : Coming(k) # <<>>}
           passed == IF 0 \in real THEN SumsOf(Coming(0))[v.step - 1] + v.progress ELSE 0
<1>1. v \in Vehicle /\ v.line \in DOMAIN c.lines /\ OnItinerary(v, Legs[c.lines[v.line].pattern])
  BY DEF Sound, VehicleSound
<1>2. c.lines[v.line].pattern \in Patterns
  BY <1>1 DEF Sound, LinesTyped, Line
<1>3. Itinerary(legs) /\ legs = Legs[c.lines[v.line].pattern]
  BY <1>2, LegsFacts DEF LegsOf
<1>4. SecondsUntilStop(c, id) =
        IF ~IsRouteOperational(c, v.line) \/ real = {} THEN {} ELSE {Sum(Coming(Min(real))) - passed}
  BY DEF SecondsUntilStop
<1> HIDE DEF legs
<1>5. Len(legs) \in Nat /\ v.index \in 1..Len(legs) /\ v.index \in Nat
  BY <1>1, <1>3, ItineraryFacts DEF OnItinerary, Vehicle
<1>6. ASSUME NEW k \in 0..(Len(legs) - 1)
      PROVE  Coming(k) \in Seq(Nat) /\ Len(Coming(k)) \in Nat /\ Sum(Coming(k)) \in Nat
  <2>1. v.index + k \in 1..(2 * Len(legs))
    BY <1>5
  <2>2. Around(legs, v.index + k) \in 1..Len(legs)
    BY <1>5, <2>1, AroundType
  <2>3. QED
    BY <1>3, <2>2, ItineraryFacts
<1>7. 0 \in 0..(Len(legs) - 1) /\ Around(legs, v.index + 0) = v.index
  BY <1>5 DEF Around
<1>8. Coming(0) = legs[v.index].steps
  BY <1>7
<1> HIDE DEF v
<1>9. real \in SUBSET Nat /\ real \subseteq 0..(Len(legs) - 1)
  OBVIOUS
<1>10. 0 \in real => Coming(0) # <<>>
  OBVIOUS
<1> HIDE DEF Coming, real
<1>11. 0 \in real => SumsOf(Coming(0))[v.step - 1] \in Nat /\ v.progress \in Nat
  <2>1. SUFFICES ASSUME 0 \in real
                 PROVE  SumsOf(Coming(0))[v.step - 1] \in Nat /\ v.progress \in Nat
    OBVIOUS
  <2>2. v.step \in 1..Len(Coming(0)) /\ v.progress \in Nat
    BY <1>1, <1>3, <1>8, <1>10, <2>1 DEF OnItinerary, Vehicle
  <2>3. Coming(0) \in Seq(Nat) /\ Len(Coming(0)) \in Nat
    BY <1>6, <1>7
  <2>4. SumsOf(Coming(0)) \in [0..Len(Coming(0)) -> Nat]
    BY <2>3, SumsFacts
  <2>5. v.step - 1 \in 0..Len(Coming(0))
    BY <2>2, <2>3
  <2>6. QED
    BY <2>2, <2>4, <2>5
<1>12. passed \in Int
  BY <1>11
<1> HIDE DEF passed
<1>13. real # {} => Sum(Coming(Min(real))) \in Nat
  BY <1>6, <1>9, MinFacts
<1>14. QED
  BY <1>4, <1>12, <1>13

\* The boundaries a plan sets are numbers.
LEMMA PlanBoundariesType ==
  ASSUME NEW trip \in Trip, NEW plan \in Seq(Leg), NEW first \in Nat \ {0}
  PROVE  PlanBoundaries(trip, plan, first) \subseteq Int
<1> DEFINE ahead == {i \in first..Len(plan) : ~(IsWalk(plan[i]) /\ plan[i].to = trip.at)}
           leg == plan[Min(ahead)]
<1>1. PlanBoundaries(trip, plan, first) =
        IF ahead = {} THEN {}
        ELSE IF ~IsWalk(leg) THEN {trip.patience, trip.left + Grace}
        ELSE IF leg.to[1] # trip.at[1] THEN {Distance(leg.to[1], trip.at[1])}
        ELSE {Distance(leg.to[2], trip.at[2])}
  BY DEF PlanBoundaries
<1>2. Len(plan) \in Nat
  OBVIOUS
<1>3. ahead \in SUBSET Nat /\ ahead \subseteq 1..Len(plan)
  BY <1>2
<1> HIDE DEF ahead
<1>4. ahead # {} => leg \in Leg
  <2>1. SUFFICES ASSUME ahead # {}
                 PROVE  leg \in Leg
    OBVIOUS
  <2>2. Min(ahead) \in 1..Len(plan)
    BY <1>3, <2>1, MinFacts
  <2>3. QED
    BY <2>2, ElementOfSeq
<1> HIDE DEF leg
<1>5. trip.patience \in Int /\ trip.left + Grace \in Int /\ trip.at \in Position
  <2>1. Grace \in Int
    BY TripTickAssumption DEF TripTickAssumption
  <2>2. QED
    BY <2>1, TripFields
<1>6. \A a, b \in Int : Distance(a, b) \in Int
  BY DEF Distance
<1>7. ahead # {} => leg.to \in Position
  BY <1>4 DEF Leg
<1>8. \A p \in Position : p[1] \in Int /\ p[2] \in Int
  BY DEF Position
<1>9. ahead # {} => /\ Distance(leg.to[1], trip.at[1]) \in Int
                   /\ Distance(leg.to[2], trip.at[2]) \in Int
  BY <1>5, <1>6, <1>7, <1>8
<1>10. QED
  BY <1>1, <1>5, <1>9

\* The boundaries of a city lie ahead.
LEMMA BoundariesType ==
  ASSUME NEW c, CityInv(c)
  PROVE  Boundaries(c) \subseteq Nat
<1>1. c \in City /\ Sound(c.lines, c.vehicles, c.trips)
  BY DEF CityInv
<1>2. LinesTyped(c.lines) /\ \A t \in DOMAIN c.trips : c.trips[t] \in Trip
  BY <1>1 DEF Sound, TripSound
<1>3. ASSUME NEW i \in (c.spawned + 1)..Len(Demands)
      PROVE  Demands[i].due - c.clock \in Int
  <2>1. c.clock \in Nat /\ i \in 1..Len(Demands)
    BY <1>1, CityFields
  <2>2. QED
    BY <2>1, DemandFacts
<1>4. ASSUME NEW t \in DOMAIN c.trips
      PROVE  TripBoundaries(c, t) \subseteq Int
  <2>1. PICK trip \in Trip : trip = c.trips[t]
    BY <1>2
  <2>2. /\ trip.drive \in Int /\ trip.plan \in Seq(Leg) /\ trip.leg \in Nat \ {0}
        /\ trip.at \in Position /\ trip.to \in Position
    BY <2>1, TripFields
  <2>3. PICK plan : plan = PlanFrom(c, trip.at, trip.to).legs
    OBVIOUS
  <2>4. plan \in Seq(Leg)
    BY <1>2, <2>2, <2>3, PlanFromFacts DEF PlanLinks
  <2>5. PlanBoundaries(trip, plan, 1) \subseteq Int /\ PlanBoundaries(trip, trip.plan, trip.leg) \subseteq Int
    BY <2>2, <2>4, PlanBoundariesType
  <2>6. QED
    BY <2>1, <2>2, <2>3, <2>5 DEF TripBoundaries
<1>5. \A v \in DOMAIN c.vehicles : SecondsUntilStop(c, v) \subseteq Int
  BY <1>1, SecondsUntilStopType
<1>6. ASSUME NEW s \in Boundaries(c)
      PROVE  s \in Nat
  <2>1. /\ s > 0
        /\ \/ \E i \in (c.spawned + 1)..Len(Demands) : s = Demands[i].due - c.clock
           \/ \E t \in DOMAIN c.trips : s \in TripBoundaries(c, t)
           \/ \E v \in DOMAIN c.vehicles : s \in SecondsUntilStop(c, v)
    <3>1. /\ s > 0
          /\ s \in DemandBoundaries(c) \/ s \in ActiveTripBoundaries(c) \/ s \in StopBoundaries(c)
      BY <1>6 DEF Boundaries
    <3>2. s \in DemandBoundaries(c) => \E i \in (c.spawned + 1)..Len(Demands) : s = Demands[i].due - c.clock
      BY DEF DemandBoundaries
    <3>3. s \in ActiveTripBoundaries(c) => \E t \in DOMAIN c.trips : s \in TripBoundaries(c, t)
      BY DEF ActiveTripBoundaries
    <3>4. s \in StopBoundaries(c) => \E v \in DOMAIN c.vehicles : s \in SecondsUntilStop(c, v)
      BY DEF StopBoundaries
    <3>5. QED
      BY <3>1, <3>2, <3>3, <3>4
  <2>2. s \in Int
    BY <1>3, <1>4, <1>5, <2>1
  <2>3. QED
    BY <2>1, <2>2
<1>7. QED
  BY <1>6

\* A tick is a substep to the next boundary at a time: what substeps of whatever length keep,
\* with the demands that are due, the tick keeps.
LEMMA TickTripsStays ==
  ASSUME NEW S, \A c \in S : CityInv(c) /\ DrainAndSpawn(c) \in S,
         \A c \in S, seconds \in Nat : AdvanceTickSubstep(c, seconds) \in S,
         NEW c \in S, NEW seconds \in Nat
  PROVE  TickTrips(c, seconds) \in S
<1> DEFINE N == seconds
           base == [city |-> c, left |-> seconds]
           M == [city : S, left : Nat]
           Substep(r) ==
             LET spawned == DrainAndSpawn(r.city)
                 substep == Min(Boundaries(spawned) \cup {r.left})
             IN  IF r.left = 0 THEN r
                 ELSE [city |-> AdvanceTickSubstep(spawned, substep), left |-> r.left - substep]
           run[n \in 0..N] == IF n = 0 THEN base ELSE Substep(run[n - 1])
<1>1. TickTrips(c, seconds) = DrainAndSpawn(run[N].city)
  BY DEF TickTrips
<1>2. base \in M
  OBVIOUS
<1>3. \A r \in M : Substep(r) \in M
  <2>1. TAKE r \in M
  <2>2. r.city \in S /\ r.left \in Nat
    OBVIOUS
  <2>3. PICK spawned : spawned = DrainAndSpawn(r.city)
    OBVIOUS
  <2>4. spawned \in S /\ CityInv(spawned)
    BY <2>2, <2>3
  <2>5. PICK B : B = Boundaries(spawned) \cup {r.left}
    OBVIOUS
  <2>6. B \in SUBSET Nat /\ r.left \in B
    BY <2>2, <2>4, <2>5, BoundariesType
  <2>7. PICK substep : substep = Min(B)
    OBVIOUS
  <2>8. substep \in Nat /\ substep <= r.left
    BY <2>6, <2>7, MinFacts
  <2>9. AdvanceTickSubstep(spawned, substep) \in S
    BY <2>4, <2>8
  <2>10. PICK on : on = [city |-> AdvanceTickSubstep(spawned, substep), left |-> r.left - substep]
    OBVIOUS
  <2>11. on \in M
    <3>1. r.left - substep \in Nat
      BY <2>2, <2>8
    <3>2. QED
      BY <2>9, <2>10, <3>1
  <2>12. Substep(r) = IF r.left = 0 THEN r ELSE on
    BY <2>3, <2>5, <2>7, <2>10
  <2> HIDE DEF Substep
  <2>13. QED
    BY <2>11, <2>12
<1>4. run = CHOOSE f : f = [n \in 0..N |-> IF n = 0 THEN base ELSE Substep(f[n - 1])]
  OBVIOUS
<1>5. N \in Nat
  OBVIOUS
<1> HIDE DEF N, base, M, Substep, run
<1>6. PICK step : step = [x \in (1..N) \X M |-> Substep(x[2])]
  OBVIOUS
<1>7. step \in StepsOf(N, M)
  BY <1>3, <1>6 DEF StepsOf
<1>8. PICK g \in [0..N -> M] : Iterates(g, N, base, step)
  BY <1>2, <1>5, <1>7, Iteration
<1>9. g = [n \in 0..N |-> IF n = 0 THEN base ELSE Substep(g[n - 1])]
  <2>1. ASSUME NEW n \in 0..N, n # 0
        PROVE  step[<<n, g[n - 1]>>] = Substep(g[n - 1])
    <3>1. n \in 1..N /\ n - 1 \in 0..N
      BY <1>5, <2>1
    <3>2. QED
      BY <1>6, <3>1
  <2>2. QED
    BY <1>8, <2>1 DEF Iterates
<1>10. run = [n \in 0..N |-> IF n = 0 THEN base ELSE Substep(run[n - 1])]
  BY <1>4, <1>9
<1>11. run[0] = base
  BY <1>5, <1>10
<1>12. \A n \in 1..N : run[n - 1] \in M => run[n] = step[<<n, run[n - 1]>>]
  BY <1>5, <1>6, <1>10
<1>13. run[N] \in M
  BY <1>2, <1>5, <1>7, <1>11, <1>12, Recursion
<1>14. run[N].city \in S
  BY <1>13 DEF M
<1>15. QED
  BY <1>1, <1>14

\* A tick of whatever length keeps the invariant.
LEMMA TickTripsSound ==
  ASSUME NEW c, CityInv(c), NEW seconds \in Nat
  PROVE  CityInv(TickTrips(c, seconds))
<1> DEFINE S == {d \in City : CityInv(d)}
<1>1. c \in S /\ \A d : d \in S <=> CityInv(d)
  BY DEF CityInv
<1> HIDE DEF S
<1>2. \A d \in S : CityInv(d) /\ DrainAndSpawn(d) \in S
  BY <1>1, DrainAndSpawnSound
<1>3. \A d \in S, n \in Nat : AdvanceTickSubstep(d, n) \in S
  BY <1>1, SubstepSound
<1>4. TickTrips(c, seconds) \in S
  BY <1>1, <1>2, <1>3, TickTripsStays
<1>5. QED
  BY <1>1, <1>4

-----------------------------------------------------------------------------
(* The player's intents that touch lines.                                  *)

\* Line l is one of `lines`, and it runs as it did.
SameLine(lines, former, l) ==
  l \in DOMAIN lines /\ l \in DOMAIN former /\ lines[l].pattern = former[l].pattern

\* A vehicle of a line that stays as it is stays sound.
LEMMA VehicleKeeps ==
  ASSUME NEW lines, NEW former, NEW v, VehicleSound(v, former), SameLine(lines, former, v.line)
  PROVE  VehicleSound(v, lines)
BY DEF VehicleSound, SameLine

\* Every ride ahead that is one of `former` is one of `lines`.
KeepsRides(trip, lines, former) ==
  \A i \in trip.leg..Len(trip.plan) :
    RideExists(trip.plan[i], former) => SameLine(lines, former, trip.plan[i].line)

\* A trip whose rides stay stays sound.
LEMMA TripKeeps ==
  ASSUME NEW lines, NEW former, NEW trip, TripSound(trip, former), KeepsRides(trip, lines, former)
  PROVE  TripSound(trip, lines)
<1>1. PlanExists(trip.plan, trip.leg, former) => PlanExists(trip.plan, trip.leg, lines)
  <2>1. SUFFICES ASSUME PlanExists(trip.plan, trip.leg, former), NEW i \in trip.leg..Len(trip.plan)
                 PROVE  IsWalk(trip.plan[i]) \/ RideExists(trip.plan[i], lines)
    BY DEF PlanExists
  <2>2. \/ IsWalk(trip.plan[i])
        \/ RideExists(trip.plan[i], former) /\ SameLine(lines, former, trip.plan[i].line)
    <3>1. IsWalk(trip.plan[i]) \/ RideExists(trip.plan[i], former)
      BY <2>1 DEF PlanExists
    <3>2. RideExists(trip.plan[i], former) => SameLine(lines, former, trip.plan[i].line)
      BY <2>1 DEF KeepsRides
    <3>3. QED
      BY <3>1, <3>2
  <2>3. QED
    BY <2>2 DEF RideExists, SameLine
<1>2. QED
  BY <1>1 DEF TripSound

\* Nothing happens to vehicles and trips when every line runs as it did.
LEMMA LinesChange ==
  ASSUME NEW c, CityInv(c), NEW lines \in Partial(Line), LinesTyped(lines), Numbered(DOMAIN lines),
         \A l \in DOMAIN c.lines : SameLine(lines, c.lines, l),
         NEW d, d = [c EXCEPT !.lines = lines]
  PROVE  CityInv(d)
<1>1. /\ c \in City /\ Sound(c.lines, c.vehicles, c.trips)
      /\ Accounted(c.trips, c.spawned, c.resolutions, c.tally) /\ Numbered(DOMAIN c.vehicles)
  BY DEF CityInv
<1>2. \A v \in DOMAIN c.vehicles : VehicleSound(c.vehicles[v], lines)
  <2>1. TAKE v \in DOMAIN c.vehicles
  <2>2. VehicleSound(c.vehicles[v], c.lines)
    BY <1>1 DEF Sound
  <2>3. SameLine(lines, c.lines, c.vehicles[v].line)
    BY <2>2 DEF VehicleSound
  <2>4. QED
    BY <2>2, <2>3, VehicleKeeps
<1>3. \A t \in DOMAIN c.trips : TripSound(c.trips[t], lines)
  <2>1. TAKE t \in DOMAIN c.trips
  <2>2. TripSound(c.trips[t], c.lines)
    BY <1>1 DEF Sound
  <2>3. \A ride : RideExists(ride, c.lines) => SameLine(lines, c.lines, ride.line)
    BY DEF RideExists
  <2>4. QED
    BY <2>2, <2>3, TripKeeps DEF KeepsRides
<1>4. Sound(lines, c.vehicles, c.trips)
  BY <1>1, <1>2, <1>3 DEF Sound
<1>5. /\ d \in City /\ d.lines = lines /\ d.vehicles = c.vehicles /\ d.trips = c.trips
      /\ d.spawned = c.spawned /\ d.resolutions = c.resolutions /\ d.tally = c.tally
  BY <1>1 DEF City
<1>6. QED
  BY <1>1, <1>4, <1>5 DEF CityInv

\* A city in which everything is right but the trips that count on line l.
Riding(c, t) == \E v \in DOMAIN c.vehicles : t \in c.vehicles[v].riders
Disturbed(c, l) ==
  /\ c \in City /\ Numbered(DOMAIN c.lines) /\ Numbered(DOMAIN c.vehicles)
  /\ Accounted(c.trips, c.spawned, c.resolutions, c.tally)
  /\ LinesTyped(c.lines)
  /\ \A v \in DOMAIN c.vehicles :
       /\ VehicleSound(c.vehicles[v], c.lines)
       /\ Cardinality(c.vehicles[v].riders) <= Seats
       /\ \A t \in c.vehicles[v].riders : /\ t \in DOMAIN c.trips /\ c.trips[t].status = "Riding"
                                          /\ CurrentLeg(c.trips[t]).line = c.vehicles[v].line
  /\ \A v, w \in DOMAIN c.vehicles :
       v # w => \A t \in c.vehicles[v].riders : t \notin c.vehicles[w].riders
  /\ \A t \in DOMAIN c.trips :
       /\ c.trips[t] \in Trip
       /\ ~References(c.trips[t], l) => /\ TripSound(c.trips[t], c.lines)
                                        /\ c.trips[t].status = "Riding" => Riding(c, t)

\* A trip that starts over is sound on whatever lines.
LEMMA ResetSound ==
  ASSUME NEW trip \in Trip, NEW at \in Position, NEW lines
  PROVE  LET reset == [trip EXCEPT !.status = "Idle", !.plan = <<>>, !.leg = 1, !.wait = 0, !.at = at]
         IN  TripSound(reset, lines) /\ reset.status = "Idle"
<1> DEFINE reset == [trip EXCEPT !.status = "Idle", !.plan = <<>>, !.leg = 1, !.wait = 0, !.at = at]
<1>1. "Idle" \in Statuses /\ <<>> \in Seq(Leg) /\ 1 \in Nat \ {0} /\ 0 \in Int
  BY DEF Statuses
<1>2. reset \in Trip
  BY <1>1 DEF Trip
<1>3. reset.status = "Idle" /\ reset.plan = <<>> /\ reset.leg = 1
  BY DEF Trip
<1> HIDE DEF reset
<1>4. TripSound(reset, lines) /\ reset.status = "Idle"
  BY <1>2, <1>3 DEF TripSound
<1>5. QED
  BY <1>4 DEF reset

\* When every trip that counts on the line starts over, the city is sound again.
LEMMA InvalidateSound ==
  ASSUME NEW c, NEW l, Disturbed(c, l), NEW parkedAt,
         \A t \in DOMAIN parkedAt : parkedAt[t] \in Position
  PROVE  CityInv(InvalidateTripsForLine(c, l, parkedAt))
<1> DEFINE hit == {t \in DOMAIN c.trips : References(c.trips[t], l)}
           Reset(t) ==
             [c.trips[t] EXCEPT !.status = "Idle", !.plan = <<>>, !.leg = 1, !.wait = 0,
                                !.at = IF t \in DOMAIN parkedAt THEN parkedAt[t] ELSE @]
           T == [t \in DOMAIN c.trips |-> IF t \in hit THEN Reset(t) ELSE c.trips[t]]
           LetOut(v) == [c.vehicles[v] EXCEPT !.riders = @ \ hit]
           V == [v \in DOMAIN c.vehicles |-> LetOut(v)]
           d == InvalidateTripsForLine(c, l, parkedAt)
<1>1. d = [c EXCEPT !.trips = T, !.vehicles = V]
  BY DEF InvalidateTripsForLine
<1>2. /\ c \in City /\ LinesTyped(c.lines) /\ Numbered(DOMAIN c.lines) /\ Numbered(DOMAIN c.vehicles)
      /\ Accounted(c.trips, c.spawned, c.resolutions, c.tally)
  BY DEF Disturbed
<1>3. ASSUME NEW t \in hit
      PROVE  TripSound(Reset(t), c.lines) /\ Reset(t).status = "Idle"
  <2>1. c.trips[t] \in Trip
    BY DEF Disturbed
  <2>2. PICK trip \in Trip : trip = c.trips[t]
    BY <2>1
  <2>3. PICK at \in Position : at = IF t \in DOMAIN parkedAt THEN parkedAt[t] ELSE trip.at
    BY TripFields
  <2>4. PICK reset : reset = [trip EXCEPT !.status = "Idle", !.plan = <<>>, !.leg = 1, !.wait = 0, !.at = at]
    OBVIOUS
  <2>5. TripSound(reset, c.lines) /\ reset.status = "Idle"
    BY <2>4, ResetSound
  <2>6. Reset(t) = reset
    <3>1. Reset(t) = [trip EXCEPT !.status = "Idle", !.plan = <<>>, !.leg = 1, !.wait = 0,
                                  !.at = IF t \in DOMAIN parkedAt THEN parkedAt[t] ELSE @]
      BY <2>2
    <3>2. QED
      BY <2>3, <2>4, <3>1 DEF Trip
  <2>7. QED
    BY <2>5, <2>6
<1>4. hit \subseteq DOMAIN c.trips /\ \A t \in DOMAIN c.trips : t \in hit <=> References(c.trips[t], l)
  OBVIOUS
<1> HIDE DEF hit, Reset
<1>5. /\ DOMAIN T = DOMAIN c.trips
      /\ \A t \in DOMAIN c.trips : T[t] = IF t \in hit THEN Reset(t) ELSE c.trips[t]
  OBVIOUS
<1>6. \A t \in DOMAIN c.trips : TripSound(T[t], c.lines)
  BY <1>3, <1>4, <1>5 DEF Disturbed
<1>7. ASSUME NEW v \in DOMAIN c.vehicles
      PROVE  /\ V[v].riders = c.vehicles[v].riders \ hit /\ V[v].line = c.vehicles[v].line
             /\ VehicleSound(V[v], c.lines) /\ Cardinality(V[v].riders) <= Seats
             /\ \A t \in V[v].riders : /\ t \in DOMAIN T /\ T[t].status = "Riding"
                                       /\ CurrentLeg(T[t]).line = V[v].line
  <2>1. /\ VehicleSound(c.vehicles[v], c.lines) /\ Cardinality(c.vehicles[v].riders) <= Seats
        /\ \A t \in c.vehicles[v].riders : /\ t \in DOMAIN c.trips /\ c.trips[t].status = "Riding"
                                           /\ CurrentLeg(c.trips[t]).line = c.vehicles[v].line
    BY DEF Disturbed
  <2>2. PICK w \in Vehicle : w = c.vehicles[v]
    BY <2>1 DEF VehicleSound
  <2>3. PICK riders : riders = w.riders \ hit
    OBVIOUS
  <2>4. PICK u : u = [w EXCEPT !.riders = riders]
    OBVIOUS
  <2>5. V[v] = u
    BY <2>2, <2>3, <2>4
  <2>6. /\ u \in Vehicle /\ u.riders = riders /\ u.line = w.line /\ u.index = w.index /\ u.step = w.step
        /\ u.progress = w.progress
    BY <2>2, <2>3, <2>4 DEF Vehicle
  <2>7. VehicleSound(u, c.lines)
    BY <2>1, <2>2, <2>6 DEF VehicleSound, OnItinerary
  <2>8. Cardinality(riders) <= Seats
    <3>1. IsFiniteSet(w.riders)
      <4>1. w.riders \subseteq DOMAIN c.trips
        BY <2>1, <2>2
      <4>2. DOMAIN c.trips \subseteq 1..c.spawned /\ c.spawned \in Nat
        BY <1>2, CityFields DEF Accounted
      <4>3. QED
        <5>1. IsFiniteSet(1..c.spawned)
          BY <4>2, FS_Interval
        <5>2. w.riders \subseteq 1..c.spawned
          BY <4>1, <4>2
        <5>3. QED
          BY <5>1, <5>2, FS_Subset
    <3>2. /\ Cardinality(riders) \in Nat /\ Cardinality(w.riders) \in Nat
          /\ Cardinality(riders) <= Cardinality(w.riders)
      BY <2>3, <3>1, FS_Subset, FS_CardinalityType
    <3>3. Seats \in Nat
      BY TripTickAssumption DEF TripTickAssumption
    <3>4. QED
      BY <2>1, <2>2, <3>2, <3>3
  <2>9. \A t \in riders : /\ t \in DOMAIN T /\ T[t].status = "Riding"
                          /\ CurrentLeg(T[t]).line = u.line
    BY <1>5, <2>1, <2>2, <2>3, <2>6
  <2> HIDE DEF V
  <2>10. QED
    BY <2>2, <2>3, <2>5, <2>6, <2>7, <2>8, <2>9
<1>8. DOMAIN V = DOMAIN c.vehicles
  OBVIOUS
<1>9. T \in Partial(Trip) /\ V \in Partial(Vehicle)
  <2>1. /\ DOMAIN c.trips \in SUBSET Nat /\ DOMAIN c.vehicles \in SUBSET Nat
    BY <1>2, CityFields, PartialFacts
  <2>2. T \in [DOMAIN c.trips -> Trip]
    BY <1>5, <1>6 DEF TripSound
  <2>3. V \in [DOMAIN c.vehicles -> Vehicle]
    <3>1. \A v \in DOMAIN c.vehicles : V[v] \in Vehicle
      BY <1>7 DEF VehicleSound
    <3>2. V = [v \in DOMAIN c.vehicles |-> V[v]]
      OBVIOUS
    <3> HIDE DEF V
    <3>3. QED
      BY <3>1, <3>2
  <2>4. QED
    BY <2>1, <2>2, <2>3, IsPartial
<1> HIDE DEF T, V, d
<1>10. Seated(V, T)
  <2>1. \A v, w \in DOMAIN V : v # w => \A t \in V[v].riders : t \notin V[w].riders
    BY <1>7, <1>8 DEF Disturbed
  <2>2. ASSUME NEW t \in DOMAIN T, T[t].status = "Riding"
        PROVE  \E v \in DOMAIN V : t \in V[v].riders
    <3>1. t \in DOMAIN c.trips /\ t \notin hit /\ T[t] = c.trips[t]
      BY <1>3, <1>5, <2>2
    <3>2. Riding(c, t)
      BY <1>4, <2>2, <3>1 DEF Disturbed
    <3>3. PICK v \in DOMAIN c.vehicles : t \in c.vehicles[v].riders
      BY <3>2 DEF Riding
    <3>4. QED
      BY <1>7, <1>8, <3>1, <3>3
  <2>3. QED
    BY <1>7, <1>8, <2>1, <2>2 DEF Seated
<1>11. Sound(c.lines, V, T)
  BY <1>2, <1>5, <1>6, <1>7, <1>8, <1>10 DEF Sound
<1>12. /\ d \in City /\ d.trips = T /\ d.vehicles = V /\ d.lines = c.lines
       /\ d.spawned = c.spawned /\ d.resolutions = c.resolutions /\ d.tally = c.tally
  BY <1>1, <1>2, <1>9 DEF City
<1>13. Accounted(d.trips, d.spawned, d.resolutions, d.tally)
  <2>1. DOMAIN T = DOMAIN c.trips
    BY <1>5
  <2>2. Accounted(T, c.spawned, c.resolutions, c.tally)
    BY <1>2, <2>1 DEF Accounted
  <2>3. QED
    BY <1>12, <2>2
<1>14. QED
  BY <1>2, <1>8, <1>11, <1>12, <1>13 DEF CityInv, d

\* A rider counts on the line it rides.
LEMMA RiderReferences ==
  ASSUME NEW trip, NEW lines, TripSound(trip, lines), trip.status = "Riding"
  PROVE  References(trip, CurrentLeg(trip).line)
<1>1. HasLeg(trip)
  BY DEF TripSound
<1>2. trip.leg \in trip.leg..Len(trip.plan)
  <2>1. Len(trip.plan) \in Nat
    BY TripFields DEF TripSound
  <2>2. QED
    BY <1>1, <2>1 DEF HasLeg
<1>3. QED
  BY <1>2 DEF References, CurrentLeg

\* Line l changes or goes, and whoever rides it leaves: the rest goes on as before.
LEMMA IsDisturbed ==
  ASSUME NEW c, CityInv(c), NEW l, NEW lines \in Partial(Line), LinesTyped(lines), Numbered(DOMAIN lines),
         \A k \in DOMAIN c.lines : k # l => SameLine(lines, c.lines, k),
         NEW V \in Partial(Vehicle), DOMAIN V \subseteq DOMAIN c.vehicles,
         \A v \in DOMAIN V : IF c.vehicles[v].line = l
                             THEN VehicleSound(V[v], lines) /\ V[v].riders = {}
                             ELSE V[v] = c.vehicles[v],
         \A v \in DOMAIN c.vehicles : c.vehicles[v].line # l => v \in DOMAIN V,
         NEW d, d = [c EXCEPT !.lines = lines, !.vehicles = V]
  PROVE  Disturbed(d, l)
<1>1. /\ c \in City /\ Sound(c.lines, c.vehicles, c.trips)
      /\ Accounted(c.trips, c.spawned, c.resolutions, c.tally) /\ Numbered(DOMAIN c.vehicles)
  BY DEF CityInv
<1>2. /\ d \in City /\ d.lines = lines /\ d.vehicles = V /\ d.trips = c.trips
      /\ d.spawned = c.spawned /\ d.resolutions = c.resolutions /\ d.tally = c.tally
  BY <1>1 DEF City
<1>3. Numbered(DOMAIN V)
  BY <1>1 DEF Numbered
<1>4. /\ LinesTyped(c.lines) /\ Seated(c.vehicles, c.trips)
      /\ \A v \in DOMAIN c.vehicles : VehicleSound(c.vehicles[v], c.lines)
      /\ \A t \in DOMAIN c.trips : TripSound(c.trips[t], c.lines)
  BY <1>1 DEF Sound
<1>5. ASSUME NEW v \in DOMAIN V
      PROVE  /\ VehicleSound(V[v], lines) /\ Cardinality(V[v].riders) <= Seats
             /\ \A t \in V[v].riders : /\ t \in DOMAIN c.trips /\ c.trips[t].status = "Riding"
                                       /\ CurrentLeg(c.trips[t]).line = V[v].line
             /\ \A t \in V[v].riders : t \in c.vehicles[v].riders
  <2>1. CASE c.vehicles[v].line = l
    <3>1. VehicleSound(V[v], lines) /\ V[v].riders = {}
      BY <2>1
    <3>2. Cardinality({}) = 0 /\ Seats \in Nat
      BY FS_EmptySet, TripTickAssumption DEF TripTickAssumption
    <3>3. QED
      BY <3>1, <3>2
  <2>2. CASE c.vehicles[v].line # l
    <3>1. V[v] = c.vehicles[v] /\ v \in DOMAIN c.vehicles
      BY <2>2
    <3>2. VehicleSound(c.vehicles[v], c.lines)
      BY <1>4, <3>1
    <3>3. SameLine(lines, c.lines, c.vehicles[v].line)
      BY <2>2, <3>2 DEF VehicleSound
    <3>4. VehicleSound(V[v], lines)
      BY <3>1, <3>2, <3>3, VehicleKeeps
    <3>5. QED
      BY <1>4, <3>1, <3>4 DEF Seated
  <2>3. QED
    BY <2>1, <2>2
<1>6. \A v, w \in DOMAIN V : v # w => \A t \in V[v].riders : t \notin V[w].riders
  <2>1. \A v, w \in DOMAIN c.vehicles :
          v # w => \A t \in c.vehicles[v].riders : t \notin c.vehicles[w].riders
    BY <1>4 DEF Seated
  <2>2. QED
    BY <1>5, <2>1
<1>7. ASSUME NEW t \in DOMAIN c.trips
      PROVE  /\ c.trips[t] \in Trip
             /\ ~References(c.trips[t], l) => /\ TripSound(c.trips[t], lines)
                                              /\ c.trips[t].status = "Riding" => Riding(d, t)
  <2>1. PICK trip : trip = c.trips[t]
    OBVIOUS
  <2>2. TripSound(trip, c.lines) /\ trip \in Trip
    BY <1>4, <2>1 DEF TripSound
  <2>3. SUFFICES ASSUME ~References(trip, l)
                 PROVE  TripSound(trip, lines) /\ (trip.status = "Riding" => Riding(d, t))
    BY <2>1, <2>2
  <2>4. KeepsRides(trip, lines, c.lines)
    BY <2>3 DEF KeepsRides, References, RideExists
  <2>5. TripSound(trip, lines)
    BY <2>2, <2>4, TripKeeps
  <2>6. ASSUME trip.status = "Riding"
        PROVE  Riding(d, t)
    <3>1. PICK v \in DOMAIN c.vehicles : t \in c.vehicles[v].riders
      BY <1>4, <2>1, <2>6 DEF Seated
    <3>2. CurrentLeg(trip).line = c.vehicles[v].line
      BY <1>4, <2>1, <3>1 DEF Seated
    <3>3. c.vehicles[v].line # l
      BY <2>2, <2>3, <2>6, <3>2, RiderReferences
    <3>4. v \in DOMAIN V /\ V[v] = c.vehicles[v]
      BY <3>3
    <3>5. QED
      BY <1>2, <3>1, <3>4 DEF Riding
  <2>7. QED
    BY <2>5, <2>6
<1>8. QED
  BY <1>1, <1>2, <1>3, <1>5, <1>6, <1>7 DEF Disturbed

\* A line that is edited or broken: its vehicles stop at departures of what it runs then.
LEMMA ParkSound ==
  ASSUME NEW c, CityInv(c), NEW l \in DOMAIN c.lines, NEW line \in Line,
         NEW edited, edited = [c EXCEPT !.lines = [@ EXCEPT ![l] = line]],
         NEW visit \in ParkChoices(edited, l)
  PROVE  CityInv(Park(edited, l, visit))
<1> DEFINE lines == [c.lines EXCEPT ![l] = line]
           fleet == Fleet(edited, l)
           Stopped(v) == [line |-> l, index |-> visit[v], step |-> 1, progress |-> 0, riders |-> {}]
           V == [v \in DOMAIN edited.vehicles |-> IF v \in fleet THEN Stopped(v) ELSE edited.vehicles[v]]
           parkedAt == [t \in UNION {edited.vehicles[v].riders : v \in fleet} |->
                          LET v == CHOOSE v \in fleet : t \in edited.vehicles[v].riders
                          IN  Access[LegsOf(edited, l)[visit[v]].from]]
           d == [edited EXCEPT !.vehicles = V]
<1>1. c \in City /\ LinesTyped(c.lines) /\ Numbered(DOMAIN c.lines)
  BY DEF CityInv, Sound
<1>2. edited = [c EXCEPT !.lines = lines]
  OBVIOUS
<1>3. /\ edited.lines = lines /\ edited.vehicles = c.vehicles /\ edited.trips = c.trips
  BY <1>1 DEF City
<1>4. fleet = {v \in DOMAIN c.vehicles : c.vehicles[v].line = l} /\ fleet \subseteq DOMAIN c.vehicles
  BY <1>3 DEF Fleet
<1>5. /\ DOMAIN lines = DOMAIN c.lines /\ lines[l] = line
      /\ \A k \in DOMAIN c.lines : k # l => lines[k] = c.lines[k]
  OBVIOUS
<1>6. Itinerary(Legs[line.pattern]) /\ LegsOf(edited, l) = Legs[line.pattern]
  <2>1. line.pattern \in Patterns
    BY DEF Line
  <2>2. QED
    BY <1>3, <1>5, <2>1, LegsFacts DEF LegsOf
<1>7. PICK legs : legs = LegsOf(edited, l)
  OBVIOUS
<1>8. /\ Itinerary(legs) /\ legs = Legs[line.pattern]
      /\ visit \in [fleet -> ServiceVisits(legs)]
  BY <1>6, <1>7 DEF ParkChoices
<1>9. Park(edited, l, visit) = InvalidateTripsForLine(d, l, parkedAt)
  BY DEF Park
<1> HIDE DEF lines, fleet
<1>10. ASSUME NEW v \in fleet
       PROVE  /\ visit[v] \in ServiceVisits(legs) /\ visit[v] \in 1..Len(legs)
              /\ legs[visit[v]].steps # <<>> /\ legs[visit[v]].from \in DOMAIN Where
              /\ legs[visit[v]].steps \in Path
  <2>1. visit[v] \in ServiceVisits(legs)
    BY <1>8
  <2>2. visit[v] \in 1..Len(legs) /\ visit[v] \in DOMAIN legs
    BY <1>8, <2>1, ItineraryFacts
  <2>3. legs[visit[v]].kind = "service"
    BY <2>1 DEF ServiceVisits
  <2>4. legs[visit[v]].steps # <<>>
    BY <1>8, <2>2, <2>3 DEF Itinerary
  <2>5. legs[visit[v]].from \in DOMAIN Where /\ legs[visit[v]].steps \in Path
    BY <1>8, <2>2, ItineraryFacts
  <2>6. QED
    BY <2>1, <2>2, <2>4, <2>5
<1>11. ASSUME NEW v \in fleet
       PROVE  VehicleSound(Stopped(v), lines)
  <2>1. PICK i : i = visit[v]
    OBVIOUS
  <2>2. i \in 1..Len(legs) /\ legs[i].steps # <<>> /\ legs[i].steps \in Seq(Nat \ {0})
    BY <1>10, <2>1 DEF Path
  <2>3. Len(legs) \in Nat
    BY <1>8, ItineraryFacts
  <2>4. /\ 1 \in 1..Len(legs[i].steps) /\ legs[i].steps[1] \in Nat \ {0}
    <3>1. Len(legs[i].steps) \in Nat /\ Len(legs[i].steps) # 0
      BY <2>2, EmptySeq
    <3>2. 1 \in 1..Len(legs[i].steps)
      BY <3>1
    <3>3. QED
      BY <2>2, <3>2, ElementOfSeq
  <2>5. 0 \in 0..(legs[i].steps[1] - 1)
    BY <2>4
  <2>6. PICK w : w = [line |-> l, index |-> i, step |-> 1, progress |-> 0, riders |-> {}]
    OBVIOUS
  <2>7. /\ w.line = l /\ w.index = i /\ w.step = 1 /\ w.progress = 0
    BY <2>6
  <2>8. OnItinerary(w, legs)
    BY <2>2, <2>4, <2>5, <2>7 DEF OnItinerary
  <2>9. w \in Vehicle
    <3>1. l \in Nat /\ i \in Nat /\ 1 \in Nat /\ 0 \in Nat /\ {} \in SUBSET Nat
      BY <1>1, <2>2, <2>3 DEF LinesTyped
    <3>2. QED
      BY <2>6, <3>1 DEF Vehicle
  <2>10. l \in DOMAIN lines /\ lines[l].pattern = line.pattern
    BY <1>5
  <2>11. VehicleSound(w, lines)
    BY <1>8, <2>7, <2>8, <2>9, <2>10 DEF VehicleSound
  <2>12. QED
    BY <2>1, <2>6, <2>11
<1>12. \A v \in fleet : Stopped(v).riders = {}
  OBVIOUS
<1> HIDE DEF Stopped
<1>13. /\ DOMAIN V = DOMAIN c.vehicles
       /\ \A v \in DOMAIN c.vehicles : V[v] = IF v \in fleet THEN Stopped(v) ELSE c.vehicles[v]
  BY <1>3
<1>14. V \in Partial(Vehicle)
  <2>1. DOMAIN c.vehicles \in SUBSET Nat /\ \A v \in DOMAIN c.vehicles : c.vehicles[v] \in Vehicle
    BY <1>1, CityFields, PartialFacts
  <2>2. \A v \in fleet : Stopped(v) \in Vehicle
    BY <1>11 DEF VehicleSound
  <2>3. V \in [DOMAIN c.vehicles -> Vehicle]
    BY <1>3, <2>1, <2>2
  <2>4. QED
    BY <2>1, <2>3, IsPartial
<1>15. lines \in Partial(Line) /\ LinesTyped(lines) /\ Numbered(DOMAIN lines)
  <2>1. \A k \in DOMAIN lines : lines[k] \in Line
    BY <1>1, <1>5 DEF LinesTyped
  <2>2. LinesTyped(lines) /\ Numbered(DOMAIN lines)
    BY <1>1, <1>5, <2>1 DEF LinesTyped
  <2>3. lines = [k \in DOMAIN lines |-> lines[k]]
    BY DEF lines
  <2>4. lines \in [DOMAIN lines -> Line] /\ DOMAIN lines \in SUBSET Nat
    BY <2>1, <2>2, <2>3 DEF LinesTyped
  <2>5. QED
    BY <2>2, <2>4, IsPartial
<1>16. \A k \in DOMAIN c.lines : k # l => SameLine(lines, c.lines, k)
  BY <1>5 DEF SameLine
<1>17. d = [c EXCEPT !.lines = lines, !.vehicles = V]
  BY <1>1, <1>2 DEF City
<1>18. \A t \in DOMAIN parkedAt : parkedAt[t] \in Position
  <2>1. TAKE t \in DOMAIN parkedAt
  <2>2. \E v \in fleet : t \in edited.vehicles[v].riders
    OBVIOUS
  <2>3. PICK v : v = CHOOSE w \in fleet : t \in edited.vehicles[w].riders
    OBVIOUS
  <2>4. v \in fleet
    BY <2>2, <2>3
  <2>5. parkedAt[t] = Access[legs[visit[v]].from]
    BY <1>7, <2>3
  <2>6. \A s \in DOMAIN Where : Access[s] \in Nat \X Nat
    BY TripTickAssumption DEF TripTickAssumption
  <2>7. legs[visit[v]].from \in DOMAIN Where
    BY <1>10, <2>4
  <2>8. Access[legs[visit[v]].from] \in Nat \X Nat
    BY <2>6, <2>7
  <2>9. \A p \in Nat \X Nat : p \in Position
    BY DEF Position
  <2>10. QED
    BY <2>5, <2>8, <2>9
<1> HIDE DEF V, d, parkedAt
<1>19. \A v \in DOMAIN V : IF c.vehicles[v].line = l
                           THEN VehicleSound(V[v], lines) /\ V[v].riders = {}
                           ELSE V[v] = c.vehicles[v]
  BY <1>4, <1>11, <1>12, <1>13
<1>20. Disturbed(d, l)
  BY <1>13, <1>14, <1>15, <1>16, <1>17, <1>19, IsDisturbed
<1>21. QED
  BY <1>9, <1>18, <1>20, InvalidateSound

\* The lines with one of them replaced.
LEMMA LineChanged ==
  ASSUME NEW c, CityInv(c), NEW l \in DOMAIN c.lines, NEW line \in Line
  PROVE  LET lines == [c.lines EXCEPT ![l] = line]
         IN  lines \in Partial(Line) /\ LinesTyped(lines) /\ Numbered(DOMAIN lines)
<1> DEFINE lines == [c.lines EXCEPT ![l] = line]
<1>1. LinesTyped(c.lines) /\ Numbered(DOMAIN c.lines)
  BY DEF CityInv, Sound
<1>2. /\ DOMAIN lines = DOMAIN c.lines /\ lines[l] = line
      /\ \A k \in DOMAIN c.lines : k # l => lines[k] = c.lines[k]
      /\ lines = [k \in DOMAIN lines |-> lines[k]]
  OBVIOUS
<1> HIDE DEF lines
<1>3. \A k \in DOMAIN lines : lines[k] \in Line
  BY <1>1, <1>2 DEF LinesTyped
<1>4. LinesTyped(lines) /\ Numbered(DOMAIN lines)
  BY <1>1, <1>2, <1>3 DEF LinesTyped
<1>5. lines \in [DOMAIN lines -> Line] /\ DOMAIN lines \in SUBSET Nat
  BY <1>2, <1>3, <1>4 DEF LinesTyped
<1>6. lines \in Partial(Line)
  BY <1>5, IsPartial
<1>7. QED
  BY <1>4, <1>6 DEF lines

\* The fields of a line.
LEMMA LineOf ==
  ASSUME NEW c, CityInv(c), NEW l \in DOMAIN c.lines
  PROVE  /\ c.lines[l] \in Line /\ c.lines[l].pattern \in Patterns
         /\ c.lines[l].active \in BOOLEAN /\ c.lines[l].broken \in BOOLEAN
         /\ c.lines[l] = [pattern |-> c.lines[l].pattern, active |-> c.lines[l].active,
                          broken |-> c.lines[l].broken]
<1>1. c.lines[l] \in Line
  BY DEF CityInv, Sound, LinesTyped
<1>2. QED
  BY <1>1 DEF Line

\* A line that runs its pattern as before.
LEMMA SamePattern ==
  ASSUME NEW c, CityInv(c), NEW l \in DOMAIN c.lines, NEW line \in Line, line.pattern = c.lines[l].pattern
  PROVE  CityInv([c EXCEPT !.lines = [@ EXCEPT ![l] = line]])
<1> DEFINE lines == [c.lines EXCEPT ![l] = line]
<1>1. lines \in Partial(Line) /\ LinesTyped(lines) /\ Numbered(DOMAIN lines)
  BY LineChanged
<1>2. \A k \in DOMAIN c.lines : SameLine(lines, c.lines, k)
  BY DEF SameLine
<1>3. [c EXCEPT !.lines = [@ EXCEPT ![l] = line]] = [c EXCEPT !.lines = lines]
  OBVIOUS
<1> HIDE DEF lines
<1>4. QED
  BY <1>1, <1>2, <1>3, LinesChange

\* Pausing and resuming a line.
LEMMA SetRouteActiveKeeps ==
  ASSUME CityInv(city), NEW l \in DOMAIN city.lines, SetRouteActive(l)
  PROVE  CityInv(city')
<1> DEFINE line == [city.lines[l] EXCEPT !.active = ~@]
<1>1. line \in Line /\ line.pattern = city.lines[l].pattern
  BY LineOf DEF Line
<1>2. city' = [city EXCEPT !.lines = [@ EXCEPT ![l] = line]]
  BY DEF SetRouteActive
<1> HIDE DEF line
<1>3. QED
  BY <1>1, <1>2, SamePattern

\* A broken line is served again.
LEMMA RestoreServiceKeeps ==
  ASSUME CityInv(city), NEW l \in DOMAIN city.lines, RestoreService(l)
  PROVE  CityInv(city')
<1> DEFINE line == [city.lines[l] EXCEPT !.broken = FALSE]
<1>1. line \in Line /\ line.pattern = city.lines[l].pattern
  BY LineOf DEF Line
<1>2. city' = [city EXCEPT !.lines = [@ EXCEPT ![l] = line]]
  BY DEF RestoreService
<1> HIDE DEF line
<1>3. QED
  BY <1>1, <1>2, SamePattern

\* A line breaks: its vehicles park and its trips start over.
LEMMA BreakServiceKeeps ==
  ASSUME CityInv(city), NEW l \in DOMAIN city.lines, BreakService(l)
  PROVE  CityInv(city')
<1> DEFINE line == [city.lines[l] EXCEPT !.broken = TRUE]
           edited == [city EXCEPT !.lines[l].broken = TRUE]
<1>1. line \in Line
  <2>1. PICK row \in Line : row = city.lines[l]
    BY LineOf
  <2>2. [row EXCEPT !.broken = TRUE] \in Line
    BY DEF Line
  <2>3. QED
    BY <2>1, <2>2
<1>2. edited = [city EXCEPT !.lines = [@ EXCEPT ![l] = line]]
  OBVIOUS
<1>3. PICK visit \in ParkChoices(city, l) : city' = Park(edited, l, visit)
  BY DEF BreakService
<1>4. ParkChoices(city, l) = ParkChoices(edited, l)
  <2>1. city \in City
    BY DEF CityInv
  <2>2. /\ edited.vehicles = city.vehicles
        /\ edited.lines[l].pattern = city.lines[l].pattern
    BY <1>2, <2>1, LineOf DEF City
  <2>3. QED
    BY <2>2 DEF ParkChoices, Fleet, LegsOf
<1> HIDE DEF line, edited
<1>5. QED
  BY <1>1, <1>2, <1>3, <1>4, ParkSound

\* A line is given another pattern: its vehicles move there and its trips start over.
LEMMA UpdateRouteKeeps ==
  ASSUME CityInv(city), NEW l \in DOMAIN city.lines, UpdateRoute(l)
  PROVE  CityInv(city')
<1>1. PICK pattern \in Patterns, broken \in {FALSE, city.lines[l].broken} :
        LET edited == [city EXCEPT !.lines[l].pattern = pattern, !.lines[l].broken = broken]
        IN  \E visit \in ParkChoices(edited, l) : city' = Park(edited, l, visit)
  BY DEF UpdateRoute
<1> DEFINE line == [city.lines[l] EXCEPT !.pattern = pattern, !.broken = broken]
           edited == [city EXCEPT !.lines[l].pattern = pattern, !.lines[l].broken = broken]
<1>2. PICK visit \in ParkChoices(edited, l) : city' = Park(edited, l, visit)
  BY <1>1
<1>3. line \in Line
  <2>1. broken \in BOOLEAN
    BY LineOf
  <2>2. PICK row \in Line : row = city.lines[l]
    BY LineOf
  <2>3. [row EXCEPT !.pattern = pattern, !.broken = broken] \in Line
    BY <2>1 DEF Line
  <2>4. QED
    BY <2>2, <2>3
<1>4. edited = [city EXCEPT !.lines = [@ EXCEPT ![l] = line]]
  <2>1. city \in City
    BY DEF CityInv
  <2>2. QED
    BY <2>1, LineOf DEF City
<1> HIDE DEF line, edited
<1>5. QED
  BY <1>2, <1>3, <1>4, ParkSound

\* The number after all that are taken is free.
LEMMA NextNumber ==
  ASSUME NEW S, Numbered(S), NEW n, n = Max(S \cup {0}) + 1
  PROVE  n \in Nat \ {0} /\ n \notin S /\ \A k \in Nat : Numbered(S \cup n..k)
<1>1. PICK m \in Nat : S \subseteq 1..m
  BY DEF Numbered
<1>2. S \cup {0} \in SUBSET (0..m)
  BY <1>1
<1>3. PICK k : k = Max(S \cup {0})
  OBVIOUS
<1>4. k \in S \cup {0} /\ \A y \in S \cup {0} : k >= y
  BY <1>2, <1>3, BoundedMax
<1>5. k \in Nat /\ n = k + 1
  BY <1>2, <1>3, <1>4
<1>6. \A y \in S : y \in Int /\ k >= y
  BY <1>1, <1>4
<1>7. ASSUME NEW j \in Nat
      PROVE  Numbered(S \cup n..j)
  <2>1. S \cup n..j \subseteq 1..(m + j)
    <3>1. \A y \in S : y \in 1..(m + j)
      BY <1>1
    <3>2. \A y \in n..j : y \in 1..(m + j)
      BY <1>5
    <3>3. QED
      BY <3>1, <3>2
  <2>2. QED
    BY <2>1 DEF Numbered
<1>8. QED
  BY <1>5, <1>6, <1>7

\* A new line, perhaps under an id that was in use before.
LEMMA CreateRouteKeeps ==
  ASSUME CityInv(city), NEW pattern \in Patterns, CreateRoute(pattern)
  PROVE  CityInv(city')
<1> DEFINE n == NextLine(city)
           new == [pattern |-> pattern, active |-> TRUE, broken |-> FALSE]
           lines == [l \in DOMAIN city.lines \cup {n} |-> IF l \in DOMAIN city.lines THEN city.lines[l] ELSE new]
<1>1. city' = [city EXCEPT !.lines = lines]
  BY DEF CreateRoute
<1>2. LinesTyped(city.lines) /\ Numbered(DOMAIN city.lines)
  BY DEF CityInv, Sound
<1>3. n \in Nat \ {0} /\ n \notin DOMAIN city.lines /\ Numbered(DOMAIN city.lines \cup n..n)
  BY <1>2, NextNumber DEF NextLine
<1> HIDE DEF n
<1>4. n..n = {n}
  BY <1>3
<1>5. new \in Line
  BY DEF Line
<1> HIDE DEF new
<1>6. /\ DOMAIN lines = DOMAIN city.lines \cup {n}
      /\ \A l \in DOMAIN city.lines : lines[l] = city.lines[l]
      /\ \A l \in DOMAIN lines : lines[l] \in Line
      /\ lines = [l \in DOMAIN lines |-> lines[l]]
  BY <1>2, <1>5 DEF LinesTyped
<1> HIDE DEF lines
<1>7. LinesTyped(lines) /\ Numbered(DOMAIN lines)
  BY <1>2, <1>3, <1>4, <1>6 DEF LinesTyped
<1>8. lines \in [DOMAIN lines -> Line] /\ DOMAIN lines \in SUBSET Nat
  BY <1>6, <1>7 DEF LinesTyped
<1>9. lines \in Partial(Line)
  BY <1>8, IsPartial
<1>10. \A l \in DOMAIN city.lines : SameLine(lines, city.lines, l)
  BY <1>6 DEF SameLine
<1>11. QED
  BY <1>1, <1>7, <1>9, <1>10, LinesChange

\* A line goes, with its vehicles, and its trips start over.
LEMMA DeleteRouteKeeps ==
  ASSUME CityInv(city), NEW l \in DOMAIN city.lines, DeleteRoute(l)
  PROVE  CityInv(city')
<1> DEFINE lines == Restrict(city.lines, DOMAIN city.lines \ {l})
           V == Restrict(city.vehicles, DOMAIN city.vehicles \ Fleet(city, l))
           rest == [city EXCEPT !.lines = lines, !.vehicles = V]
<1>1. city' = InvalidateTripsForLine(rest, l, <<>>)
  BY DEF DeleteRoute
<1>2. /\ LinesTyped(city.lines) /\ Numbered(DOMAIN city.lines)
      /\ DOMAIN city.vehicles \in SUBSET Nat /\ \A v \in DOMAIN city.vehicles : city.vehicles[v] \in Vehicle
  <2>1. city \in City /\ LinesTyped(city.lines) /\ Numbered(DOMAIN city.lines)
    BY DEF CityInv, Sound
  <2>2. QED
    BY <2>1, CityFields, PartialFacts
<1>3. /\ DOMAIN lines = DOMAIN city.lines \ {l} /\ \A k \in DOMAIN lines : lines[k] = city.lines[k]
      /\ lines = [k \in DOMAIN lines |-> lines[k]]
  BY DEF Restrict
<1>4. /\ DOMAIN V = {v \in DOMAIN city.vehicles : city.vehicles[v].line # l}
      /\ \A v \in DOMAIN V : V[v] = city.vehicles[v]
      /\ V = [v \in DOMAIN V |-> V[v]]
  BY DEF Restrict, Fleet
<1> HIDE DEF lines, V
<1>5. LinesTyped(lines) /\ Numbered(DOMAIN lines)
  BY <1>2, <1>3 DEF LinesTyped, Numbered
<1>6. lines \in Partial(Line)
  <2>1. lines \in [DOMAIN lines -> Line] /\ DOMAIN lines \in SUBSET Nat
    BY <1>3, <1>5 DEF LinesTyped
  <2>2. QED
    BY <2>1, IsPartial
<1>7. V \in Partial(Vehicle)
  <2>1. V \in [DOMAIN V -> Vehicle] /\ DOMAIN V \in SUBSET Nat
    BY <1>2, <1>4
  <2>2. QED
    BY <2>1, IsPartial
<1>8. \A k \in DOMAIN city.lines : k # l => SameLine(lines, city.lines, k)
  BY <1>3 DEF SameLine
<1>9. /\ DOMAIN V \subseteq DOMAIN city.vehicles
      /\ \A v \in DOMAIN V : IF city.vehicles[v].line = l
                             THEN VehicleSound(V[v], lines) /\ V[v].riders = {}
                             ELSE V[v] = city.vehicles[v]
      /\ \A v \in DOMAIN city.vehicles : city.vehicles[v].line # l => v \in DOMAIN V
  BY <1>4
<1>10. Disturbed(rest, l)
  BY <1>5, <1>6, <1>7, <1>8, <1>9, IsDisturbed
<1> HIDE DEF rest
<1>11. \A t \in DOMAIN <<>> : <<>>[t] \in Position
  OBVIOUS
<1>12. QED
  BY <1>1, <1>10, <1>11, InvalidateSound

-----------------------------------------------------------------------------
(* The fleet.                                                              *)

\* The first position whose partial sum exceeds a number that the whole sum exceeds.
LEMMA FirstBeyond ==
  ASSUME NEW s \in Seq(Nat), NEW rest \in Nat, rest < Sum(s), NEW sums, sums = SumsOf(s), NEW step,
         step = Min({k \in DOMAIN s : rest < sums[k]})
  PROVE  /\ step \in 1..Len(s) /\ sums[step - 1] \in Nat /\ sums[step - 1] <= rest
         /\ rest < sums[step - 1] + s[step]
<1>1. PICK n \in Nat : n = Len(s) /\ DOMAIN s = 1..n
  OBVIOUS
<1>2. sums \in [0..n -> Nat] /\ sums[0] = 0 /\ \A k \in 1..n : sums[k] = sums[k - 1] + s[k]
  <2>1. /\ SumsOf(s) \in [0..Len(s) -> Nat] /\ SumsOf(s)[0] = 0
        /\ \A k \in 1..Len(s) : SumsOf(s)[k] = SumsOf(s)[k - 1] + s[k]
    BY SumsFacts
  <2>2. QED
    BY <1>1, <2>1
<1>3. rest < sums[n] /\ n # 0
  BY <1>1, <1>2 DEF Sum
<1> DEFINE S == {k \in 1..n : rest < sums[k]}
<1>4. S \in SUBSET Nat /\ S # {}
  <2>1. n \in 1..n
    BY <1>1, <1>3
  <2>2. QED
    BY <1>3, <2>1
<1>5. step = Min(S)
  BY <1>1
<1>6. step \in S /\ \A y \in S : step <= y
  BY <1>4, <1>5, MinFacts
<1>7. step \in 1..n /\ rest < sums[step]
  BY <1>6
<1>8. step - 1 \in 0..n /\ sums[step - 1] \in Nat
  BY <1>2, <1>7
<1>9. sums[step - 1] <= rest
  <2>1. CASE step = 1
    BY <1>2, <2>1
  <2>2. CASE step # 1
    <3>1. step - 1 \in 1..n /\ ~(step <= step - 1)
      BY <1>7, <2>2
    <3>2. ~(rest < sums[step - 1])
      BY <1>6, <3>1
    <3>3. QED
      BY <1>8, <3>2
  <2>3. QED
    BY <2>1, <2>2
<1>10. QED
  BY <1>1, <1>2, <1>7, <1>8, <1>9

\* A sum is at least each of its terms.
LEMMA SumAtLeast ==
  ASSUME NEW s \in Seq(Nat), NEW i \in 1..Len(s)
  PROVE  Sum(s) >= s[i]
<1>1. PICK n \in Nat : n = Len(s)
  OBVIOUS
<1>2. PICK sums : sums = SumsOf(s)
  OBVIOUS
<1>3. sums \in [0..n -> Nat] /\ sums[0] = 0 /\ \A k \in 1..n : sums[k] = sums[k - 1] + s[k]
  BY <1>1, <1>2, SumsFacts
<1>4. \A k \in 1..n : s[k] \in Nat /\ sums[k] \in Nat /\ sums[k - 1] \in Nat
  <2>1. \A k \in 1..n : s[k] \in Nat
    BY <1>1, ElementOfSeq
  <2>2. \A k \in 1..n : k \in 0..n /\ k - 1 \in 0..n
    BY <1>1
  <2>3. QED
    BY <1>3, <2>1, <2>2
<1> DEFINE T == {k \in 0..n : k >= i => sums[k] >= s[i]}
<1>5. 0 \in T
  BY <1>1
<1>6. \A k \in 1..n : k - 1 \in T => k \in T
  <2>1. TAKE k \in 1..n
  <2>2. HAVE k - 1 \in T
  <2>3. k - 1 >= i => sums[k - 1] >= s[i]
    BY <2>2
  <2>4. s[k] \in Nat /\ sums[k - 1] \in Nat /\ s[i] \in Nat /\ sums[k] = sums[k - 1] + s[k]
    BY <1>1, <1>3, <1>4
  <2>5. k >= i => sums[k] >= s[i]
    <3>1. CASE k = i
      BY <2>4, <3>1
    <3>2. CASE k # i
      BY <1>1, <2>3, <2>4, <3>2
    <3>3. QED
      BY <3>1, <3>2
  <2>6. k \in 0..n
    BY <1>1
  <2>7. QED
    BY <2>5, <2>6
<1>7. T \in SUBSET (0..n)
  OBVIOUS
<1> HIDE DEF T
<1>8. \A k \in 0..n : k \in T
  BY <1>5, <1>6, <1>7, StepByStep
<1>9. n \in 0..n /\ n >= i
  BY <1>1
<1>10. QED
  BY <1>1, <1>2, <1>8, <1>9 DEF T, Sum

\* The seconds of every leg, and of the round trip.
LEMMA LegSecondsFacts ==
  ASSUME NEW legs, Itinerary(legs)
  PROVE  /\ LegSeconds(legs) \in Seq(Nat) /\ Len(LegSeconds(legs)) = Len(legs)
         /\ \A i \in 1..Len(legs) : LegSeconds(legs)[i] = Sum(legs[i].steps)
         /\ RoundTripSeconds(legs) \in Nat /\ RoundTripSeconds(legs) >= 1
<1>1. /\ Len(legs) \in Nat /\ Len(legs) >= 2
      /\ \A i \in 1..Len(legs) : Sum(legs[i].steps) \in Nat /\ legs[i].steps \in Path
  BY ItineraryFacts
<1>2. PICK s : s = LegSeconds(legs)
  OBVIOUS
<1>3. s \in Seq(Nat) /\ Len(s) = Len(legs) /\ \A i \in 1..Len(legs) : s[i] = Sum(legs[i].steps)
  BY <1>1, <1>2 DEF LegSeconds
<1>4. Sum(s) \in Nat
  BY <1>3, SumType
<1>5. 1 \in 1..Len(legs)
  BY <1>1
<1>6. PICK steps \in Path : steps = legs[1].steps /\ steps # <<>>
  <2>1. legs[1].kind = "service" /\ DOMAIN legs = 1..Len(legs)
    BY ItineraryFacts DEF Itinerary
  <2>2. legs[1].steps # <<>>
    BY <1>5, <2>1 DEF Itinerary
  <2>3. QED
    BY <1>1, <1>5, <2>2
<1>7. Sum(steps) >= 1
  <2>1. steps \in Seq(Nat) /\ Len(steps) \in Nat /\ Len(steps) # 0
    <3>1. steps \in Seq(Nat \ {0})
      BY DEF Path
    <3>2. QED
      BY <1>6, <3>1, EmptySeq
  <2>2. 1 \in 1..Len(steps)
    BY <2>1
  <2>3. steps[1] \in Nat \ {0}
    BY <2>2, ElementOfSeq DEF Path
  <2>4. Sum(steps) >= steps[1] /\ Sum(steps) \in Nat
    BY <2>1, <2>2, SumAtLeast, SumType
  <2>5. QED
    BY <2>3, <2>4
<1>8. Sum(s) >= s[1] /\ s[1] = Sum(steps) /\ s[1] \in Nat
  BY <1>1, <1>3, <1>5, <1>6, SumAtLeast
<1>9. Sum(s) >= 1
  BY <1>4, <1>7, <1>8
<1>10. QED
  BY <1>2, <1>3, <1>4, <1>9 DEF RoundTripSeconds

\* A vehicle put down along the round trip stands on the itinerary.
LEMMA VehicleAtSound ==
  ASSUME NEW legs, Itinerary(legs), NEW l \in Nat, NEW offset \in Nat, offset < RoundTripSeconds(legs)
  PROVE  /\ VehicleAt(l, legs, offset) \in Vehicle /\ VehicleAt(l, legs, offset).line = l
         /\ VehicleAt(l, legs, offset).riders = {} /\ OnItinerary(VehicleAt(l, legs, offset), legs)
<1> DEFINE end == SumsOf(LegSeconds(legs))
           n == Len(legs)
           S == {i \in DOMAIN legs : offset < end[i] \/ (legs[i].steps = <<>> /\ offset = end[i - 1])}
           leg == Min(S)
           rest == offset - end[leg - 1]
           sums == SumsOf(legs[leg].steps)
           step == IF legs[leg].steps = <<>> THEN 1
                   ELSE Min({k \in DOMAIN legs[leg].steps : rest < sums[k]})
           progress == rest - sums[step - 1]
           w == VehicleAt(l, legs, offset)
<1>1. w = [line |-> l, index |-> leg, step |-> step, progress |-> progress, riders |-> {}]
  BY DEF VehicleAt
<1>2. n \in Nat /\ n >= 2 /\ DOMAIN legs = 1..n
  BY ItineraryFacts
<1>3. /\ end \in [0..n -> Nat] /\ end[0] = 0
      /\ \A i \in 1..n : end[i] = end[i - 1] + Sum(legs[i].steps) /\ end[i - 1] \in Nat
      /\ offset < end[n]
  <2>1. PICK s : s = LegSeconds(legs)
    OBVIOUS
  <2>2. /\ s \in Seq(Nat) /\ Len(s) = n /\ \A i \in 1..n : s[i] = Sum(legs[i].steps)
        /\ Sum(s) = RoundTripSeconds(legs)
    BY <2>1, LegSecondsFacts DEF RoundTripSeconds
  <2>3. /\ SumsOf(s) \in [0..n -> Nat] /\ SumsOf(s)[0] = 0
        /\ \A i \in 1..n : SumsOf(s)[i] = SumsOf(s)[i - 1] + s[i]
    BY <2>2, SumsFacts
  <2>4. offset < SumsOf(s)[n]
    BY <2>2 DEF Sum
  <2>5. \A i \in 1..n : i - 1 \in 0..n
    BY <1>2
  <2>6. QED
    BY <2>1, <2>2, <2>3, <2>4, <2>5
<1>4. S \in SUBSET Nat /\ n \in S
  BY <1>2, <1>3
<1>5. \A i \in 1..n : i \in S <=> offset < end[i] \/ (legs[i].steps = <<>> /\ offset = end[i - 1])
  BY <1>2
<1>6. S \subseteq 1..n
  BY <1>2
<1> HIDE DEF S, end, n
<1>7. leg \in S /\ \A y \in S : leg <= y
  BY <1>4, MinFacts
<1> HIDE DEF leg
<1>8. leg \in 1..n /\ leg \in Nat /\ end[leg - 1] \in Nat /\ end[leg] = end[leg - 1] + Sum(legs[leg].steps)
  BY <1>2, <1>3, <1>6, <1>7
<1>9. rest \in Nat
  <2>1. end[leg - 1] <= offset
    <3>1. CASE leg = 1
      BY <1>3, <3>1
    <3>2. CASE leg # 1
      <4>1. leg - 1 \in 1..n /\ ~(leg <= leg - 1)
        BY <1>2, <1>8, <3>2
      <4>2. ~(offset < end[leg - 1])
        BY <1>5, <1>7, <4>1
      <4>3. QED
        BY <1>8, <4>2
    <3>3. QED
      BY <3>1, <3>2
  <2>2. QED
    BY <1>8, <2>1
<1>10. PICK steps : steps = legs[leg].steps
  OBVIOUS
<1>11. steps \in Path /\ steps \in Seq(Nat) /\ Sum(steps) \in Nat /\ Len(steps) \in Nat
  BY <1>8, <1>10, ItineraryFacts DEF n
<1>12. CASE steps = <<>>
  <2>1. Sum(steps) = 0 /\ SumsOf(steps)[0] = 0
    <3>1. Len(<<>>) = 0
      OBVIOUS
    <3>2. SumsOf(steps)[0] = 0
      BY <1>11, SumsFacts
    <3>3. QED
      BY <1>12, <3>1, <3>2 DEF Sum
  <2>2. end[leg] = end[leg - 1]
    BY <1>8, <1>10, <2>1
  <2>3. rest = 0
    <3>1. offset < end[leg] \/ offset = end[leg - 1]
      BY <1>5, <1>7, <1>8
    <3>2. QED
      BY <1>8, <1>9, <2>2, <3>1
  <2>4. step = 1 /\ step - 1 = 0
    BY <1>10, <1>12
  <2>5. progress = 0
    BY <1>10, <2>1, <2>3, <2>4
  <2> HIDE DEF step, progress, w
  <2>6. w.line = l /\ w.index = leg /\ w.step = 1 /\ w.progress = 0 /\ w.riders = {}
    BY <1>1, <2>4, <2>5
  <2>7. w \in Vehicle
    <3>1. 1 \in Nat /\ 0 \in Nat /\ {} \in SUBSET Nat
      OBVIOUS
    <3>2. QED
      BY <1>1, <1>8, <2>4, <2>5, <3>1 DEF Vehicle
  <2>8. OnItinerary(w, legs)
    BY <1>8, <1>10, <1>12, <2>6 DEF OnItinerary, n
  <2>9. QED
    BY <2>6, <2>7, <2>8 DEF w
<1>13. CASE steps # <<>>
  <2>1. offset < end[leg]
    BY <1>5, <1>7, <1>8, <1>10, <1>13
  <2>2. rest < Sum(steps)
    BY <1>8, <1>10, <1>11, <2>1
  <2>3. step = Min({k \in DOMAIN steps : rest < SumsOf(steps)[k]}) /\ sums = SumsOf(steps)
    BY <1>10, <1>13
  <2> HIDE DEF step, rest, sums
  <2>4. /\ step \in 1..Len(steps) /\ sums[step - 1] \in Nat /\ sums[step - 1] <= rest
        /\ rest < sums[step - 1] + steps[step]
    BY <1>9, <1>11, <2>2, <2>3, FirstBeyond
  <2>5. steps[step] \in Nat
    BY <1>11, <2>4, ElementOfSeq
  <2>6. progress \in 0..(steps[step] - 1) /\ progress \in Nat /\ step \in Nat
    BY <1>9, <2>4, <2>5
  <2> HIDE DEF progress, w
  <2>7. w.line = l /\ w.index = leg /\ w.step = step /\ w.progress = progress /\ w.riders = {}
    BY <1>1
  <2>8. w \in Vehicle
    <3>1. {} \in SUBSET Nat
      OBVIOUS
    <3>2. QED
      BY <1>1, <1>8, <2>6, <3>1 DEF Vehicle
  <2>9. OnItinerary(w, legs)
    BY <1>8, <1>10, <1>13, <2>4, <2>6, <2>7 DEF OnItinerary, n
  <2>10. QED
    BY <2>7, <2>8, <2>9 DEF w
<1>14. QED
  BY <1>12, <1>13

\* Vehicles that nobody rides come and go.
OthersStay(V, c) ==
  /\ \A v \in DOMAIN V : \/ V[v].riders = {}
                         \/ v \in DOMAIN c.vehicles /\ V[v] = c.vehicles[v]
  /\ \A v \in DOMAIN c.vehicles : \/ c.vehicles[v].riders = {}
                                  \/ v \in DOMAIN V /\ V[v] = c.vehicles[v]

\* Vehicles without riders may come and go.
LEMMA FleetChange ==
  ASSUME NEW c, CityInv(c), NEW V \in Partial(Vehicle), Numbered(DOMAIN V),
         \A v \in DOMAIN V : VehicleSound(V[v], c.lines), OthersStay(V, c),
         NEW d, d = [c EXCEPT !.vehicles = V]
  PROVE  CityInv(d)
<1>1. /\ c \in City /\ Sound(c.lines, c.vehicles, c.trips) /\ Numbered(DOMAIN c.lines)
      /\ Accounted(c.trips, c.spawned, c.resolutions, c.tally)
  BY DEF CityInv
<1>2. Seated(c.vehicles, c.trips)
  BY <1>1 DEF Sound
<1>3. Cardinality({}) = 0 /\ Seats \in Nat
  BY FS_EmptySet, TripTickAssumption DEF TripTickAssumption
<1>4. ASSUME NEW v \in DOMAIN V
      PROVE  /\ Cardinality(V[v].riders) <= Seats
             /\ \A t \in V[v].riders : /\ t \in DOMAIN c.trips /\ c.trips[t].status = "Riding"
                                       /\ CurrentLeg(c.trips[t]).line = V[v].line
             /\ \A t \in V[v].riders : v \in DOMAIN c.vehicles /\ t \in c.vehicles[v].riders
  <2>1. CASE V[v].riders = {}
    BY <1>3, <2>1
  <2>2. CASE v \in DOMAIN c.vehicles /\ V[v] = c.vehicles[v]
    BY <1>2, <2>2 DEF Seated
  <2>3. QED
    BY <2>1, <2>2 DEF OthersStay
<1>5. \A v, w \in DOMAIN V : v # w => \A t \in V[v].riders : t \notin V[w].riders
  <2>1. \A v, w \in DOMAIN c.vehicles :
          v # w => \A t \in c.vehicles[v].riders : t \notin c.vehicles[w].riders
    BY <1>2 DEF Seated
  <2>2. QED
    BY <1>4, <2>1
<1>6. ASSUME NEW t \in DOMAIN c.trips, c.trips[t].status = "Riding"
      PROVE  \E v \in DOMAIN V : t \in V[v].riders
  <2>1. PICK v \in DOMAIN c.vehicles : t \in c.vehicles[v].riders
    BY <1>2, <1>6 DEF Seated
  <2>2. v \in DOMAIN V /\ V[v] = c.vehicles[v]
    BY <2>1 DEF OthersStay
  <2>3. QED
    BY <2>1, <2>2
<1>7. Seated(V, c.trips)
  BY <1>4, <1>5, <1>6 DEF Seated
<1>8. Sound(c.lines, V, c.trips)
  BY <1>1, <1>7 DEF Sound
<1>9. /\ d \in City /\ d.lines = c.lines /\ d.vehicles = V /\ d.trips = c.trips
      /\ d.spawned = c.spawned /\ d.resolutions = c.resolutions /\ d.tally = c.tally
  BY <1>1 DEF City
<1>10. QED
  BY <1>1, <1>8, <1>9 DEF CityInv

\* The itinerary of a line of the city.
LEMMA LegsOfLine ==
  ASSUME NEW c, CityInv(c), NEW l \in DOMAIN c.lines
  PROVE  /\ Itinerary(LegsOf(c, l)) /\ LegsOf(c, l) = Legs[c.lines[l].pattern] /\ l \in Nat
         /\ RoundTripSeconds(LegsOf(c, l)) \in Nat /\ RoundTripSeconds(LegsOf(c, l)) >= 1
<1>1. c.lines[l].pattern \in Patterns
  BY LineOf
<1>2. Itinerary(LegsOf(c, l)) /\ LegsOf(c, l) = Legs[c.lines[l].pattern]
  BY <1>1, LegsFacts DEF LegsOf
<1>3. l \in Nat
  BY DEF CityInv, Sound, LinesTyped
<1>4. QED
  BY <1>2, <1>3, LegSecondsFacts

\* New vehicles that stand on the itinerary of a line, empty.
LEMMA VehiclesAdded ==
  ASSUME NEW c, CityInv(c), NEW l \in DOMAIN c.lines, NEW k \in Nat, NEW ids,
         ids = NextVehicle(c)..k, NEW New,
         \A v \in ids : /\ New[v] \in Vehicle /\ New[v].line = l /\ New[v].riders = {}
                        /\ OnItinerary(New[v], LegsOf(c, l)),
         NEW V, V = [v \in DOMAIN c.vehicles \cup ids |->
                       IF v \in DOMAIN c.vehicles THEN c.vehicles[v] ELSE New[v]]
  PROVE  CityInv([c EXCEPT !.vehicles = V])
<1>1. c \in City /\ Sound(c.lines, c.vehicles, c.trips) /\ Numbered(DOMAIN c.vehicles)
  BY DEF CityInv
<1>2. /\ DOMAIN V = DOMAIN c.vehicles \cup ids
      /\ \A v \in DOMAIN c.vehicles : V[v] = c.vehicles[v]
      /\ \A v \in DOMAIN V : v \notin DOMAIN c.vehicles => v \in ids /\ V[v] = New[v]
  OBVIOUS
<1>3. Numbered(DOMAIN V)
  BY <1>1, <1>2, NextNumber DEF NextVehicle
<1>4. ASSUME NEW v \in ids
      PROVE  VehicleSound(New[v], c.lines)
  <2>1. LegsOf(c, l) = Legs[c.lines[l].pattern]
    BY LegsOfLine
  <2>2. QED
    BY <2>1 DEF VehicleSound
<1>5. \A v \in DOMAIN c.vehicles : VehicleSound(c.vehicles[v], c.lines)
  BY <1>1 DEF Sound
<1>6. \A v \in DOMAIN V : VehicleSound(V[v], c.lines)
  BY <1>2, <1>4, <1>5
<1>7. OthersStay(V, c)
  BY <1>2 DEF OthersStay
<1>8. V \in Partial(Vehicle)
  <2>1. DOMAIN V \in SUBSET Nat
    BY <1>3, NumberedFinite
  <2>2. V = [v \in DOMAIN V |-> V[v]]
    OBVIOUS
  <2>3. V \in [DOMAIN V -> Vehicle]
    BY <1>6, <2>2 DEF VehicleSound
  <2>4. QED
    BY <2>1, <2>3, IsPartial
<1>9. QED
  BY <1>3, <1>6, <1>7, <1>8, FleetChange

\* A line needs one vehicle at least.
LEMMA RequiredFleetType ==
  ASSUME NEW legs, RoundTripSeconds(legs) \in Nat
  PROVE  RequiredFleet(legs) \in Nat \ {0}
<1>1. TargetHeadway \in Nat \ {0}
  BY TripTickAssumption DEF TripTickAssumption
<1>2. PICK x : x = (RoundTripSeconds(legs) + TargetHeadway - 1) \div TargetHeadway
  OBVIOUS
<1>3. x \in Int
  BY <1>1, <1>2
<1>4. Max({1, x}) \in Int /\ Max({1, x}) >= 1
  BY <1>3, MaxOfTwo
<1>5. QED
  BY <1>2, <1>4 DEF RequiredFleet

\* A line with its first fleet spread over the round trip.
LEMMA DeployedSound ==
  ASSUME NEW c, CityInv(c), NEW l \in DOMAIN c.lines
  PROVE  CityInv(Deployed(c, l)) /\ Deployed(c, l).lines = c.lines
<1> DEFINE legs == LegsOf(c, l)
           required == RequiredFleet(legs)
           next == NextVehicle(c)
           ids == next..(next + required - 1)
           offset(v) == (RoundTripSeconds(legs) * (v - next)) \div required
           New == [v \in ids |-> VehicleAt(l, legs, offset(v))]
           V == [v \in DOMAIN c.vehicles \cup ids |->
                   IF v \in DOMAIN c.vehicles THEN c.vehicles[v] ELSE New[v]]
<1>1. Deployed(c, l) = [c EXCEPT !.vehicles = V]
  BY DEF Deployed, WithVehicles
<1>2. /\ Itinerary(legs) /\ l \in Nat
      /\ RoundTripSeconds(legs) \in Nat /\ RoundTripSeconds(legs) >= 1
  BY LegsOfLine
<1>3. required \in Nat \ {0}
  BY <1>2, RequiredFleetType
<1>4. next \in Nat
  BY NextNumber DEF NextVehicle, CityInv
<1>5. PICK trip \in Nat : trip = RoundTripSeconds(legs) /\ trip >= 1
  BY <1>2
<1>6. ASSUME NEW v \in ids
      PROVE  offset(v) \in Nat /\ offset(v) < RoundTripSeconds(legs)
  <2>1. PICK k : k = v - next
    OBVIOUS
  <2>2. k \in Nat /\ k < required
    BY <1>3, <1>4, <2>1
  <2>3. offset(v) = (trip * k) \div required
    BY <1>5, <2>1
  <2> HIDE DEF required, offset
  <2>4. (trip * k) \div required \in Nat /\ (trip * k) \div required < trip
    BY <1>3, <1>5, <2>2
  <2>5. QED
    BY <1>5, <2>3, <2>4
<1>7. \A v \in ids : New[v] = VehicleAt(l, legs, offset(v))
  OBVIOUS
<1>8. next + required - 1 \in Nat
  BY <1>3, <1>4
<1> HIDE DEF offset, legs, New
<1>9. \A v \in ids : /\ New[v] \in Vehicle /\ New[v].line = l /\ New[v].riders = {}
                     /\ OnItinerary(New[v], legs)
  BY <1>2, <1>6, <1>7, VehicleAtSound
<1> HIDE DEF ids, V
<1>10. CityInv([c EXCEPT !.vehicles = V])
  BY <1>8, <1>9, VehiclesAdded DEF ids, V, legs
<1>11. [c EXCEPT !.vehicles = V].lines = c.lines
  <2>1. c \in City
    BY DEF CityInv
  <2>2. QED
    BY <2>1 DEF City
<1>12. QED
  BY <1>1, <1>10, <1>11

\* Staffing a line.
LEMMA DeployInitialFleetKeeps ==
  ASSUME CityInv(city), NEW l \in DOMAIN city.lines, DeployInitialFleet(l)
  PROVE  CityInv(city')
BY DeployedSound DEF DeployInitialFleet

\* Somewhere in the round trip.
LEMMA LargestGapMidpointType ==
  ASSUME NEW cycle \in Nat \ {0}, NEW offsets \in SUBSET Nat, offsets # {}
  PROVE  LargestGapMidpoint(offsets, cycle) \in 0..(cycle - 1)
<1> DEFINE places == {o % cycle : o \in offsets}
           Later(o) == {p \in places \cup {Min(places) + cycle} : p > o}
           After(o) == Min(Later(o))
           gaps == {After(o) - o : o \in places}
           widest == Max(gaps)
           widestAt == {o \in places : After(o) - o = widest}
           start == Min(widestAt)
<1>1. LargestGapMidpoint(offsets, cycle) = (start + widest \div 2) % cycle
  BY DEF LargestGapMidpoint
<1>2. places \subseteq 0..(cycle - 1) /\ places # {} /\ places \in SUBSET Nat
  <2>1. \A o \in Nat : o % cycle \in 0..(cycle - 1)
    OBVIOUS
  <2>2. \A o \in offsets : o \in Nat
    OBVIOUS
  <2>3. \A p \in places : p \in 0..(cycle - 1)
    BY <2>1, <2>2
  <2>4. places # {}
    OBVIOUS
  <2> HIDE DEF places
  <2>5. \A p \in 0..(cycle - 1) : p \in Nat
    OBVIOUS
  <2>6. QED
    BY <2>3, <2>4, <2>5
<1> HIDE DEF places
<1>3. Min(places) \in places
  BY <1>2, MinFacts
<1>a. \A y \in places : y \in Nat /\ y < cycle
  <2>1. \A y \in 0..(cycle - 1) : y \in Nat /\ y < cycle
    OBVIOUS
  <2>2. QED
    BY <1>2, <2>1
<1>4. PICK low \in Nat : low = Min(places) /\ low + cycle \in Nat /\ low < cycle
  <2>1. Min(places) \in Nat /\ Min(places) < cycle
    BY <1>3, <1>a
  <2>2. Min(places) + cycle \in Nat
    BY <2>1
  <2>3. QED
    BY <2>1, <2>2
<1>5. ASSUME NEW o \in places
      PROVE  After(o) - o \in 0..(2 * cycle)
  <2> HIDE DEF After, Later
  <2>1. o \in Nat /\ o < cycle
    BY <1>5, <1>a
  <2> USE DEF After, Later
  <2>2. low + cycle \in Later(o) /\ Later(o) \in SUBSET Nat
    <3>1. PICK far \in Nat : far = low + cycle /\ far > o
      BY <1>4, <2>1
    <3>2. Later(o) = {p \in places \cup {far} : p > o}
      BY <1>4, <3>1
    <3> HIDE DEF Later
    <3>3. far \in Later(o)
      BY <3>1, <3>2
    <3>4. Later(o) \in SUBSET Nat
      BY <1>a, <3>2
    <3>5. QED
      BY <3>1, <3>3, <3>4
  <2>3. Later(o) # {}
    BY <2>2
  <2>4. \A p \in Later(o) : p > o
    OBVIOUS
  <2> HIDE DEF Later
  <2>5. Min(Later(o)) \in Later(o) /\ Min(Later(o)) <= low + cycle
    BY <2>2, <2>3, MinFacts
  <2>6. PICK p \in Nat : p = Min(Later(o)) /\ p > o /\ p <= low + cycle
    BY <2>2, <2>4, <2>5
  <2>7. QED
    BY <1>4, <2>1, <2>6
<1> HIDE DEF After
<1>6. gaps \in SUBSET (0..(2 * cycle)) /\ gaps # {}
  <2>1. \A g \in gaps : g \in 0..(2 * cycle)
    BY <1>5
  <2>2. PICK o \in places : TRUE
    BY <1>2
  <2>3. After(o) - o \in gaps
    BY <2>2
  <2> HIDE DEF gaps
  <2>a. gaps # {}
    BY <2>3
  <2>b. gaps \in SUBSET (0..(2 * cycle))
    BY <2>1
  <2>4. QED
    BY <2>a, <2>b
<1>7. widest \in gaps
  <2>1. 2 * cycle \in Nat
    OBVIOUS
  <2> HIDE DEF gaps
  <2>2. QED
    BY <1>6, <2>1, BoundedMax
<1>8. widestAt # {} /\ widestAt \in SUBSET Nat
  BY <1>2, <1>7
<1>9. widest \in Int
  BY <1>6, <1>7
<1> HIDE DEF gaps, widest, widestAt
<1>10. start \in Nat
  BY <1>8, MinFacts
<1> HIDE DEF start
<1>11. PICK n \in Int : n = start + widest \div 2
  BY <1>9, <1>10
<1>12. n % cycle \in 0..(cycle - 1)
  OBVIOUS
<1>13. QED
  BY <1>1, <1>11, <1>12

\* How far a vehicle is on its round trip.
LEMMA CycleOffsetType ==
  ASSUME NEW legs, Itinerary(legs), NEW v \in Vehicle, OnItinerary(v, legs)
  PROVE  CycleOffset(v, legs) \in Nat
<1>1. /\ Len(legs) \in Nat /\ v.index \in 1..Len(legs) /\ v.progress \in Nat
  BY ItineraryFacts DEF OnItinerary, Vehicle
<1>2. PICK i : i = v.index
  OBVIOUS
<1>3. PICK steps : steps = legs[i].steps
  OBVIOUS
<1>4. steps \in Seq(Nat) /\ Len(steps) \in Nat
  BY <1>1, <1>2, <1>3, ItineraryFacts
<1>5. PICK s : s = LegSeconds(legs)
  OBVIOUS
<1>6. s \in Seq(Nat) /\ Len(s) = Len(legs)
  BY <1>5, LegSecondsFacts
<1>7. SumsOf(s) \in [0..Len(s) -> Nat] /\ SumsOf(steps) \in [0..Len(steps) -> Nat]
  BY <1>4, <1>6, SumsFacts
<1>8. i - 1 \in 0..Len(s)
  BY <1>1, <1>2, <1>6
<1>9. v.step - 1 \in 0..Len(steps)
  <2>1. steps = <<>> => v.step = 1
    BY <1>2, <1>3 DEF OnItinerary
  <2>2. steps # <<>> => v.step \in 1..Len(steps)
    BY <1>2, <1>3 DEF OnItinerary
  <2>3. QED
    BY <1>4, <2>1, <2>2
<1>10. SumsOf(s)[i - 1] \in Nat /\ SumsOf(steps)[v.step - 1] \in Nat
  BY <1>7, <1>8, <1>9
<1>11. CycleOffset(v, legs) = SumsOf(s)[i - 1] + SumsOf(steps)[v.step - 1] + v.progress
  BY <1>2, <1>3, <1>5 DEF CycleOffset
<1>12. QED
  BY <1>1, <1>10, <1>11

\* One more vehicle, in the middle of the largest gap.
LEMMA AddServiceVehicleKeeps ==
  ASSUME CityInv(city), NEW l \in DOMAIN city.lines, AddServiceVehicle(l)
  PROVE  CityInv(city')
<1> DEFINE legs == LegsOf(city, l)
           offsets == {CycleOffset(city.vehicles[v], legs) : v \in Fleet(city, l)}
           offset == LargestGapMidpoint(offsets, RoundTripSeconds(legs))
           next == NextVehicle(city)
           New == [v \in {next} |-> VehicleAt(l, legs, offset)]
           V == [v \in DOMAIN city.vehicles \cup {next} |->
                   IF v \in DOMAIN city.vehicles THEN city.vehicles[v] ELSE New[v]]
<1>1. city' = [city EXCEPT !.vehicles = V] /\ Fleet(city, l) # {}
  BY DEF AddServiceVehicle, WithVehicles
<1>2. /\ Itinerary(legs) /\ l \in Nat /\ legs = Legs[city.lines[l].pattern]
      /\ RoundTripSeconds(legs) \in Nat /\ RoundTripSeconds(legs) >= 1
  BY LegsOfLine
<1>3. next \in Nat
  BY NextNumber DEF NextVehicle, CityInv
<1> HIDE DEF legs, next
<1>4. offsets \in SUBSET Nat /\ offsets # {}
  <2>1. ASSUME NEW v \in Fleet(city, l)
        PROVE  CycleOffset(city.vehicles[v], legs) \in Nat
    <3>1. v \in DOMAIN city.vehicles /\ city.vehicles[v].line = l
      BY DEF Fleet
    <3>2. VehicleSound(city.vehicles[v], city.lines)
      BY <3>1 DEF CityInv, Sound
    <3>3. QED
      BY <1>2, <3>1, <3>2, CycleOffsetType DEF VehicleSound
  <2>2. QED
    BY <1>1, <2>1
<1> HIDE DEF offsets
<1>5. offset \in 0..(RoundTripSeconds(legs) - 1)
  BY <1>2, <1>4, LargestGapMidpointType
<1> HIDE DEF offset
<1>6. offset \in Nat /\ offset < RoundTripSeconds(legs)
  BY <1>2, <1>5
<1>7. \A v \in {next} : New[v] = VehicleAt(l, legs, offset)
  OBVIOUS
<1> HIDE DEF New
<1>8. \A v \in {next} : /\ New[v] \in Vehicle /\ New[v].line = l /\ New[v].riders = {}
                        /\ OnItinerary(New[v], legs)
  BY <1>2, <1>6, <1>7, VehicleAtSound
<1>9. {next} = next..next
  BY <1>3
<1> HIDE DEF V
<1>10. CityInv([city EXCEPT !.vehicles = V])
  BY <1>3, <1>8, <1>9, VehiclesAdded DEF V, legs, next
<1>11. QED
  BY <1>1, <1>10

\* One vehicle less: an empty one.
LEMMA RetireServiceVehicleKeeps ==
  ASSUME CityInv(city), NEW l \in DOMAIN city.lines, RetireServiceVehicle(l)
  PROVE  CityInv(city')
<1> DEFINE empty == {v \in Fleet(city, l) : city.vehicles[v].riders = {}}
           last == Max(empty)
           V == Restrict(city.vehicles, DOMAIN city.vehicles \ {last})
<1>1. city' = [city EXCEPT !.vehicles = V] /\ empty # {}
  BY DEF RetireServiceVehicle
<1>2. city \in City /\ Sound(city.lines, city.vehicles, city.trips) /\ Numbered(DOMAIN city.vehicles)
  BY DEF CityInv
<1>3. PICK m \in Nat : DOMAIN city.vehicles \subseteq 1..m
  BY <1>2 DEF Numbered
<1>4. empty \in SUBSET (0..m) /\ \A v \in empty : city.vehicles[v].riders = {}
  BY <1>3 DEF Fleet
<1> HIDE DEF empty
<1>5. last \in empty
  BY <1>1, <1>4, BoundedMax
<1> HIDE DEF last
<1>6. /\ DOMAIN V = DOMAIN city.vehicles \ {last} /\ \A v \in DOMAIN V : V[v] = city.vehicles[v]
      /\ V = [v \in DOMAIN V |-> V[v]]
  BY DEF Restrict
<1> HIDE DEF V
<1>7. Numbered(DOMAIN V)
  BY <1>3, <1>6 DEF Numbered
<1>8. \A v \in DOMAIN V : VehicleSound(V[v], city.lines)
  BY <1>2, <1>6 DEF Sound
<1>9. OthersStay(V, city)
  BY <1>4, <1>5, <1>6 DEF OthersStay
<1>10. V \in Partial(Vehicle)
  <2>1. V \in [DOMAIN V -> Vehicle]
    BY <1>6, <1>8 DEF VehicleSound
  <2>2. DOMAIN V \in SUBSET Nat
    BY <1>7, NumberedFinite
  <2>3. QED
    BY <2>1, <2>2, IsPartial
<1>11. QED
  BY <1>1, <1>7, <1>8, <1>9, <1>10, FleetChange

-----------------------------------------------------------------------------
(* The invariant in every state.                                           *)

\* The city before its first line is staffed.
Unstaffed ==
  [clock |-> 0, spawned |-> 0, trips |-> <<>>, vehicles |-> <<>>,
   lines |-> [l \in 1..Len(InitialLines) |->
                [pattern |-> InitialLines[l], active |-> TRUE, broken |-> FALSE]],
   resolutions |-> <<>>,
   tally |-> [completed |-> 0, late |-> 0, unserved |-> 0, waited |-> 0, fares |-> 0]]

\* The empty function is a partial function to whatever set.
LEMMA EmptyPartial ==
  ASSUME NEW S
  PROVE  <<>> \in Partial(S) /\ DOMAIN <<>> = {}
<1>1. DOMAIN <<>> = {}
  OBVIOUS
<1>2. <<>> \in [{} -> S]
  OBVIOUS
<1>3. {} \in SUBSET Nat
  OBVIOUS
<1>4. QED
  BY <1>1, <1>2, <1>3, IsPartial

\* It is sound: nobody travels and nothing drives.
LEMMA UnstaffedSound ==
  /\ CityInv(Unstaffed) /\ Len(InitialLines) \in Nat
  /\ DOMAIN Unstaffed.lines = 1..Len(InitialLines)
<1> DEFINE n == Len(InitialLines)
           lines == [l \in 1..n |-> [pattern |-> InitialLines[l], active |-> TRUE, broken |-> FALSE]]
           none == [completed |-> 0, late |-> 0, unserved |-> 0, waited |-> 0, fares |-> 0]
<1>1. n \in Nat /\ \A l \in 1..n : InitialLines[l] \in Patterns
  BY TripTickAssumption DEF TripTickAssumption
<1>2. Len(Demands) \in Nat
  BY TripTickAssumption DEF TripTickAssumption
<1>3. lines \in [1..n -> Line] /\ 1..n \in SUBSET Nat /\ 1..n \subseteq Nat \ {0}
  BY <1>1 DEF Line
<1>4. DOMAIN lines = 1..n /\ \A l \in 1..n : lines[l] \in Line
  BY <1>3
<1>5. none \in Tally
  BY DEF Tally
<1>6. /\ Unstaffed = [clock |-> 0, spawned |-> 0, trips |-> <<>>, vehicles |-> <<>>, lines |-> lines,
                      resolutions |-> <<>>, tally |-> none]
      /\ none.completed = 0 /\ none.unserved = 0
  BY DEF Unstaffed
<1> HIDE DEF lines, none
<1>7. lines \in Partial(Line)
  BY <1>3, IsPartial
<1>8. LinesTyped(lines)
  BY <1>3, <1>4 DEF LinesTyped
<1>9. /\ <<>> \in Partial(Trip) /\ <<>> \in Partial(Vehicle) /\ DOMAIN <<>> = {}
      /\ <<>> \in Seq(Resolution) /\ Len(<<>>) = 0 /\ 1..0 = {}
  BY EmptyPartial
<1>10. Unstaffed \in City
  <2>1. 0 \in Nat /\ 0 \in 0..Len(Demands)
    BY <1>2
  <2>2. QED
    BY <1>5, <1>6, <1>7, <1>9, <2>1 DEF City
<1>11. Seated(<<>>, <<>>)
  BY <1>9 DEF Seated
<1>12. Sound(lines, <<>>, <<>>)
  BY <1>8, <1>9, <1>11 DEF Sound
<1>13. \A b : CountOf(<<>>, b) = 0
  <2>1. TAKE b
  <2>2. {i \in 1..Len(<<>>) : <<>>[i].completed = b} = {}
    BY <1>9
  <2>3. QED
    BY <2>2, FS_EmptySet DEF CountOf
<1>14. Accounted(<<>>, 0, <<>>, none)
  BY <1>6, <1>9, <1>13 DEF Accounted
<1>15. Numbered(1..n) /\ Numbered({})
  <2>1. 1..n \subseteq 1..n /\ {} \subseteq 1..n
    OBVIOUS
  <2>2. QED
    BY <1>1, <2>1 DEF Numbered
<1>16. /\ Unstaffed.lines = lines /\ Unstaffed.trips = <<>> /\ Unstaffed.vehicles = <<>>
       /\ Unstaffed.resolutions = <<>> /\ Unstaffed.tally = none /\ Unstaffed.spawned = 0
  BY <1>6
<1>17. QED
  BY <1>1, <1>4, <1>9, <1>10, <1>12, <1>14, <1>15, <1>16 DEF CityInv

\* A city starts with all its lines staffed, one after the other.
LEMMA InitSound ==
  ASSUME Init
  PROVE  CityInv(city)
<1> DEFINE N == Len(InitialLines)
           base == Unstaffed
           M == {c \in City : CityInv(c) /\ DOMAIN c.lines = 1..N}
           first[n \in 0..N] == IF n = 0 THEN base ELSE Deployed(first[n - 1], n)
<1>1. city = first[N]
  BY DEF Init, Unstaffed
<1>2. N \in Nat /\ base \in M
  BY UnstaffedSound DEF CityInv
<1>3. \A n \in 1..N : \A c \in M : Deployed(c, n) \in M
  <2>1. TAKE n \in 1..N
  <2>2. TAKE c \in M
  <2>3. CityInv(c) /\ DOMAIN c.lines = 1..N
    OBVIOUS
  <2>4. CityInv(Deployed(c, n)) /\ Deployed(c, n).lines = c.lines
    BY <2>3, DeployedSound
  <2>5. Deployed(c, n) \in City
    BY <2>4 DEF CityInv
  <2>6. QED
    BY <2>3, <2>4, <2>5
<1>4. first = CHOOSE f : f = [n \in 0..N |-> IF n = 0 THEN base ELSE Deployed(f[n - 1], n)]
  OBVIOUS
<1> HIDE DEF N, base, M, first
<1>6. PICK step : step = [x \in (1..N) \X M |-> Deployed(x[2], x[1])]
  OBVIOUS
<1>7. step \in StepsOf(N, M)
  BY <1>3, <1>6 DEF StepsOf
<1>8. PICK g \in [0..N -> M] : Iterates(g, N, base, step)
  BY <1>2, <1>7, Iteration
<1>9. g = [n \in 0..N |-> IF n = 0 THEN base ELSE Deployed(g[n - 1], n)]
  <2>1. ASSUME NEW n \in 0..N, n # 0
        PROVE  step[<<n, g[n - 1]>>] = Deployed(g[n - 1], n)
    <3>1. n \in 1..N /\ n - 1 \in 0..N
      BY <1>2, <2>1
    <3>2. QED
      BY <1>6, <3>1
  <2>2. QED
    BY <1>8, <2>1 DEF Iterates
<1>10. first = [n \in 0..N |-> IF n = 0 THEN base ELSE Deployed(first[n - 1], n)]
  BY <1>4, <1>9
<1>11. first[0] = base
  BY <1>2, <1>10
<1>12. \A n \in 1..N : first[n - 1] \in M => first[n] = step[<<n, first[n - 1]>>]
  BY <1>2, <1>6, <1>10
<1>13. first[N] \in M
  BY <1>2, <1>7, <1>11, <1>12, Recursion
<1>14. QED
  BY <1>1, <1>13 DEF M

\* A tick keeps the city sound.
LEMMA TickingKeeps ==
  ASSUME CityInv(city), Ticking
  PROVE  CityInv(city')
<1>1. PICK seconds \in Deltas : city' = TickTrips(city, seconds)
  BY DEF Ticking, Tick
<1>2. seconds \in Nat
  BY TripTickAssumption DEF TripTickAssumption
<1>3. QED
  BY <1>1, <1>2, TickTripsSound

\* So does whatever happens.
LEMMA NextKeeps ==
  ASSUME CityInv(city), [Next]_vars
  PROVE  CityInv(city')
<1>1. CASE Ticking
  BY <1>1, TickingKeeps
<1>2. ASSUME NEW l \in DOMAIN city.lines, Operate(l)
      PROVE  CityInv(city')
  <2>1. CASE SetRouteActive(l)
    BY <2>1, SetRouteActiveKeeps
  <2>2. CASE DeployInitialFleet(l)
    BY <2>2, DeployInitialFleetKeeps
  <2>3. CASE AddServiceVehicle(l)
    BY <2>3, AddServiceVehicleKeeps
  <2>4. CASE RetireServiceVehicle(l)
    BY <2>4, RetireServiceVehicleKeeps
  <2>5. QED
    BY <1>2, <2>1, <2>2, <2>3, <2>4 DEF Operate
<1>3. ASSUME NEW l \in DOMAIN city.lines, Restructure(l)
      PROVE  CityInv(city')
  <2>1. CASE BreakService(l)
    BY <2>1, BreakServiceKeeps
  <2>2. CASE RestoreService(l)
    BY <2>2, RestoreServiceKeeps
  <2>3. CASE UpdateRoute(l)
    BY <2>3, UpdateRouteKeeps
  <2>4. CASE DeleteRoute(l)
    BY <2>4, DeleteRouteKeeps
  <2>5. QED
    BY <1>3, <2>1, <2>2, <2>3, <2>4 DEF Restructure
<1>4. ASSUME NEW pattern \in Patterns, CreateRoute(pattern)
      PROVE  CityInv(city')
  BY <1>4, CreateRouteKeeps
<1>5. CASE UNCHANGED vars
  BY <1>5 DEF vars
<1>6. QED
  BY <1>1, <1>2, <1>3, <1>4, <1>5 DEF Next

\* The city stays sound: what the code assumes of vehicles, trips, plans, seats and
\* resolutions at the start of a handler holds there, whatever the handlers before it did.
THEOREM Invariance == Spec => []CityInv(city)
<1>1. Init => CityInv(city)
  BY InitSound
<1>2. CityInv(city) /\ [Next]_vars => CityInv(city)'
  BY NextKeeps
<1>3. QED
  BY <1>1, <1>2, PTL DEF Spec

-----------------------------------------------------------------------------
(* What it says of saves, plans and resolutions.                           *)

\* Sound vehicles, trips and seats are what the loader checks.
LEMMA InvLoads ==
  ASSUME CityInv(city)
  PROVE  SavesLoad
<1>1. Sound(city.lines, city.vehicles, city.trips)
  BY DEF CityInv
<1>2. ASSUME NEW v \in DOMAIN city.vehicles
      PROVE  LET w == city.vehicles[v] IN w.line \in DOMAIN city.lines /\ CursorLoads(w) /\ RidersLoad(w)
  <2>1. PICK w : w = city.vehicles[v]
    OBVIOUS
  <2>2. w \in Vehicle /\ w.line \in DOMAIN city.lines /\ OnItinerary(w, LegsOf(city, w.line))
    BY <1>1, <1>2, <2>1 DEF Sound, VehicleSound, LegsOf
  <2>3. PICK legs : legs = LegsOf(city, w.line)
    OBVIOUS
  <2>4. Itinerary(legs)
    <3>1. city.lines[w.line].pattern \in Patterns
      BY <1>1, <2>2 DEF Sound, LinesTyped, Line
    <3>2. QED
      BY <2>3, <3>1, LegsFacts DEF LegsOf
  <2>5. Len(legs) \in Nat /\ DOMAIN legs = 1..Len(legs) /\ w.index \in 1..Len(legs)
    BY <2>2, <2>3, <2>4, ItineraryFacts DEF OnItinerary
  <2>6. PICK steps : steps = legs[w.index].steps
    OBVIOUS
  <2>7. steps \in Seq(Nat) /\ DOMAIN steps = 1..Len(steps)
    BY <2>4, <2>5, <2>6, ItineraryFacts
  <2>8. IF steps = <<>> THEN w.step = 1 /\ w.progress = 0
        ELSE w.step \in DOMAIN steps /\ w.progress \in 0..(steps[w.step] - 1)
    BY <2>2, <2>3, <2>6, <2>7 DEF OnItinerary
  <2>9. CursorLoads(w)
    BY <2>3, <2>5, <2>6, <2>8 DEF CursorLoads
  <2>10. RidersLoad(w)
    <3>1. Cardinality(w.riders) <= Seats
      BY <1>1, <1>2, <2>1 DEF Sound, Seated
    <3>2. ASSUME NEW t \in w.riders
          PROVE  t \in DOMAIN city.trips /\ HasLeg(city.trips[t]) /\ CurrentLeg(city.trips[t]).line = w.line
      <4>1. /\ t \in DOMAIN city.trips /\ city.trips[t].status = "Riding"
            /\ CurrentLeg(city.trips[t]).line = w.line
        BY <1>1, <1>2, <2>1, <3>2 DEF Sound, Seated
      <4>2. TripSound(city.trips[t], city.lines)
        BY <1>1, <4>1 DEF Sound
      <4>3. HasLeg(city.trips[t])
        BY <4>1, <4>2 DEF TripSound
      <4>4. QED
        BY <4>1, <4>3
    <3>3. QED
      BY <3>1, <3>2 DEF RidersLoad
  <2>11. QED
    BY <2>1, <2>2, <2>9, <2>10
<1>3. ASSUME NEW v \in DOMAIN city.vehicles, NEW w \in DOMAIN city.vehicles, v # w
      PROVE  city.vehicles[v].riders \cap city.vehicles[w].riders = {}
  BY <1>1, <1>3 DEF Sound, Seated
<1>4. {t \in DOMAIN city.trips : city.trips[t].status = "Riding"} = Riders(city)
  <2>1. \A t : t \in Riders(city) <=> \E v \in DOMAIN city.vehicles : t \in city.vehicles[v].riders
    BY DEF Riders
  <2>2. ASSUME NEW t \in Riders(city)
        PROVE  t \in DOMAIN city.trips /\ city.trips[t].status = "Riding"
    BY <1>1, <2>1, <2>2 DEF Sound, Seated
  <2>3. ASSUME NEW t \in DOMAIN city.trips, city.trips[t].status = "Riding"
        PROVE  t \in Riders(city)
    BY <1>1, <2>1, <2>3 DEF Sound, Seated
  <2>4. QED
    BY <2>2, <2>3
<1>5. ASSUME NEW t \in DOMAIN city.trips
      PROVE  TripLoads(city.trips[t])
  <2>1. PICK trip : trip = city.trips[t]
    OBVIOUS
  <2>2. TripSound(trip, city.lines)
    BY <1>1, <1>5, <2>1 DEF Sound
  <2>3. trip.drive \in Nat
    BY <2>2 DEF TripSound, Trip
  <2>4. CASE trip.status \in {"Idle", "Driving"} /\ trip.plan = <<>> /\ trip.leg = 1
    BY <2>1, <2>3, <2>4 DEF TripLoads
  <2>5. CASE /\ PlanLinks(trip.plan, trip.to) /\ HasLeg(trip)
             /\ trip.status \in (IF IsWalk(CurrentLeg(trip)) THEN {"Walking"} ELSE {"Waiting", "Riding"})
    BY <2>1, <2>5 DEF TripLoads, PlanLinks
  <2>6. QED
    BY <2>2, <2>4, <2>5 DEF TripSound
<1>6. QED
  BY <1>2, <1>3, <1>4, <1>5 DEF SavesLoad

\* A save made between two ticks loads again, for every network, fleet and demand.
THEOREM EverySaveLoads == Spec => []SavesLoad
<1>1. CityInv(city) => SavesLoad
  BY InvLoads
<1>2. QED
  BY <1>1, Invariance, PTL

\* The rides a sound trip counts on exist.
LEMMA InvPlans ==
  ASSUME CityInv(city)
  PROVE  PlansMatchNetwork
<1>1. Sound(city.lines, city.vehicles, city.trips)
  BY DEF CityInv
<1>2. ASSUME NEW t \in DOMAIN city.trips, NEW i \in city.trips[t].leg..Len(city.trips[t].plan),
             ~IsWalk(city.trips[t].plan[i])
      PROVE  RideExists(city.trips[t].plan[i], city.lines)
  <2>1. PICK trip : trip = city.trips[t]
    OBVIOUS
  <2>2. TripSound(trip, city.lines)
    BY <1>1, <1>2, <2>1 DEF Sound
  <2>3. CASE trip.plan = <<>> /\ trip.leg = 1
    BY <1>2, <2>1, <2>3
  <2>4. CASE PlanExists(trip.plan, trip.leg, city.lines)
    BY <1>2, <2>1, <2>4 DEF PlanExists
  <2>5. QED
    BY <2>2, <2>3, <2>4 DEF TripSound
<1>3. QED
  BY <1>2 DEF PlansMatchNetwork, RideExists, LegsOf

\* No plan outlives the rides it counts on, whatever lines are edited, deleted and made anew.
THEOREM PlansStayValid == Spec => []PlansMatchNetwork
<1>1. CityInv(city) => PlansMatchNetwork
  BY InvPlans
<1>2. QED
  BY <1>1, Invariance, PTL

\* One resolution per trip makes the resolutions as many as the trips that are over.
LEMMA InvAccounts ==
  ASSUME CityInv(city)
  PROVE  TripsAccounted
<1> DEFINE rs == city.resolutions
           n == Len(rs)
           over == {r.trip : r \in Range(rs)}
           done == {r \in Range(rs) : r.completed}
           yes == {i \in 1..n : rs[i].completed = TRUE}
           no == {i \in 1..n : rs[i].completed = FALSE}
<1>1. rs \in Seq(Resolution) /\ n \in Nat /\ DOMAIN rs = 1..n
  BY CityFields DEF CityInv
<1>2. /\ \A i \in 1..n : rs[i] \in Resolution
      /\ \A i \in 1..n : rs[i].completed \in BOOLEAN /\ rs[i] = [trip |-> rs[i].trip, completed |-> rs[i].completed]
  <2>1. \A i \in 1..n : rs[i] \in Resolution
    BY <1>1, ElementOfSeq
  <2>2. \A r \in Resolution : r.completed \in BOOLEAN /\ r = [trip |-> r.trip, completed |-> r.completed]
    BY DEF Resolution
  <2> HIDE DEF rs, n
  <2>3. QED
    BY <2>1, <2>2
<1>3. Accounted(city.trips, city.spawned, rs, city.tally)
  BY DEF CityInv
<1>4. \A i, j \in 1..n : rs[i].trip = rs[j].trip => i = j
  BY <1>3 DEF Accounted
<1>5. \A r : r \in Range(rs) <=> \E i \in 1..n : r = rs[i]
  BY <1>1 DEF Range
<1>6. \A t : t \in over <=> \E i \in 1..n : rs[i].trip = t
  BY <1>5
<1>7. \A r : r \in done <=> \E i \in yes : rs[i] = r
  BY <1>2, <1>5
<1>8. city.tally.completed = Cardinality(yes) /\ city.tally.unserved = Cardinality(no)
  BY <1>3 DEF Accounted, CountOf
<1>9. IsFiniteSet(1..n) /\ Cardinality(1..n) = n
  <2>1. 1 \in Int /\ n \in Int
    BY <1>1
  <2>2. QED
    BY <1>1, <2>1, FS_Interval
<1>10. yes \in SUBSET (1..n) /\ no \in SUBSET (1..n)
  OBVIOUS
<1>11. yes \cup no = 1..n /\ yes \cap no = {}
  <2>1. \A i \in 1..n : rs[i].completed = TRUE \/ rs[i].completed = FALSE
    BY <1>2
  <2>2. \A i : i \in yes \cup no <=> i \in 1..n
    BY <2>1
  <2>3. \A i : i \notin yes \cap no
    OBVIOUS
  <2> HIDE DEF yes, no, n
  <2>4. QED
    BY <2>2, <2>3
<1>12. over \cap DOMAIN city.trips = {} /\ over \cup DOMAIN city.trips = 1..city.spawned
  <2>1. /\ DOMAIN city.trips \subseteq 1..city.spawned
        /\ \A i \in 1..n : rs[i].trip \in 1..city.spawned /\ rs[i].trip \notin DOMAIN city.trips
        /\ \A t \in 1..city.spawned : t \in DOMAIN city.trips \/ \E i \in 1..n : rs[i].trip = t
    BY <1>3 DEF Accounted
  <2> HIDE DEF rs, n, over
  <2>2. \A t \in over : t \in 1..city.spawned /\ t \notin DOMAIN city.trips
    BY <1>6, <2>1
  <2>3. ASSUME NEW t \in 1..city.spawned, t \notin DOMAIN city.trips
        PROVE  t \in over
    <3>1. \E i \in 1..n : rs[i].trip = t
      BY <2>1, <2>3
    <3>2. QED
      BY <1>6, <3>1
  <2>4. QED
    BY <2>1, <2>2, <2>3
<1>13. TripsAccounted <=> /\ n = Cardinality(over)
                          /\ over \cap DOMAIN city.trips = {} /\ over \cup DOMAIN city.trips = 1..city.spawned
                          /\ city.tally.completed = Cardinality(done)
                          /\ city.tally.completed + city.tally.unserved = Cardinality(over)
  BY DEF TripsAccounted
<1> HIDE DEF rs, n, over, done, yes, no
<1>14. Cardinality(over) = n
  <2>1. PICK f : f = [i \in 1..n |-> rs[i].trip]
    OBVIOUS
  <2>2. f \in [1..n -> over]
    BY <1>6, <2>1
  <2>3. \A i, j \in 1..n : f[i] = f[j] => i = j
    BY <1>4, <2>1
  <2>4. \A t \in over : \E i \in 1..n : f[i] = t
    BY <1>6, <2>1
  <2>5. QED
    BY <1>9, <2>2, <2>3, <2>4, OneToOne
<1>15. Cardinality(done) = Cardinality(yes)
  <2>1. PICK f : f = [i \in yes |-> rs[i]]
    OBVIOUS
  <2>2. f \in [yes -> done]
    BY <1>7, <2>1
  <2>3. \A i, j \in yes : f[i] = f[j] => i = j
    BY <1>4, <1>10, <2>1
  <2>4. \A r \in done : \E i \in yes : f[i] = r
    BY <1>7, <2>1
  <2>5. IsFiniteSet(yes)
    BY <1>9, <1>10, FS_Subset
  <2>6. QED
    BY <2>2, <2>3, <2>4, <2>5, OneToOne
<1>16. Cardinality(yes) + Cardinality(no) = n
  <2>1. IsFiniteSet(yes) /\ IsFiniteSet(no)
    BY <1>9, <1>10, FS_Subset
  <2>2. /\ Cardinality(yes) \in Nat /\ Cardinality(no) \in Nat
        /\ Cardinality({}) = 0
    BY <2>1, FS_CardinalityType, FS_EmptySet
  <2>3. PICK A, B : A = yes /\ B = no
    OBVIOUS
  <2>4. Cardinality(A \cup B) = Cardinality(A) + Cardinality(B) - Cardinality(A \cap B)
    BY <2>1, <2>3, FS_Union
  <2>5. A \cup B = 1..n /\ A \cap B = {}
    BY <1>11, <2>3
  <2>6. n = Cardinality(A) + Cardinality(B) - 0
    BY <1>9, <2>2, <2>4, <2>5
  <2>7. Cardinality(A) \in Nat /\ Cardinality(B) \in Nat
    BY <2>2, <2>3
  <2>8. QED
    BY <2>3, <2>6, <2>7
<1>17. QED
  BY <1>8, <1>12, <1>13, <1>14, <1>15, <1>16

\* No trip is lost, resolved twice or resolved while it travels, and the counters agree
\* with what the population is told.
THEOREM EveryTripAccounted == Spec => []TripsAccounted
<1>1. CityInv(city) => TripsAccounted
  BY InvAccounts
<1>2. QED
  BY <1>1, Invariance, PTL

-----------------------------------------------------------------------------
(* Two trips that wait for one departure, t with less patience left than u.  *)
(* `x` and `y` are what they were when the tick began.                      *)

\* A trip that still waits as it did, and one that has boarded since.
StillAs(trip, was) == trip.status = "Waiting" /\ trip.plan = was.plan /\ trip.leg = was.leg
GoneOn(trip, was) ==
  /\ trip.plan = was.plan
  /\ trip.leg > was.leg \/ (trip.leg = was.leg /\ trip.status = "Riding")

\* As long as t waits, u waits behind it, if it has not given up.
InTurn(T, t, u, x, y) ==
  \/ t \notin DOMAIN T
  \/ GoneOn(T[t], x)
  \/ /\ StillAs(T[t], x)
     /\ u \in DOMAIN T => StillAs(T[u], y) /\ T[t].patience < T[u].patience

\* While vehicles move, two that wait are as the substep found them.
Queued(T, F, t, u, x, y) ==
  /\ InTurn(T, t, u, x, y)
  /\ t \in DOMAIN T /\ ~GoneOn(T[t], x) => T[t] = F[t] /\ (u \in DOMAIN T => T[u] = F[u])

\* They wait for the same departure of the same line.
SameRide(x, y) ==
  /\ x.leg \in Nat /\ y.leg \in Nat /\ HasLeg(x) /\ HasLeg(y) /\ ~IsWalk(CurrentLeg(x))
  /\ CurrentLeg(x).line = CurrentLeg(y).line /\ CurrentLeg(x).board = CurrentLeg(y).board

\* Whoever is ahead of one of the first n of a queue is one of them.
LEMMA FirstOfInOrder ==
  ASSUME NEW n \in Int, NEW c, NEW S \in SUBSET Nat, IsFiniteSet(S), \A r \in S : c.trips[r].patience \in Int,
         NEW u \in FirstOf(n, S, c), NEW t \in S, Ahead(c, t, u)
  PROVE  t \in FirstOf(n, S, c)
<1> DEFINE B(r) == {q \in S : Ahead(c, q, r)}
<1>1. u \in S /\ Cardinality(B(u)) < n
  BY DEF FirstOf
<1>2. B(t) \in SUBSET B(u)
  <2>1. ASSUME NEW q \in S, Ahead(c, q, t)
        PROVE  Ahead(c, q, u)
    <3>1. c.trips[q].patience \in Int /\ c.trips[t].patience \in Int /\ c.trips[u].patience \in Int
      BY <1>1
    <3>2. q \in Nat /\ t \in Nat /\ u \in Nat
      BY <1>1
    <3>3. QED
      BY <2>1, <3>1, <3>2 DEF Ahead
  <2>2. QED
    BY <2>1
<1>3. IsFiniteSet(B(u)) /\ IsFiniteSet(B(t))
  BY FS_Subset
<1>4. Cardinality(B(t)) <= Cardinality(B(u))
  BY <1>2, <1>3, FS_Subset
<1>5. Cardinality(B(t)) \in Nat /\ Cardinality(B(u)) \in Nat
  BY <1>3, FS_CardinalityType
<1>6. Cardinality(B(t)) < n
  <2> HIDE DEF B
  <2>1. QED
    BY <1>1, <1>4, <1>5
<1>7. QED
  BY <1>6 DEF FirstOf

\* A vehicle at a stop does not take u unless it takes t, or t has gone on before.
LEMMA BoardInTurn ==
  ASSUME NEW c, NEW id \in DOMAIN c.vehicles, NEW d, DriveSound(c, id, d),
         NEW found, Found(found, c.trips), Seated(found.vehicles, found.trips),
         NEW t, NEW u, NEW x, NEW y, SameRide(x, y), Queued(d.trips, found.trips, t, u, x, y),
         NEW stop, stop = Legs[c.lines[d.vehicle.line].pattern][d.vehicle.index].from
  PROVE  Queued(Board(d, stop, found).trips, found.trips, t, u, x, y)
<1> DEFINE v == d.vehicle
           CanBoard(r) ==
             LET trip == d.trips[r]
             IN  /\ trip.status = "Waiting" /\ r \notin Riders(found)
                 /\ CurrentLeg(trip).line = v.line /\ CurrentLeg(trip).board = v.index
                 /\ trip.at = Where[stop]
           able == {r \in OnPlatform(found, stop) : CanBoard(r)}
           n == Seats - Cardinality(v.riders)
           taken == FirstOf(n, able, found)
           T == d.trips
           U == [r \in DOMAIN T |-> IF r \in taken THEN [T[r] EXCEPT !.status = "Riding"] ELSE T[r]]
           W == Waiters(found, stop)
<1>1. Board(d, stop, found).trips = U
  BY DEF Board
<1>2. /\ v.riders \in SUBSET DOMAIN c.trips /\ DOMAIN T = DOMAIN c.trips /\ T \in [DOMAIN c.trips -> Trip]
      /\ \A r \in DOMAIN c.trips : TripSound(T[r], c.lines)
  BY DriveFacts
<1>3. /\ DOMAIN c.trips \in SUBSET Nat /\ IsFiniteSet(DOMAIN c.trips) /\ DOMAIN found.trips = DOMAIN c.trips
      /\ \A r \in DOMAIN c.trips : found.trips[r].patience \in Int
  BY DEF Found
<1>4. W \in SUBSET DOMAIN c.trips /\ IsFiniteSet(W) /\ OnPlatform(found, stop) = FirstOf(PlatformCapacity, W, found)
  BY <1>3, FS_Subset DEF Waiters, OnPlatform
<1>5. OnPlatform(found, stop) \in SUBSET W
  BY <1>4 DEF FirstOf
<1>6. able \in SUBSET DOMAIN c.trips /\ IsFiniteSet(able)
  BY <1>3, <1>4, <1>5, FS_Subset
<1>7. taken \in SUBSET able
  BY DEF FirstOf
<1>8. n \in Int /\ PlatformCapacity \in Int
  <2>1. Seats \in Int /\ PlatformCapacity \in Int
    BY TripTickAssumption DEF TripTickAssumption
  <2>2. Cardinality(v.riders) \in Nat
    BY <1>2, <1>3, FS_Subset, FS_CardinalityType
  <2>3. QED
    BY <2>1, <2>2
<1>9. \A r \in taken : T[r].status = "Waiting"
  BY <1>7
<1>10. ASSUME NEW r \in DOMAIN T
       PROVE  /\ U[r] = IF r \in taken THEN [T[r] EXCEPT !.status = "Riding"] ELSE T[r]
              /\ U[r].plan = T[r].plan /\ U[r].leg = T[r].leg
              /\ r \in taken => U[r].status = "Riding"
  <2> HIDE DEF taken
  <2>1. T[r] \in Trip
    BY <1>2
  <2>2. QED
    BY <2>1 DEF Trip
<1>11. DOMAIN U = DOMAIN T
  OBVIOUS
<1>12. ASSUME t \in DOMAIN T, ~GoneOn(T[t], x), u \in taken
       PROVE  t \in taken
  <2>1. u \in able /\ u \in OnPlatform(found, stop) /\ u \in W /\ u \in DOMAIN T
    BY <1>2, <1>5, <1>6, <1>7, <1>12
  <2>2. /\ StillAs(T[t], x) /\ StillAs(T[u], y) /\ T[t] = found.trips[t] /\ T[u] = found.trips[u]
        /\ T[t].patience < T[u].patience
    BY <1>12, <2>1 DEF Queued, InTurn
  <2>3. CurrentLeg(T[t]) = CurrentLeg(x) /\ CurrentLeg(T[u]) = CurrentLeg(y) /\ HasLeg(T[t])
    BY <2>2 DEF StillAs, CurrentLeg, HasLeg, SameRide
  <2>4. /\ CurrentLeg(T[t]).line = v.line /\ CurrentLeg(T[t]).board = v.index
        /\ CurrentLeg(T[t]).line = CurrentLeg(T[u]).line /\ ~IsWalk(CurrentLeg(T[t]))
    BY <2>1, <2>3 DEF SameRide
  <2>5. T[u].at = Where[stop]
    BY <2>1
  <2>6. T[t].at = Where[stop]
    <3>1. TripSound(T[t], c.lines) /\ T[t].status = "Waiting" /\ T[t].leg \in Nat
      BY <1>2, <1>12, <2>2 DEF StillAs, SameRide
    <3>2. T[t].at = CurrentLeg(T[t]).from /\ PlanExists(T[t].plan, T[t].leg, c.lines)
      BY <3>1 DEF TripSound
    <3>3. T[t].leg \in T[t].leg..Len(T[t].plan)
      BY <2>3, <3>1 DEF HasLeg
    <3>4. RideExists(CurrentLeg(T[t]), c.lines)
      BY <2>4, <3>2, <3>3 DEF PlanExists, CurrentLeg
    <3>5. QED
      BY <2>4, <3>2, <3>4 DEF RideExists
  <2>7. t \notin Riders(found)
    <3>1. \A w \in DOMAIN found.vehicles : \A r \in found.vehicles[w].riders : found.trips[r].status = "Riding"
      BY DEF Seated
    <3>2. found.trips[t].status = "Waiting"
      BY <2>2 DEF StillAs
    <3> HIDE DEF T
    <3>3. QED
      BY <3>1, <3>2 DEF Riders
  <2>8. t \in W
    BY <1>2, <1>3, <1>12, <2>1, <2>2, <2>3, <2>4, <2>5, <2>6 DEF Waiters, StillAs
  <2>9. Ahead(found, t, u)
    BY <2>2 DEF Ahead
  <2>10. t \in OnPlatform(found, stop)
    <3> HIDE DEF W
    <3>1. W \in SUBSET Nat /\ \A r \in W : found.trips[r].patience \in Int
      BY <1>3, <1>4
    <3>2. u \in FirstOf(PlatformCapacity, W, found)
      BY <1>4, <2>1
    <3>3. t \in FirstOf(PlatformCapacity, W, found)
      BY <1>4, <1>8, <2>8, <2>9, <3>1, <3>2, FirstOfInOrder
    <3>4. QED
      BY <1>4, <3>3
  <2>11. t \in able
    BY <2>2, <2>4, <2>6, <2>7, <2>10 DEF StillAs
  <2>12. QED
    <3> HIDE DEF able, n
    <3>1. able \in SUBSET Nat /\ \A r \in able : found.trips[r].patience \in Int
      BY <1>3, <1>6
    <3>2. QED
      BY <1>6, <1>8, <1>12, <2>9, <2>11, <3>1, FirstOfInOrder
<1> HIDE DEF able, taken, n, U, T
<1>13. CASE t \notin DOMAIN T
  BY <1>1, <1>11, <1>13 DEF Queued, InTurn
<1>14. CASE t \in DOMAIN T /\ GoneOn(T[t], x)
  <2>1. GoneOn(U[t], x)
    BY <1>9, <1>10, <1>14 DEF GoneOn
  <2>2. QED
    BY <1>1, <2>1 DEF Queued, InTurn
<1>15. CASE t \in DOMAIN T /\ ~GoneOn(T[t], x) /\ t \in taken
  <2>1. GoneOn(U[t], x)
    BY <1>10, <1>15 DEF GoneOn, Queued, InTurn, StillAs, T
  <2>2. QED
    BY <1>1, <2>1 DEF Queued, InTurn
<1>16. CASE t \in DOMAIN T /\ ~GoneOn(T[t], x) /\ t \notin taken
  <2>1. U[t] = T[t] /\ (u \in DOMAIN T => U[u] = T[u])
    BY <1>10, <1>12, <1>16
  <2>2. QED
    BY <1>1, <1>11, <1>16, <2>1 DEF Queued, InTurn, T
<1>17. QED
  BY <1>13, <1>14, <1>15, <1>16

\* Whoever gets off had boarded.
LEMMA DisembarkInTurn ==
  ASSUME NEW c, NEW id \in DOMAIN c.vehicles, NEW d, DriveSound(c, id, d),
         NEW leg, NEW done, NEW F,
         NEW t, NEW u, NEW x, NEW y, SameRide(x, y), Queued(d.trips, F, t, u, x, y)
  PROVE  Queued(Disembark(d, leg, done).trips, F, t, u, x, y)
<1> DEFINE v == d.vehicle
           T == d.trips
           Leaves(r) ==
             LET trip == T[r]
             IN  r \in v.riders /\ HasLeg(trip) /\ Alights(CurrentLeg(trip), v, leg, done)
           left == {r \in DOMAIN T : Leaves(r)}
           U == [r \in DOMAIN T |->
                   IF r \in left
                   THEN [T[r] EXCEPT !.at = Where[leg.to], !.status = "Walking", !.leg = @ + 1, !.wait = 0]
                   ELSE T[r]]
<1>1. Disembark(d, leg, done).trips = U
  BY DEF Disembark
<1>2. /\ DOMAIN T = DOMAIN c.trips /\ T \in [DOMAIN c.trips -> Trip]
      /\ \A r \in v.riders : T[r].status = "Riding"
  BY DriveFacts
<1>3. \A r \in left : T[r].status = "Riding"
  BY <1>2
<1> HIDE DEF left
<1>4. ASSUME NEW r \in DOMAIN T
      PROVE  /\ U[r].plan = T[r].plan /\ (r \in left => U[r].leg = T[r].leg + 1) /\ T[r].leg \in Nat
             /\ r \notin left => U[r] = T[r]
  <2>1. T[r] \in Trip
    BY <1>2
  <2>2. QED
    BY <2>1 DEF Trip
<1>5. DOMAIN U = DOMAIN T
  OBVIOUS
<1> HIDE DEF U, T
<1>6. CASE t \notin DOMAIN T
  BY <1>1, <1>5, <1>6 DEF Queued, InTurn
<1>7. CASE t \in DOMAIN T /\ GoneOn(T[t], x)
  <2>1. GoneOn(U[t], x)
    BY <1>4, <1>7 DEF GoneOn, SameRide
  <2>2. QED
    BY <1>1, <2>1 DEF Queued, InTurn
<1>8. CASE t \in DOMAIN T /\ ~GoneOn(T[t], x)
  <2>1. T[t].status = "Waiting" /\ (u \in DOMAIN T => T[u].status = "Waiting")
    BY <1>8 DEF Queued, InTurn, StillAs, T
  <2>2. U[t] = T[t] /\ (u \in DOMAIN T => U[u] = T[u])
    BY <1>3, <1>4, <1>8, <2>1
  <2>3. QED
    BY <1>1, <1>5, <1>8, <2>2 DEF Queued, InTurn, T
<1>9. QED
  BY <1>6, <1>7, <1>8

\* At the end of a leg, too, those two get on in turn.
LEMMA CompleteLegInTurn ==
  ASSUME NEW c, NEW id \in DOMAIN c.vehicles, NEW d, DriveSound(c, id, d),
         NEW found, Found(found, c.trips), Seated(found.vehicles, found.trips),
         NEW t, NEW u, NEW x, NEW y, SameRide(x, y), Queued(d.trips, found.trips, t, u, x, y),
         NEW legs, Itinerary(legs), legs = Legs[c.lines[c.vehicles[id].line].pattern],
         NEW done \in 1..Len(legs)
  PROVE  Queued(CompleteLeg(d, legs, done, found).trips, found.trips, t, u, x, y)
<1>1. PICK after : after = Disembark(d, legs[done], done)
  OBVIOUS
<1>2. legs[done].to \in DOMAIN Where /\ IsFiniteSet(DOMAIN c.trips)
  BY ItineraryFacts DEF Found
<1>3. DriveSound(c, id, after)
  BY <1>1, <1>2, DisembarkSound
<1>4. Queued(after.trips, found.trips, t, u, x, y)
  BY <1>1, DisembarkInTurn
<1>5. PICK stop : stop = legs[after.vehicle.index].from
  OBVIOUS
<1>6. stop = Legs[c.lines[after.vehicle.line].pattern][after.vehicle.index].from
  BY <1>3, <1>5 DEF DriveSound
<1>7. Queued(Board(after, stop, found).trips, found.trips, t, u, x, y)
  BY <1>3, <1>4, <1>6, BoardInTurn
<1>8. QED
  BY <1>1, <1>4, <1>5, <1>7 DEF CompleteLeg

\* A run in which they are in turn.
QueuedRuns(c, id, F, t, u, x, y) == {r \in Runs(c, id) : Queued(r.drive.trips, F, t, u, x, y)}

\* So is one round of the loop.
LEMMA DriveOnInTurn ==
  ASSUME NEW c, NEW id \in DOMAIN c.vehicles,
         NEW found, Found(found, c.trips), Seated(found.vehicles, found.trips),
         NEW t, NEW u, NEW x, NEW y, SameRide(x, y),
         NEW legs, Itinerary(legs), legs = Legs[c.lines[c.vehicles[id].line].pattern],
         NEW run \in QueuedRuns(c, id, found.trips, t, u, x, y)
  PROVE  DriveOn(run, legs, found) \in QueuedRuns(c, id, found.trips, t, u, x, y)
<1> DEFINE d == run.drive
           v == d.vehicle
           steps == legs[v.index].steps
           w == AdvanceCursor(v, legs)
           moved == [d EXCEPT !.vehicle = w]
           end == CompleteLeg(moved, legs, v.index, found)
           arrived == IF moved.vehicle.index = v.index THEN moved ELSE end
           limit == Max({1, Sum([i \in 1..Len(legs) |-> Len(legs[i].steps)])})
           rest == steps[v.step] - v.progress
           onward == [d EXCEPT !.vehicle.progress = @ + run.left]
           next == DriveOn(run, legs, found)
<1>1. run \in Runs(c, id) /\ Queued(d.trips, found.trips, t, u, x, y)
  BY DEF QueuedRuns
<1>2. DriveSound(c, id, d) /\ d \in Drive(c.trips)
  BY <1>1 DEF Runs
<1>3. /\ d = [vehicle |-> v, trips |-> d.trips] /\ v \in Vehicle /\ v.line = c.vehicles[id].line
      /\ OnItinerary(v, legs)
  BY <1>2, DriveFacts DEF DriveSound
<1>a. v.index \in 1..Len(legs)
  BY <1>3 DEF OnItinerary
<1>4. w \in Vehicle /\ OnItinerary(w, legs) /\ w.line = v.line /\ w.riders = v.riders
  BY <1>3, AdvanceCursorFacts
<1>5. next = IF run.left = 0 THEN run
             ELSE IF steps = <<>> THEN
               [drive |-> end, left |-> IF run.empties + 1 > limit THEN 0 ELSE run.left,
                empties |-> run.empties + 1]
             ELSE IF run.left < rest THEN [drive |-> onward, left |-> 0, empties |-> 0]
             ELSE [drive |-> arrived, left |-> run.left - rest, empties |-> 0]
  BY DEF DriveOn
<1> HIDE DEF limit
<1>6. moved.trips = d.trips /\ onward.trips = d.trips
  <2> HIDE DEF v, w
  <2>1. QED
    BY <1>3
<1> HIDE DEF w
<1>7. DriveSound(c, id, moved)
  <2> HIDE DEF d
  <2>1. QED
    BY <1>2, <1>3, <1>4, MovedSound
<1> HIDE DEF moved, v, steps, rest
<1>8. Queued(end.trips, found.trips, t, u, x, y)
  BY <1>1, <1>a, <1>6, <1>7, CompleteLegInTurn
<1>9. next.drive \in {d, end, onward, moved}
  <2> HIDE DEF end, onward, next
  <2>1. QED
    BY <1>5
<1> HIDE DEF d, end, onward
<1>10. Queued(next.drive.trips, found.trips, t, u, x, y)
  BY <1>1, <1>6, <1>8, <1>9
<1>11. next \in Runs(c, id)
  BY <1>1, DriveOnSound
<1> HIDE DEF next
<1>12. next \in QueuedRuns(c, id, found.trips, t, u, x, y)
  BY <1>10, <1>11 DEF QueuedRuns
<1>13. QED
  BY <1>12 DEF next

\* And so is a whole drive.
LEMMA AdvanceVehicleInTurn ==
  ASSUME NEW c, NEW id \in DOMAIN c.vehicles, NEW d, DriveSound(c, id, d),
         NEW found, Found(found, c.trips), Seated(found.vehicles, found.trips),
         NEW t, NEW u, NEW x, NEW y, SameRide(x, y), Queued(d.trips, found.trips, t, u, x, y),
         NEW legs, Itinerary(legs), legs = Legs[c.lines[c.vehicles[id].line].pattern],
         NEW seconds \in Nat
  PROVE  Queued(AdvanceVehicle(d, legs, found, seconds).trips, found.trips, t, u, x, y)
<1>1. PICK M : M = QueuedRuns(c, id, found.trips, t, u, x, y)
  OBVIOUS
<1>2. Begun(d, seconds) \in M
  <2>1. Begun(d, seconds) \in Runs(c, id) /\ Begun(d, seconds).drive = d
    BY DEF Runs, DriveSound, Begun
  <2>2. QED
    BY <1>1, <2>1 DEF QueuedRuns
<1>3. RoundsStay(M, legs, found)
  BY <1>1, DriveOnInTurn DEF RoundsStay
<1>4. AdvanceVehicle(d, legs, found, seconds) \in DrivesOf(M)
  BY <1>2, <1>3, AdvanceVehicleStays
<1>5. QED
  BY <1>1, <1>4 DEF DrivesOf, QueuedRuns

\* One vehicle after the other drives, and finds the platforms as the substep found them.
LEMMA TickVehicleInTurn ==
  ASSUME NEW c \in City, Sound(c.lines, c.vehicles, c.trips), NEW id \in DOMAIN c.vehicles,
         NEW found, Found(found, c.trips), Seated(found.vehicles, found.trips), NEW seconds \in Nat,
         NEW t, NEW u, NEW x, NEW y, SameRide(x, y), Queued(c.trips, found.trips, t, u, x, y)
  PROVE  Queued(TickVehicle(c, id, found, seconds).trips, found.trips, t, u, x, y)
<1> DEFINE v == c.vehicles[id]
           legs == LegsOf(c, v.line)
           leg == legs[v.index]
           start == [vehicle |-> v, trips |-> c.trips]
           ready == IF Departing(v, leg) THEN Board(start, leg.from, found) ELSE start
           end == AdvanceVehicle(ready, legs, found, seconds)
<1>1. TickVehicle(c, id, found, seconds) = IF IsRouteOperational(c, v.line) THEN Driven(c, id, end) ELSE c
  BY DEF TickVehicle
<1>2. /\ c.vehicles \in Partial(Vehicle) /\ c.trips \in Partial(Trip)
      /\ c = [clock |-> c.clock, spawned |-> c.spawned, trips |-> c.trips, vehicles |-> c.vehicles,
              lines |-> c.lines, resolutions |-> c.resolutions, tally |-> c.tally]
  BY DEF City
<1>3. c.vehicles \in [DOMAIN c.vehicles -> Vehicle] /\ c.trips \in [DOMAIN c.trips -> Trip]
  BY <1>2, PartialFacts
<1>4. Itinerary(legs) /\ legs = Legs[c.lines[c.vehicles[id].line].pattern]
  <2>1. v.line \in DOMAIN c.lines
    BY DEF Sound, VehicleSound
  <2>2. c.lines[v.line].pattern \in Patterns
    BY <2>1 DEF Sound, LinesTyped, Line
  <2>3. QED
    BY <2>2, LegsFacts DEF LegsOf
<1>5. DriveSound(c, id, start) /\ start.vehicle = v /\ start.trips = c.trips
  <2>1. [c.vehicles EXCEPT ![id] = v] = c.vehicles /\ v \in Vehicle
    BY <1>3
  <2>2. QED
    BY <1>3, <2>1 DEF DriveSound, Drive
<1>6. PICK stop : stop = leg.from
  OBVIOUS
<1>7. stop = Legs[c.lines[start.vehicle.line].pattern][start.vehicle.index].from
  BY <1>4, <1>5, <1>6
<1> HIDE DEF start, legs, leg, v
<1>8. DriveSound(c, id, ready)
  BY <1>5, BoardSound
<1>9. Queued(Board(start, stop, found).trips, found.trips, t, u, x, y)
  BY <1>5, <1>7, BoardInTurn
<1>10. Queued(ready.trips, found.trips, t, u, x, y)
  BY <1>5, <1>6, <1>9
<1> HIDE DEF ready
<1>11. Queued(end.trips, found.trips, t, u, x, y)
  BY <1>4, <1>8, <1>10, AdvanceVehicleInTurn
<1> HIDE DEF end
<1>12. Driven(c, id, end).trips = end.trips
  BY <1>2 DEF Driven
<1>13. QED
  BY <1>1, <1>11, <1>12

\* All vehicles of a substep leave the two in turn.
LEMMA TickVehiclesInTurn ==
  ASSUME NEW c, CityInv(c), NEW seconds \in Nat,
         NEW t, NEW u, NEW x, NEW y, SameRide(x, y), InTurn(c.trips, t, u, x, y)
  PROVE  InTurn(TickVehicles(c, seconds).trips, t, u, x, y)
<1> DEFINE M == {d \in Moved(c) : Queued(d.trips, c.trips, t, u, x, y)}
<1>1. /\ c \in City /\ Sound(c.lines, c.vehicles, c.trips) /\ Numbered(DOMAIN c.vehicles)
      /\ IsFiniteSet(DOMAIN c.trips) /\ Seated(c.vehicles, c.trips)
  BY TripsFinite DEF CityInv, Sound
<1>2. c \in M
  BY <1>1 DEF Moved, SameBut, Queued
<1>3. ASSUME NEW id \in DOMAIN c.vehicles, NEW d \in M
      PROVE  TickVehicle(d, id, c, seconds) \in M
  <2>1. /\ d \in City /\ Sound(d.lines, d.vehicles, d.trips) /\ SameBut(d, c) /\ id \in DOMAIN d.vehicles
        /\ Queued(d.trips, c.trips, t, u, x, y)
    BY <1>3 DEF Moved, SameBut
  <2>2. Found(c, d.trips)
    BY <1>1, <2>1, FoundItself DEF Found, SameBut
  <2>3. TickVehicle(d, id, c, seconds) \in Moved(d)
    BY <2>1, <2>2, TickVehicleSound
  <2>4. TickVehicle(d, id, c, seconds) \in Moved(c)
    BY <2>1, <2>3 DEF Moved, SameBut
  <2>5. Queued(TickVehicle(d, id, c, seconds).trips, c.trips, t, u, x, y)
    BY <1>1, <2>1, <2>2, TickVehicleInTurn
  <2>6. QED
    BY <2>4, <2>5
<1> HIDE DEF M
<1>4. TickVehicles(c, seconds) \in M
  BY <1>1, <1>2, <1>3, TickVehiclesStays
<1>5. QED
  BY <1>4 DEF M, Queued

\* Whoever waits through a substep waits all of it, or gives up.
LEMMA WaitsOn ==
  ASSUME NEW trip, NEW lines, TripSound(trip, lines), trip.status = "Waiting", NEW seconds \in Nat
  PROVE  \/ OnPlan(trip, seconds).status = "Unserved"
         \/ /\ StillAs(OnPlan(trip, seconds), trip)
            /\ OnPlan(trip, seconds).patience = trip.patience - seconds
<1> DEFINE standing(i) == IsWalk(trip.plan[i]) /\ trip.plan[i].to = trip.at
           S == {i \in trip.leg..(Len(trip.plan) + 1) : i > Len(trip.plan) \/ ~standing(i)}
           remaining == trip.left + Grace
           ends == (IF trip.patience <= seconds THEN {trip.patience} ELSE {})
                   \cup (IF remaining <= 0 THEN {Floor(remaining + seconds)} ELSE {})
           spent == Min(ends \cup {seconds})
           after == [trip EXCEPT !.status = "Waiting", !.patience = Floor(@ - spent), !.wait = @ + spent]
<1>1. /\ trip \in Trip /\ HasLeg(trip) /\ ~IsWalk(CurrentLeg(trip))
  BY DEF TripSound
<1>2. /\ trip.leg \in Nat /\ trip.leg \in 1..Len(trip.plan) /\ Len(trip.plan) \in Nat /\ trip.patience \in Int
  BY <1>1, TripFields DEF HasLeg
<1>3. ~WalkingOnly(trip.plan)
  BY <1>1, <1>2 DEF WalkingOnly, CurrentLeg
<1>4. Min(S) = trip.leg
  <2>1. S \in SUBSET Nat /\ trip.leg \in S /\ \A i \in S : trip.leg <= i
    BY <1>1, <1>2 DEF CurrentLeg
  <2> HIDE DEF S
  <2>2. Min(S) \in S /\ \A i \in S : Min(S) <= i
    BY <2>1, MinFacts
  <2>3. Min(S) \in Nat /\ Min(S) <= trip.leg /\ trip.leg <= Min(S)
    BY <2>1, <2>2
  <2>4. QED
    BY <1>2, <2>3
<1>5. Collapsed(trip) = trip
  BY <1>4 DEF Collapsed
<1> HIDE DEF S
<1>6. OnPlan(trip, seconds) = Waited(trip, seconds)
  BY <1>1, <1>3, <1>5 DEF OnPlan, OnLeg
<1>7. Waited(trip, seconds) = IF ends = {} THEN after ELSE MarkUnserved(after)
  BY DEF Waited
<1>8. CASE ends # {}
  <2> HIDE DEF ends, spent
  <2>1. MarkUnserved(after).status = "Unserved"
    BY <1>1 DEF MarkUnserved, Trip
  <2>2. QED
    BY <1>6, <1>7, <1>8, <2>1
<1>9. CASE ends = {}
  <2>1. ~(trip.patience <= seconds)
    BY <1>9
  <2>2. spent = seconds
    <3>1. ends \cup {seconds} = {seconds}
      BY <1>9
    <3> HIDE DEF ends
    <3>2. Min({seconds}) = seconds
      BY MinFacts
    <3>3. QED
      BY <3>1, <3>2
  <2> HIDE DEF ends, spent
  <2>3. Floor(trip.patience - seconds) = trip.patience - seconds
    BY <1>2, <2>1 DEF Floor
  <2>4. after.status = "Waiting" /\ after.plan = trip.plan /\ after.leg = trip.leg
        /\ after.patience = Floor(trip.patience - spent)
    BY <1>1 DEF Trip
  <2> HIDE DEF after
  <2>5. QED
    BY <1>6, <1>7, <1>9, <2>2, <2>3, <2>4 DEF StillAs
<1>10. QED
  BY <1>8, <1>9

\* Nobody goes back on a plan, or is given another.
LEMMA OnPlanGoesOn ==
  ASSUME NEW trip, NEW lines, OnItsWay(trip, lines), NEW seconds \in Nat
  PROVE  OnPlan(trip, seconds).plan = trip.plan /\ OnPlan(trip, seconds).leg >= trip.leg
<1> DEFINE Onward(new, old) == new.plan = old.plan /\ new.leg >= old.leg
<1>1. \A r \in Trip : r.leg \in Nat
  BY TripFields
<1>2. ASSUME NEW r \in Trip
      PROVE  Onward(MarkUnserved(r), r) /\ Onward(ScoreArrival(r), r)
  <2>1. MarkUnserved(r).plan = r.plan /\ MarkUnserved(r).leg = r.leg
    BY DEF MarkUnserved, Trip
  <2>2. ScoreArrival(r).plan = r.plan /\ ScoreArrival(r).leg = r.leg
    BY DEF ScoreArrival, Trip
  <2>3. QED
    BY <1>1, <2>1, <2>2
<1>3. Collapsed(trip) \in Trip /\ Onward(Collapsed(trip), trip)
  <2> DEFINE standing(i) == IsWalk(trip.plan[i]) /\ trip.plan[i].to = trip.at
             S == {i \in trip.leg..(Len(trip.plan) + 1) : i > Len(trip.plan) \/ ~standing(i)}
             next == Min(S)
             there == [trip EXCEPT !.leg = next, !.wait = 0, !.status = StatusAfterLeg(trip.plan, next)]
  <2>1. trip \in Trip /\ trip.leg \in Nat /\ Len(trip.plan) \in Nat /\ trip.leg <= Len(trip.plan) + 1
    BY TripFields DEF OnItsWay
  <2>2. S \in SUBSET Nat /\ Len(trip.plan) + 1 \in S /\ \A i \in S : trip.leg <= i
    BY <2>1
  <2>3. Collapsed(trip) = IF next = trip.leg THEN trip ELSE there
    BY DEF Collapsed
  <2> HIDE DEF S
  <2>4. next \in Nat /\ trip.leg <= next
    BY <2>2, MinFacts
  <2> HIDE DEF next
  <2>5. there.plan = trip.plan /\ there.leg = next
    BY <2>1 DEF Trip
  <2>6. Collapsed(trip) \in Trip
    BY CollapsedOnItsWay DEF OnItsWay
  <2>7. QED
    BY <2>1, <2>3, <2>4, <2>5, <2>6
<1>4. ASSUME NEW r \in Trip, OnItsWay(r, lines)
      PROVE  Onward(OnLeg(r, seconds), r)
  <2>1. CASE ~HasLeg(r)
    BY <1>2, <2>1 DEF OnLeg
  <2>2. CASE HasLeg(r) /\ IsWalk(CurrentLeg(r))
    <3> DEFINE goal == CurrentLeg(r).to
               at == MoveToward(r.at, goal, seconds)
               status == StatusAfterLeg(r.plan, r.leg + 1)
               there == [r EXCEPT !.at = at, !.leg = @ + 1, !.wait = 0, !.status = status]
               under == [r EXCEPT !.at = at, !.status = "Walking"]
    <3>1. OnLeg(r, seconds) = IF at # goal THEN under ELSE IF status = "Arrived" THEN ScoreArrival(there) ELSE there
      BY <2>2 DEF OnLeg, Walked
    <3> HIDE DEF at, status, goal
    <3>2. Onward(under, r) /\ Onward(there, r) /\ ScoreArrival(there).plan = there.plan /\ ScoreArrival(there).leg = there.leg
      BY <1>1 DEF Trip, ScoreArrival
    <3> HIDE DEF there, under
    <3>3. QED
      BY <3>1, <3>2
  <2>3. CASE HasLeg(r) /\ ~IsWalk(CurrentLeg(r))
    <3> DEFINE remaining == r.left + Grace
               ends == (IF r.patience <= seconds THEN {r.patience} ELSE {})
                       \cup (IF remaining <= 0 THEN {Floor(remaining + seconds)} ELSE {})
               spent == Min(ends \cup {seconds})
               after == [r EXCEPT !.status = "Waiting", !.patience = Floor(@ - spent), !.wait = @ + spent]
    <3>1. OnLeg(r, seconds) = IF ends = {} THEN after ELSE MarkUnserved(after)
      BY <2>3 DEF OnLeg, Waited
    <3> HIDE DEF ends, spent
    <3>2. Onward(after, r) /\ Onward(MarkUnserved(after), r)
      BY <1>1 DEF Trip, MarkUnserved
    <3> HIDE DEF after
    <3>3. QED
      BY <3>1, <3>2
  <2>4. QED
    BY <2>1, <2>2, <2>3
<1>5. trip \in Trip
  BY DEF OnItsWay
<1>6. CASE WalkingOnly(trip.plan) /\ trip.left < 0
  BY <1>2, <1>5, <1>6 DEF OnPlan
<1>7. CASE ~(WalkingOnly(trip.plan) /\ trip.left < 0)
  <2>1. PICK r : r = Collapsed(trip)
    OBVIOUS
  <2>2. r \in Trip /\ Onward(r, trip) /\ OnItsWay(r, lines)
    BY <1>3, <2>1, CollapsedOnItsWay
  <2>3. PICK s : s = OnLeg(r, seconds)
    OBVIOUS
  <2>4. Onward(s, r)
    BY <1>4, <2>2, <2>3
  <2>5. OnPlan(trip, seconds) = s
    BY <1>7, <2>1, <2>3 DEF OnPlan
  <2>6. s.plan = trip.plan /\ s.leg >= trip.leg
    <3>1. s.leg \in Nat
      <4>1. Settled(s, lines)
        BY <2>2, <2>3, OnLegSettles
      <4>2. QED
        BY <1>1, <4>1 DEF Settled
    <3>2. QED
      BY <1>1, <1>5, <2>2, <2>4, <3>1
  <2>7. QED
    BY <2>5, <2>6
<1>8. QED
  BY <1>6, <1>7

\* The turn of a trip that waits.
LEMMA WaiterTicks ==
  ASSUME NEW c, CityInv(c), NEW r \in DOMAIN c.trips, c.trips[r].status = "Waiting", NEW seconds \in Nat
  PROVE  \/ TickTrip(c, r, seconds).status = "Unserved"
         \/ /\ StillAs(TickTrip(c, r, seconds), c.trips[r])
            /\ TickTrip(c, r, seconds).patience = c.trips[r].patience - seconds
<1>1. PICK trip : trip = c.trips[r]
  OBVIOUS
<1>2. TripSound(trip, c.lines) /\ trip.status = "Waiting"
  BY <1>1 DEF CityInv, Sound
<1>3. trip.plan # <<>>
  <2>1. trip.status \notin {"Idle", "Driving"}
    BY <1>2
  <2>2. QED
    BY <1>2, <2>1 DEF TripSound, PlanLinks
<1>4. TickTrip(c, r, seconds) = OnPlan(trip, seconds)
  BY <1>1, <1>2, <1>3 DEF TickTrip, Replanned
<1>5. QED
  BY <1>1, <1>2, <1>4, WaitsOn

\* Whoever has gone on does not come back.
LEMMA GoneOnTicks ==
  ASSUME NEW c, CityInv(c), NEW r \in DOMAIN c.trips, NEW x, x.leg \in Nat, HasLeg(x), GoneOn(c.trips[r], x),
         NEW seconds \in Nat
  PROVE  GoneOn(TickTrip(c, r, seconds), x)
<1>1. PICK trip : trip = c.trips[r]
  OBVIOUS
<1>2. LinesTyped(c.lines) /\ TripSound(trip, c.lines) /\ trip \in Trip
  BY <1>1 DEF CityInv, Sound, TripSound
<1>3. trip.leg \in Nat
  BY <1>2, TripFields
<1>4. trip.plan # <<>>
  <2>1. trip.plan = x.plan /\ Len(x.plan) >= 1
    BY <1>1 DEF GoneOn, HasLeg
  <2>2. Len(<<>>) = 0
    OBVIOUS
  <2>3. QED
    BY <2>1, <2>2
<1>5. trip.status # "Driving"
  BY <1>2, <1>4 DEF TripSound
<1>6. CASE trip.status = "Riding"
  <2>1. r \in Riders(c)
    BY <1>1, <1>6 DEF Riders, CityInv, Sound, Seated
  <2>2. TickTrip(c, r, seconds) = trip
    BY <1>1, <1>6, <2>1 DEF TickTrip
  <2>3. QED
    BY <1>1, <2>2
<1>7. CASE trip.status # "Riding"
  <2>1. TickTrip(c, r, seconds) = OnPlan(trip, seconds) /\ Replanned(c, r) = trip
    BY <1>1, <1>4, <1>5, <1>7 DEF TickTrip, Replanned
  <2>2. OnItsWay(trip, c.lines)
    BY <1>1, <1>2, <1>5, <2>1, ReplannedOnItsWay
  <2>3. OnPlan(trip, seconds).plan = trip.plan /\ OnPlan(trip, seconds).leg >= trip.leg
    BY <2>2, OnPlanGoesOn
  <2>4. OnPlan(trip, seconds).leg \in Nat
    <3>1. OnPlan(trip, seconds) \in Trip
      BY <2>2, OnPlanSettles DEF Settled
    <3>2. QED
      BY <3>1, TripFields
  <2>5. trip.leg > x.leg
    BY <1>1, <1>7 DEF GoneOn
  <2>6. QED
    BY <1>1, <1>3, <2>1, <2>3, <2>4, <2>5 DEF GoneOn
<1>8. QED
  BY <1>6, <1>7

\* When the trips have had their turns, u has waited as long as t.
LEMMA TurnsInTurn ==
  ASSUME NEW c, CityInv(c), NEW alighted, \A r \in alighted : c.trips[r].status = "Walking", NEW seconds \in Nat,
         NEW t, NEW u, NEW x, NEW y, SameRide(x, y), InTurn(c.trips, t, u, x, y)
  PROVE  /\ InTurn(AdvanceActiveTrips(c, alighted, seconds).trips, t, u, x, y)
         /\ AdvanceActiveTrips(c, alighted, seconds).spawned = c.spawned
<1> DEFINE turn(r) == TickTrip(c, r, IF r \in alighted THEN 0 ELSE seconds)
           result == [r \in DOMAIN c.trips |-> turn(r)]
           T == Restrict(result, DOMAIN result \ OverIn(result, Terminal))
           d == AdvanceActiveTrips(c, alighted, seconds)
<1>1. /\ c \in City
      /\ c = [clock |-> c.clock, spawned |-> c.spawned, trips |-> c.trips, vehicles |-> c.vehicles,
              lines |-> c.lines, resolutions |-> c.resolutions, tally |-> c.tally]
      /\ \A r \in DOMAIN c.trips : c.trips[r] \in Trip
  BY CityFields DEF CityInv
<1>2. d = Resolved(c, result)
  BY DEF AdvanceActiveTrips
<1>3. d.trips = T /\ d.spawned = c.spawned
  <2> HIDE DEF result
  <2>1. QED
    BY <1>1, <1>2 DEF Resolved, OverIn
<1>4. \A r \in DOMAIN T : r \in DOMAIN c.trips /\ T[r] = turn(r) /\ turn(r).status \notin Terminal
  <2> HIDE DEF turn
  <2>1. QED
    BY DEF OverIn, Restrict
<1>5. ASSUME NEW r \in DOMAIN T, c.trips[r].status = "Waiting"
      PROVE  /\ r \in DOMAIN c.trips /\ StillAs(T[r], c.trips[r])
             /\ T[r].patience = c.trips[r].patience - seconds /\ c.trips[r].patience \in Int
  <2>1. r \in DOMAIN c.trips /\ T[r] = TickTrip(c, r, seconds) /\ T[r].status \notin Terminal
    BY <1>4, <1>5
  <2>2. T[r].status # "Unserved"
    BY <2>1 DEF Terminal
  <2>3. c.trips[r].patience \in Int
    BY <1>1, <2>1, TripFields
  <2> HIDE DEF T
  <2>4. QED
    BY <1>5, <2>1, <2>2, <2>3, WaiterTicks
<1>6. ASSUME NEW r \in DOMAIN T, GoneOn(c.trips[r], x)
      PROVE  GoneOn(T[r], x)
  <2>1. r \in DOMAIN c.trips /\ T[r] = turn(r)
    BY <1>4
  <2>2. (IF r \in alighted THEN 0 ELSE seconds) \in Nat
    OBVIOUS
  <2>3. QED
    BY <1>6, <2>1, <2>2, GoneOnTicks DEF SameRide
<1> HIDE DEF T, turn
<1>7. InTurn(T, t, u, x, y)
  <2>1. CASE t \notin DOMAIN T
    BY <2>1 DEF InTurn
  <2>2. CASE t \in DOMAIN T /\ GoneOn(c.trips[t], x)
    BY <1>6, <2>2 DEF InTurn
  <2>3. CASE t \in DOMAIN T /\ ~GoneOn(c.trips[t], x)
    <3>1. StillAs(c.trips[t], x) /\ t \in DOMAIN c.trips
      BY <1>4, <2>3 DEF InTurn
    <3>2. StillAs(T[t], x) /\ T[t].patience = c.trips[t].patience - seconds /\ c.trips[t].patience \in Int
      BY <1>5, <2>3, <3>1 DEF StillAs
    <3>3. ASSUME u \in DOMAIN T
          PROVE  StillAs(T[u], y) /\ T[t].patience < T[u].patience
      <4>1. StillAs(c.trips[u], y) /\ c.trips[t].patience < c.trips[u].patience
        BY <1>4, <2>3, <3>1, <3>3 DEF InTurn
      <4>2. StillAs(T[u], y) /\ T[u].patience = c.trips[u].patience - seconds /\ c.trips[u].patience \in Int
        BY <1>5, <3>3, <4>1 DEF StillAs
      <4>3. QED
        BY <3>2, <4>1, <4>2
    <3>4. QED
      BY <3>2, <3>3 DEF InTurn
  <2>4. QED
    BY <2>1, <2>2, <2>3
<1>8. QED
  BY <1>3, <1>7

\* Time passes for both.
LEMMA ClockInTurn ==
  ASSUME NEW c, CityInv(c), NEW seconds \in Nat, NEW t, NEW u, NEW x, NEW y, InTurn(c.trips, t, u, x, y)
  PROVE  /\ InTurn(AdvanceClock(c, seconds).trips, t, u, x, y)
         /\ AdvanceClock(c, seconds).spawned = c.spawned
<1> DEFINE Later(trip) == [trip EXCEPT !.left = Max({@ - seconds, -(Grace + MaxDelta)}),
                                       !.drive = Floor(@ - seconds)]
           U == [r \in DOMAIN c.trips |-> Later(c.trips[r])]
           d == AdvanceClock(c, seconds)
<1>1. /\ c = [clock |-> c.clock, spawned |-> c.spawned, trips |-> c.trips, vehicles |-> c.vehicles,
              lines |-> c.lines, resolutions |-> c.resolutions, tally |-> c.tally]
      /\ \A r \in DOMAIN c.trips : c.trips[r] \in Trip
  BY CityFields DEF CityInv
<1>2. d = [c EXCEPT !.clock = Min({@ + seconds, LastDue}), !.trips = U]
  BY DEF AdvanceClock
<1>3. d.trips = U /\ d.spawned = c.spawned
  <2> HIDE DEF U
  <2>1. QED
    BY <1>1, <1>2
<1>4. DOMAIN U = DOMAIN c.trips
  OBVIOUS
<1>5. ASSUME NEW r \in DOMAIN c.trips
      PROVE  /\ U[r].status = c.trips[r].status /\ U[r].plan = c.trips[r].plan /\ U[r].leg = c.trips[r].leg
             /\ U[r].patience = c.trips[r].patience
  BY <1>1 DEF Trip
<1> HIDE DEF U
<1>6. InTurn(U, t, u, x, y)
  BY <1>4, <1>5 DEF InTurn, GoneOn, StillAs
<1>7. QED
  BY <1>3, <1>6

\* What is known of the two between substeps: both were spawned, and they are in turn.
Pair(t, u, x, y) ==
  {c \in City : /\ CityInv(c) /\ t \in 1..c.spawned /\ u \in 1..c.spawned
                /\ InTurn(c.trips, t, u, x, y)}

LEMMA SubstepInTurn ==
  ASSUME NEW t, NEW u, NEW x, NEW y, SameRide(x, y), NEW c \in Pair(t, u, x, y), NEW seconds \in Nat
  PROVE  AdvanceTickSubstep(c, seconds) \in Pair(t, u, x, y)
<1>1. CityInv(c) /\ t \in 1..c.spawned /\ u \in 1..c.spawned /\ InTurn(c.trips, t, u, x, y)
  BY DEF Pair
<1>2. PICK before : before = AdvanceClock(c, seconds)
  OBVIOUS
<1>3. CityInv(before) /\ before.spawned = c.spawned /\ InTurn(before.trips, t, u, x, y)
  BY <1>1, <1>2, AdvanceClockSound, ClockInTurn
<1>4. PICK after : after = TickVehicles(before, seconds)
  OBVIOUS
<1>5. CityInv(after) /\ after.spawned = c.spawned
  <2>1. IsFiniteSet(DOMAIN before.trips)
    BY <1>3, TripsFinite
  <2>2. after \in Moved(before)
    BY <1>3, <1>4, <2>1, TickVehiclesSound DEF CityInv
  <2>3. QED
    BY <1>3, <2>2, MovedInv DEF Moved, SameBut
<1>6. InTurn(after.trips, t, u, x, y)
  BY <1>3, <1>4, TickVehiclesInTurn
<1>7. PICK alighted : alighted = JustDisembarked(before, after)
  OBVIOUS
<1>8. \A r \in alighted : after.trips[r].status = "Walking"
  BY <1>7 DEF JustDisembarked
<1>9. PICK d : d = AdvanceActiveTrips(after, alighted, seconds)
  OBVIOUS
<1>10. AdvanceTickSubstep(c, seconds) = d
  BY <1>2, <1>4, <1>7, <1>9 DEF AdvanceTickSubstep, AfterVehicles
<1>11. CityInv(d) /\ InTurn(d.trips, t, u, x, y) /\ d.spawned = c.spawned
  BY <1>5, <1>6, <1>8, <1>9, AdvanceActiveTripsSound, TurnsInTurn
<1>12. QED
  BY <1>1, <1>10, <1>11 DEF Pair, CityInv

\* New trips take other numbers.
LEMMA DrainInTurn ==
  ASSUME NEW t, NEW u, NEW x, NEW y, NEW c \in Pair(t, u, x, y)
  PROVE  DrainAndSpawn(c) \in Pair(t, u, x, y)
<1> DEFINE due == {i \in (c.spawned + 1)..Len(Demands) : Demands[i].due <= c.clock}
           T == [r \in DOMAIN c.trips \cup due |->
                   IF r \in due THEN BuildTrip(c, Demands[r]) ELSE c.trips[r]]
           d == DrainAndSpawn(c)
<1>1. CityInv(c) /\ t \in 1..c.spawned /\ u \in 1..c.spawned /\ InTurn(c.trips, t, u, x, y)
  BY DEF Pair
<1>2. /\ c = [clock |-> c.clock, spawned |-> c.spawned, trips |-> c.trips, vehicles |-> c.vehicles,
              lines |-> c.lines, resolutions |-> c.resolutions, tally |-> c.tally]
      /\ c.spawned \in Nat /\ Len(Demands) \in Nat
  BY <1>1, CityFields DEF CityInv
<1>3. \A r \in 1..c.spawned : r \notin due
  BY <1>2
<1>4. Cardinality(due) \in Nat
  <2>1. IsFiniteSet((c.spawned + 1)..Len(Demands))
    <3>1. c.spawned + 1 \in Int /\ Len(Demands) \in Int
      BY <1>2
    <3>2. QED
      BY <3>1, FS_Interval
  <2>2. due \subseteq (c.spawned + 1)..Len(Demands)
    OBVIOUS
  <2> HIDE DEF due
  <2>3. IsFiniteSet(due)
    BY <2>1, <2>2, FS_Subset
  <2>4. QED
    BY <2>3, FS_CardinalityType
<1>5. d = [c EXCEPT !.spawned = @ + Cardinality(due), !.trips = T]
  BY DEF DrainAndSpawn
<1> HIDE DEF due
<1>6. \A r \in 1..c.spawned : (r \in DOMAIN T <=> r \in DOMAIN c.trips) /\ (r \in DOMAIN T => T[r] = c.trips[r])
  BY <1>3
<1> HIDE DEF T
<1>7. d.spawned = c.spawned + Cardinality(due) /\ d.trips = T
  BY <1>2, <1>5
<1>8. CityInv(d)
  BY <1>1, DrainAndSpawnSound
<1> HIDE DEF d
<1>9. t \in 1..d.spawned /\ u \in 1..d.spawned
  BY <1>1, <1>2, <1>4, <1>7
<1>10. InTurn(d.trips, t, u, x, y)
  BY <1>1, <1>6, <1>7 DEF InTurn
<1>11. d \in Pair(t, u, x, y)
  BY <1>8, <1>9, <1>10 DEF Pair, CityInv
<1>12. QED
  BY <1>11 DEF d

\* In a tick of whatever length, nobody who waits is passed over.
LEMMA TickingInTurn ==
  ASSUME CityInv(city), Ticking,
         NEW stop \in DOMAIN Where, NEW t \in DOMAIN city.trips, NEW u \in DOMAIN city.trips,
         t \in Waiters(city, stop), Boarded(u), city.trips[t].patience < city.trips[u].patience,
         WaitsFor(city, u, stop, CurrentLeg(city.trips[t]).line, CurrentLeg(city.trips[t]).board)
  PROVE  ~StillWaits(t)
<1>1. PICK seconds \in Deltas : city' = TickTrips(city, seconds)
  BY DEF Ticking, Tick
<1>2. seconds \in Nat
  BY TripTickAssumption DEF TripTickAssumption
<1>3. PICK x, y : x = city.trips[t] /\ y = city.trips[u]
  OBVIOUS
<1>4. x \in Trip /\ y \in Trip /\ TripSound(x, city.lines)
  BY <1>3 DEF CityInv, Sound, TripSound
<1>5. x.status = "Waiting" /\ y.status = "Waiting" /\ HasLeg(x) /\ HasLeg(y)
  BY <1>3 DEF WaitsFor, Waiters
<1>6. SameRide(x, y)
  <2>1. ~IsWalk(CurrentLeg(x))
    BY <1>4, <1>5 DEF TripSound
  <2>2. x.leg \in Nat /\ y.leg \in Nat
    BY <1>4, TripFields
  <2>3. QED
    BY <1>3, <1>5, <2>1, <2>2 DEF SameRide, WaitsFor
<1>7. city \in Pair(t, u, x, y)
  <2>1. InTurn(city.trips, t, u, x, y)
    BY <1>3, <1>5 DEF InTurn, StillAs
  <2>2. t \in 1..city.spawned /\ u \in 1..city.spawned
    BY TripsFinite
  <2>3. QED
    BY <2>1, <2>2 DEF Pair, CityInv
<1>8. PICK S : S = Pair(t, u, x, y)
  OBVIOUS
<1>9. \A c \in S : CityInv(c) /\ DrainAndSpawn(c) \in S
  BY <1>8, DrainInTurn DEF Pair
<1>10. \A c \in S, n \in Nat : AdvanceTickSubstep(c, n) \in S
  BY <1>6, <1>8, SubstepInTurn
<1>11. TickTrips(city, seconds) \in S
  BY <1>2, <1>7, <1>8, <1>9, <1>10, TickTripsStays
<1>12. CityInv(city') /\ InTurn(city'.trips, t, u, x, y)
  BY <1>1, <1>8, <1>11 DEF Pair
<1>13. u \in DOMAIN city'.trips /\ city'.trips[u].status = "Riding"
  BY <1>12 DEF Boarded, Riders, CityInv, Sound, Seated
<1>14. SUFFICES ASSUME StillWaits(t)
                PROVE  FALSE
  OBVIOUS
<1>15. /\ t \in DOMAIN city'.trips /\ city'.trips[t].status = "Waiting" /\ city'.trips[t].leg = x.leg
  BY <1>3, <1>14 DEF StillWaits
<1>16. ~GoneOn(city'.trips[t], x)
  BY <1>6, <1>15 DEF GoneOn, SameRide
<1>17. StillAs(city'.trips[u], y)
  BY <1>12, <1>13, <1>15, <1>16 DEF InTurn
<1>18. QED
  BY <1>13, <1>17 DEF StillAs

\* Trips that start over do not ride, and the others are left as they were.
LEMMA InvalidateBoardsNobody ==
  ASSUME NEW c \in City, NEW lines, NEW vehicles, NEW d,
         d = [clock |-> c.clock, spawned |-> c.spawned, trips |-> c.trips, vehicles |-> vehicles,
              lines |-> lines, resolutions |-> c.resolutions, tally |-> c.tally],
         NEW l, NEW parkedAt, NEW e, e = InvalidateTripsForLine(d, l, parkedAt),
         NEW t \in DOMAIN e.trips, e.trips[t].status = "Riding"
  PROVE  t \in DOMAIN c.trips /\ c.trips[t].status = "Riding"
<1> DEFINE hit == {r \in DOMAIN d.trips : References(d.trips[r], l)}
           Reset(r) ==
             [d.trips[r] EXCEPT !.status = "Idle", !.plan = <<>>, !.leg = 1, !.wait = 0,
                                !.at = IF r \in DOMAIN parkedAt THEN parkedAt[r] ELSE @]
           T == [r \in DOMAIN d.trips |-> IF r \in hit THEN Reset(r) ELSE d.trips[r]]
           V == [v \in DOMAIN d.vehicles |-> [d.vehicles[v] EXCEPT !.riders = @ \ hit]]
<1>1. e = [d EXCEPT !.trips = T, !.vehicles = V]
  BY DEF InvalidateTripsForLine
<1>2. /\ c = [clock |-> c.clock, spawned |-> c.spawned, trips |-> c.trips, vehicles |-> c.vehicles,
              lines |-> c.lines, resolutions |-> c.resolutions, tally |-> c.tally]
      /\ \A r \in DOMAIN c.trips : c.trips[r] \in Trip
  BY CityFields
<1>3. d.trips = c.trips
  OBVIOUS
<1>4. \A r \in DOMAIN c.trips : Reset(r).status = "Idle"
  BY <1>2, <1>3 DEF Trip
<1> HIDE DEF Reset, hit
<1>5. DOMAIN T = DOMAIN c.trips /\ \A r \in DOMAIN c.trips : T[r] = IF r \in hit THEN Reset(r) ELSE c.trips[r]
  BY <1>3
<1> HIDE DEF T, V
<1>6. e.trips = T
  BY <1>1
<1>7. QED
  BY <1>4, <1>5, <1>6

\* No intent makes a trip ride.
LEMMA IntentBoardsNobody ==
  ASSUME CityInv(city), NEW u \in DOMAIN city'.trips, city'.trips[u].status = "Riding",
         \/ \E l \in DOMAIN city.lines : Operate(l) \/ Restructure(l)
         \/ \E pattern \in Patterns : CreateRoute(pattern)
  PROVE  u \in DOMAIN city.trips /\ city.trips[u].status = "Riding"
<1> USE DEF CityInv
<1>1. city \in City
  OBVIOUS
<1>2. /\ city = [clock |-> city.clock, spawned |-> city.spawned, trips |-> city.trips, vehicles |-> city.vehicles,
                 lines |-> city.lines, resolutions |-> city.resolutions, tally |-> city.tally]
  BY <1>1, CityFields
<1> HIDE DEF CityInv
<1>3. ASSUME NEW lines, city' = [city EXCEPT !.lines = lines]
      PROVE  city'.trips = city.trips
  BY <1>2, <1>3
<1>4. ASSUME NEW vehicles, city' = [city EXCEPT !.vehicles = vehicles]
      PROVE  city'.trips = city.trips
  BY <1>2, <1>4
<1>5. ASSUME NEW lines, NEW edited, edited = [city EXCEPT !.lines = lines], NEW l, NEW visit,
             city' = Park(edited, l, visit)
      PROVE  u \in DOMAIN city.trips /\ city.trips[u].status = "Riding"
  <2> DEFINE fleet == Fleet(edited, l)
             stopped == [v \in DOMAIN edited.vehicles |->
                           IF v \in fleet THEN [line |-> l, index |-> visit[v], step |-> 1,
                                                progress |-> 0, riders |-> {}]
                                          ELSE edited.vehicles[v]]
             parkedAt == [t \in UNION {edited.vehicles[v].riders : v \in fleet} |->
                            LET v == CHOOSE v \in fleet : t \in edited.vehicles[v].riders
                            IN  Access[LegsOf(edited, l)[visit[v]].from]]
             d == [edited EXCEPT !.vehicles = stopped]
  <2>1. city' = InvalidateTripsForLine(d, l, parkedAt)
    BY <1>5 DEF Park
  <2> HIDE DEF stopped, parkedAt
  <2>2. edited = [clock |-> city.clock, spawned |-> city.spawned, trips |-> city.trips,
                  vehicles |-> city.vehicles, lines |-> lines, resolutions |-> city.resolutions,
                  tally |-> city.tally]
    BY <1>2, <1>5
  <2>3. d = [clock |-> city.clock, spawned |-> city.spawned, trips |-> city.trips, vehicles |-> stopped,
             lines |-> lines, resolutions |-> city.resolutions, tally |-> city.tally]
    BY <2>2
  <2> HIDE DEF d
  <2>4. PICK e : e = city'
    OBVIOUS
  <2>5. e = InvalidateTripsForLine(d, l, parkedAt) /\ u \in DOMAIN e.trips /\ e.trips[u].status = "Riding"
    BY <2>1, <2>4
  <2>6. QED
    BY <1>1, <2>3, <2>5, InvalidateBoardsNobody
<1>6. ASSUME NEW l \in DOMAIN city.lines, Operate(l)
      PROVE  city'.trips = city.trips
  <2>1. CASE SetRouteActive(l)
    <3> DEFINE lines == [city.lines EXCEPT ![l].active = ~@]
    <3>1. city' = [city EXCEPT !.lines = lines]
      BY <2>1 DEF SetRouteActive
    <3> HIDE DEF lines
    <3>2. QED
      BY <1>3, <3>1
  <2>2. CASE DeployInitialFleet(l)
    BY <1>4, <2>2 DEF DeployInitialFleet, Deployed, WithVehicles
  <2>3. CASE AddServiceVehicle(l)
    BY <1>4, <2>3 DEF AddServiceVehicle, WithVehicles
  <2>4. CASE RetireServiceVehicle(l)
    BY <1>4, <2>4 DEF RetireServiceVehicle
  <2>5. QED
    BY <1>6, <2>1, <2>2, <2>3, <2>4 DEF Operate
<1>7. ASSUME NEW l \in DOMAIN city.lines, Restructure(l)
      PROVE  u \in DOMAIN city.trips /\ city.trips[u].status = "Riding"
  <2>1. CASE BreakService(l)
    <3> DEFINE lines == [city.lines EXCEPT ![l].broken = TRUE]
    <3>1. PICK visit : city' = Park([city EXCEPT !.lines = lines], l, visit)
      BY <2>1 DEF BreakService
    <3> HIDE DEF lines
    <3>2. QED
      BY <1>5, <3>1
  <2>2. CASE RestoreService(l)
    <3> DEFINE lines == [city.lines EXCEPT ![l].broken = FALSE]
    <3>1. city' = [city EXCEPT !.lines = lines]
      BY <2>2 DEF RestoreService
    <3> HIDE DEF lines
    <3>2. QED
      BY <1>3, <3>1
  <2>3. CASE UpdateRoute(l)
    <3>1. PICK pattern, broken :
            LET edited == [city EXCEPT !.lines[l].pattern = pattern, !.lines[l].broken = broken]
            IN  \E visit \in ParkChoices(edited, l) : city' = Park(edited, l, visit)
      BY <2>3 DEF UpdateRoute
    <3> DEFINE lines == [[city.lines EXCEPT ![l].pattern = pattern] EXCEPT ![l].broken = broken]
               edited == [city EXCEPT !.lines[l].pattern = pattern, !.lines[l].broken = broken]
    <3>2. PICK visit : city' = Park(edited, l, visit)
      BY <3>1
    <3>3. edited = [city EXCEPT !.lines = lines]
      BY <1>2
    <3> HIDE DEF lines, edited
    <3>4. QED
      BY <1>5, <3>2, <3>3
  <2>4. CASE DeleteRoute(l)
    <3> DEFINE lines == Restrict(city.lines, DOMAIN city.lines \ {l})
               vehicles == Restrict(city.vehicles, DOMAIN city.vehicles \ Fleet(city, l))
    <3>1. city' = InvalidateTripsForLine([city EXCEPT !.lines = lines, !.vehicles = vehicles], l, <<>>)
      BY <2>4 DEF DeleteRoute
    <3> HIDE DEF lines, vehicles
    <3>2. PICK d, e : d = [city EXCEPT !.lines = lines, !.vehicles = vehicles] /\ e = city'
      OBVIOUS
    <3>3. /\ e = InvalidateTripsForLine(d, l, <<>>)
          /\ u \in DOMAIN e.trips /\ e.trips[u].status = "Riding"
      BY <3>1, <3>2
    <3>4. d = [clock |-> city.clock, spawned |-> city.spawned, trips |-> city.trips, vehicles |-> vehicles,
               lines |-> lines, resolutions |-> city.resolutions, tally |-> city.tally]
      BY <1>2, <3>2
    <3>5. QED
      BY <1>1, <3>3, <3>4, InvalidateBoardsNobody
  <2>5. QED
    BY <1>7, <2>1, <2>2, <2>3, <2>4 DEF Restructure
<1>8. ASSUME NEW pattern \in Patterns, CreateRoute(pattern)
      PROVE  city'.trips = city.trips
  BY <1>3, <1>8 DEF CreateRoute
<1>9. QED
  BY <1>6, <1>7, <1>8

\* Of two trips that wait for the same departure the one with less patience left
\* is never passed over for the other, in a tick of whatever length: platforms are
\* filled and vehicles boarded in that order, and no intent boards anybody.
THEOREM NobodyJumpsTheQueue == Spec => NoQueueJumping
<1> DEFINE InOrder ==
      \A stop \in DOMAIN Where, t, u \in DOMAIN city.trips :
        /\ t \in Waiters(city, stop) /\ Boarded(u)
        /\ city.trips[t].patience < city.trips[u].patience
        /\ WaitsFor(city, u, stop, CurrentLeg(city.trips[t]).line, CurrentLeg(city.trips[t]).board)
        => ~StillWaits(t)
<1>1. CityInv(city) /\ [Next]_vars => [InOrder]_vars
  <2>1. SUFFICES ASSUME CityInv(city), Next
                 PROVE  InOrder
    OBVIOUS
  <2>2. CASE Ticking
    BY <2>1, <2>2, TickingInTurn
  <2>3. CASE ~Ticking
    <3>1. SUFFICES ASSUME NEW u, Boarded(u)
                   PROVE  FALSE
      OBVIOUS
    <3>2. CityInv(city')
      BY <2>1, NextKeeps
    <3>3. u \in DOMAIN city'.trips /\ city'.trips[u].status = "Riding"
      BY <3>1, <3>2 DEF Boarded, Riders, CityInv, Sound, Seated
    <3>4. u \in DOMAIN city.trips /\ city.trips[u].status = "Riding"
      BY <2>1, <2>3, <3>3, IntentBoardsNobody DEF Next
    <3>5. u \in Riders(city)
      BY <2>1, <3>4 DEF Riders, CityInv, Sound, Seated
    <3>6. QED
      BY <3>1, <3>5 DEF Boarded
  <2>4. QED
    BY <2>2, <2>3
<1>2. QED
  BY <1>1, Invariance, PTL DEF Spec, NoQueueJumping

=============================================================================
