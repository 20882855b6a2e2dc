------------------------- MODULE FairShare_proofs -------------------------
(***************************************************************************)
(* Sums over the tasks, and what get_task_batch_sizes makes of them, for   *)
(* any number of tasks and any weights.                                    *)
(*                                                                         *)
(* The folds of the model are recursive functions on the subsets of a      *)
(* finite set.  Subset is well founded there (FS_StrictSubsetOrdering-     *)
(* WellFounded), so a family of subsets that contains every set all of     *)
(* whose proper subsets it contains is the whole power set: SubsetsAll.    *)
(* It states induction with a set where the library has an operator.       *)
(***************************************************************************)
EXTENDS ColocatedTraining, FiniteSetTheorems, TLAPS

LEMMA SubsetsAll ==
  ASSUME NEW S, IsFiniteSet(S), NEW Good,
         ASSUME NEW t \in SUBSET S, \A u \in SUBSET t : u # t => u \in Good
         PROVE  t \in Good
  PROVE  SUBSET S \subseteq Good
  <1> DEFINE Bad == (SUBSET S) \ Good
  <1> SUFFICES ASSUME Bad # {} PROVE FALSE
    OBVIOUS
  <1>1. IsWellFoundedOn(StrictSubsetOrdering(S), FiniteSubsetsOf(S))
    BY FS_StrictSubsetOrderingWellFounded
  <1>2. FiniteSubsetsOf(S) = SUBSET S
    BY FS_FiniteSubsetsOfFinite
  <1>3. Bad \subseteq FiniteSubsetsOf(S)
    BY <1>2
  <1>4. \E t \in Bad : \A u \in Bad : ~ (<<u, t>> \in StrictSubsetOrdering(S))
    <2> HIDE DEF Bad
    <2> QED
      BY <1>1, <1>3, WFMin
  <1>5. PICK t \in Bad : \A u \in Bad : ~ (<<u, t>> \in StrictSubsetOrdering(S))
    BY <1>4
  <1>6. \A u \in SUBSET t : u # t => u \in Good
    BY <1>5 DEF StrictSubsetOrdering
  <1> QED
    BY <1>5, <1>6

-----------------------------------------------------------------------------
(***************************************************************************)
(* FoldFunction(+, 0, f) is the sum of the values of f.                    *)
(***************************************************************************)
Pick(s) == CHOOSE x \in s : TRUE
Rest(s) == s \ {Pick(s)}

SumBody(h, f, s) == IF s = {} THEN 0 ELSE f[Pick(s)] + h[Rest(s)]
Sums(h, f, S)    == h = [s \in SUBSET S |-> SumBody(h, f, s)]
Table(f, S)      == CHOOSE h : Sums(h, f, S)
Sum(f, S)        == Table(f, S)[S]

LEMMA FoldIsSum ==
  ASSUME NEW f
  PROVE  FoldFunction(+, 0, f) = Sum(f, DOMAIN f)
  BY DEF FoldFunction, FoldFunctionOnSet, MapThenFoldSet, Sum, Table, Sums, SumBody,
         Pick, Rest

LEMMA RestSmaller ==
  ASSUME NEW s, s # {}
  PROVE  Pick(s) \in s /\ Rest(s) \in SUBSET s /\ Rest(s) # s
  BY DEF Pick, Rest

LEMMA SumsAgree ==
  ASSUME NEW f, NEW S, IsFiniteSet(S), NEW T \in SUBSET S,
         NEW h, NEW k, Sums(h, f, S), Sums(k, f, T)
  PROVE  \A s \in SUBSET T : h[s] = k[s]
  <1> DEFINE Good == {s \in SUBSET T : h[s] = k[s]}
  <1>1. IsFiniteSet(T)
    BY FS_Subset
  <1>2. ASSUME NEW t \in SUBSET T, \A u \in SUBSET t : u # t => u \in Good
        PROVE  t \in Good
    <2>1. h[t] = SumBody(h, f, t) /\ k[t] = SumBody(k, f, t)
      BY DEF Sums
    <2>2. CASE t = {}
      BY <2>1, <2>2 DEF SumBody
    <2>3. CASE t # {}
      <3>1. h[Rest(t)] = k[Rest(t)]
        BY <1>2, <2>3, RestSmaller
      <3> QED
        BY <2>1, <3>1, <2>3 DEF SumBody
    <2> QED
      BY <2>2, <2>3
  <1>3. SUBSET T \subseteq Good
    <2> HIDE DEF Good
    <2> QED
      BY <1>1, <1>2, SubsetsAll
  <1> QED
    BY <1>3

LEMMA SumsExist ==
  ASSUME NEW f, NEW S, IsFiniteSet(S)
  PROVE  Sums(Table(f, S), f, S)
  <1> DEFINE Good == {s \in SUBSET S : Sums(Table(f, s), f, s)}
  <1>1. ASSUME NEW t \in SUBSET S, \A u \in SUBSET t : u # t => u \in Good
        PROVE  t \in Good
    <2> DEFINE h == [s \in SUBSET t |-> IF s = {} THEN 0 ELSE f[Pick(s)] + Sum(f, Rest(s))]
    <2>1. ASSUME NEW v \in SUBSET t, v # t
          PROVE  h[v] = Sum(f, v)
      <3>1. Sums(Table(f, v), f, v)
        BY <1>1, <2>1
      <3>2. Sum(f, v) = SumBody(Table(f, v), f, v)
        BY <3>1 DEF Sum, Sums
      <3>3. CASE v = {}
        BY <3>2, <3>3 DEF SumBody
      <3>4. CASE v # {}
        <4>1. Rest(v) \in SUBSET v /\ Rest(v) \in SUBSET t /\ Rest(v) # t
          BY <3>4, RestSmaller
        <4>2. Sums(Table(f, Rest(v)), f, Rest(v))
          BY <1>1, <4>1
        <4>3. IsFiniteSet(v)
          BY FS_Subset
        <4>4. Table(f, v)[Rest(v)] = Table(f, Rest(v))[Rest(v)]
          BY <3>1, <4>1, <4>2, <4>3, SumsAgree
        <4> QED
          BY <3>2, <3>4, <4>4 DEF SumBody, Sum
      <3> QED
        BY <3>3, <3>4
    <2>2. ASSUME NEW s \in SUBSET t
          PROVE  h[s] = SumBody(h, f, s)
      <3>1. CASE s = {}
        BY <3>1 DEF SumBody
      <3>2. CASE s # {}
        <4>1. Rest(s) \in SUBSET t /\ Rest(s) # t
          BY <3>2, RestSmaller
        <4>2. h[Rest(s)] = Sum(f, Rest(s))
          BY <2>1, <4>1
        <4> QED
          BY <3>2, <4>2 DEF SumBody
      <3> QED
        BY <3>1, <3>2
    <2>3. Sums(h, f, t)
      <3> HIDE DEF h
      <3>1. h = [s \in SUBSET t |-> h[s]]
        BY DEF h
      <3> QED
        BY <2>2, <3>1 DEF Sums
    <2>4. Sums(Table(f, t), f, t)
      <3> HIDE DEF h
      <3> QED
        BY <2>3 DEF Table
    <2> QED
      BY <2>4
  <1>2. SUBSET S \subseteq Good
    <2> HIDE DEF Good
    <2> QED
      BY <1>1, SubsetsAll
  <1> QED
    BY <1>2

LEMMA SumUnfolds ==
  ASSUME NEW f, NEW S, IsFiniteSet(S)
  PROVE  /\ S = {} => Sum(f, S) = 0
         /\ S # {} => Sum(f, S) = f[Pick(S)] + Sum(f, Rest(S))
  <1>1. Sums(Table(f, S), f, S)
    BY SumsExist
  <1>2. Sum(f, S) = SumBody(Table(f, S), f, S)
    BY <1>1 DEF Sum, Sums
  <1>3. ASSUME S # {} PROVE Table(f, S)[Rest(S)] = Sum(f, Rest(S))
    <2>1. Rest(S) \in SUBSET S
      BY <1>3, RestSmaller
    <2>2. IsFiniteSet(Rest(S))
      BY <2>1, FS_Subset
    <2>3. Sums(Table(f, Rest(S)), f, Rest(S))
      BY <2>2, SumsExist
    <2> QED
      BY <1>1, <2>1, <2>3, SumsAgree DEF Sum
  <1> QED
    BY <1>2, <1>3 DEF SumBody

\* Sums of integers are integers, of naturals naturals.
LEMMA SumType ==
  ASSUME NEW S, IsFiniteSet(S), NEW f
  PROVE  /\ (\A x \in S : f[x] \in Int) => Sum(f, S) \in Int
         /\ (\A x \in S : f[x] \in Nat) => Sum(f, S) \in Nat
  <1>1. ASSUME NEW N, N = Int \/ N = Nat, \A x \in S : f[x] \in N
        PROVE  Sum(f, S) \in N
    <2> DEFINE Good == {s \in SUBSET S : Sum(f, s) \in N}
    <2>1. ASSUME NEW t \in SUBSET S, \A u \in SUBSET t : u # t => u \in Good
          PROVE  t \in Good
      <3>1. IsFiniteSet(t)
        BY FS_Subset
      <3>2. CASE t = {}
        BY <3>1, <3>2, <1>1, SumUnfolds
      <3>3. CASE t # {}
        <4>1. Sum(f, Rest(t)) \in N /\ f[Pick(t)] \in N
          BY <1>1, <2>1, <3>3, RestSmaller
        <4> QED
          BY <3>1, <3>3, <4>1, <1>1, SumUnfolds
      <3> QED
        BY <3>2, <3>3
    <2>2. SUBSET S \subseteq Good
      <3> HIDE DEF Good
      <3> QED
        BY <2>1, SubsetsAll
    <2> QED
      BY <2>2
  <1> QED
    BY <1>1

\* The sum is linear.
LEMMA SumLinear ==
  ASSUME NEW S, IsFiniteSet(S), NEW f, NEW g, NEW k, NEW a \in Int,
         \A x \in S : f[x] \in Int /\ g[x] \in Int /\ k[x] \in Int,
         \A x \in S : f[x] = g[x] * a + k[x]
  PROVE  Sum(f, S) = Sum(g, S) * a + Sum(k, S)
  <1> DEFINE Good == {s \in SUBSET S : Sum(f, s) = Sum(g, s) * a + Sum(k, s)}
  <1>1. ASSUME NEW t \in SUBSET S, \A u \in SUBSET t : u # t => u \in Good
        PROVE  t \in Good
    <2>1. IsFiniteSet(t)
      BY FS_Subset
    <2>2. CASE t = {}
      <3>1. Sum(f, t) = 0 /\ Sum(g, t) = 0 /\ Sum(k, t) = 0
        BY <2>1, <2>2, SumUnfolds
      <3> QED
        BY <3>1
    <2>3. CASE t # {}
      <3> DEFINE p == Pick(t)
                 r == Rest(t)
      <3>1. p \in S /\ r \in SUBSET S /\ IsFiniteSet(r)
        BY <2>1, <2>3, RestSmaller, FS_Subset
      <3>2. Sum(f, r) = Sum(g, r) * a + Sum(k, r)
        BY <1>1, <2>3, RestSmaller
      <3>3. Sum(g, r) \in Int /\ Sum(k, r) \in Int /\ g[p] \in Int /\ k[p] \in Int
        BY <3>1, SumType
      <3>4. /\ Sum(f, t) = f[p] + Sum(f, r)
            /\ Sum(g, t) = g[p] + Sum(g, r)
            /\ Sum(k, t) = k[p] + Sum(k, r)
        BY <2>1, <2>3, SumUnfolds
      <3>5. f[p] = g[p] * a + k[p]
        BY <3>1
      <3>6. \A b, c, d, e \in Int : (b * a + c) + (d * a + e) = (b + d) * a + (c + e)
        OBVIOUS
      <3> HIDE DEF p, r
      <3> QED
        BY <3>2, <3>3, <3>4, <3>5, <3>6
    <2> QED
      BY <2>2, <2>3
  <1>2. SUBSET S \subseteq Good
    <2> HIDE DEF Good
    <2> QED
      BY <1>1, SubsetsAll
  <1> QED
    BY <1>2

\* A sum of no larger values is no larger.
LEMMA SumMonotone ==
  ASSUME NEW S, IsFiniteSet(S), NEW f, NEW g,
         \A x \in S : f[x] \in Int /\ g[x] \in Int /\ f[x] <= g[x]
  PROVE  Sum(f, S) <= Sum(g, S)
  <1> DEFINE d == [x \in S |-> g[x] - f[x]]
             h == [x \in S |-> f[x]]
  <1>1. \A x \in S : d[x] \in Nat /\ d[x] \in Int
    OBVIOUS
  <1>2. \A x \in S : g[x] = f[x] * 1 + d[x]
    OBVIOUS
  <1> HIDE DEF d
  <1>3. Sum(g, S) = Sum(f, S) * 1 + Sum(d, S)
    BY <1>1, <1>2, SumLinear
  <1>4. Sum(d, S) \in Nat /\ Sum(f, S) \in Int /\ Sum(g, S) \in Int
    BY <1>1, SumType
  <1> QED
    BY <1>3, <1>4

\* The sum of a characteristic function counts.
LEMMA SumCounts ==
  ASSUME NEW S, IsFiniteSet(S), NEW C, NEW f,
         \A x \in S : f[x] = IF x \in C THEN 1 ELSE 0
  PROVE  Sum(f, S) = Cardinality(S \cap C)
  <1> DEFINE Good == {s \in SUBSET S : Sum(f, s) = Cardinality(s \cap C)}
  <1>1. ASSUME NEW t \in SUBSET S, \A u \in SUBSET t : u # t => u \in Good
        PROVE  t \in Good
    <2>1. IsFiniteSet(t)
      BY FS_Subset
    <2>2. CASE t = {}
      <3>1. t \cap C = {}
        BY <2>2
      <3> QED
        BY <2>1, <2>2, <3>1, SumUnfolds, FS_EmptySet
    <2>3. CASE t # {}
      <3> DEFINE p == Pick(t)
                 r == Rest(t)
      <3>1. p \in t /\ p \in S /\ r \in SUBSET S
        BY <2>3, RestSmaller
      <3>2. Sum(f, r) = Cardinality(r \cap C)
        BY <1>1, <2>3, RestSmaller
      <3>3. Sum(f, t) = f[p] + Sum(f, r)
        BY <2>1, <2>3, SumUnfolds
      <3>4. r \cap C = (t \cap C) \ {p}
        BY DEF Rest
      <3>5. IsFiniteSet(t \cap C) /\ Cardinality(t \cap C) \in Nat
        BY <2>1, FS_Intersection, FS_CardinalityType
      <3>6. Cardinality(r \cap C) =
              IF p \in t \cap C THEN Cardinality(t \cap C) - 1 ELSE Cardinality(t \cap C)
        BY <3>4, <3>5, FS_RemoveElement
      <3>7. f[p] = IF p \in t \cap C THEN 1 ELSE 0
        BY <3>1
      <3> HIDE DEF p, r
      <3> QED
        BY <3>2, <3>3, <3>5, <3>6, <3>7
    <2> QED
      BY <2>2, <2>3
  <1>2. SUBSET S \subseteq Good
    <2> HIDE DEF Good
    <2> QED
      BY <1>1, SubsetsAll
  <1> QED
    BY <1>2

LEMMA SumZero ==
  ASSUME NEW S, IsFiniteSet(S), NEW f, \A x \in S : f[x] = 0
  PROVE  Sum(f, S) = 0
  <1>1. Sum(f, S) = Cardinality(S \cap {})
    <2>1. \A x \in S : f[x] = IF x \in {} THEN 1 ELSE 0
      OBVIOUS
    <2> QED
      BY <2>1, SumCounts
  <1>2. S \cap {} = {}
    OBVIOUS
  <1> QED
    BY <1>1, <1>2, FS_EmptySet

\* A sum of naturals is positive when one of them is.
LEMMA SumPositive ==
  ASSUME NEW S, IsFiniteSet(S), NEW f, \A x \in S : f[x] \in Nat,
         NEW y \in S, f[y] > 0
  PROVE  Sum(f, S) \in Nat /\ Sum(f, S) > 0
  <1> DEFINE c == [x \in S |-> IF x \in {y} THEN 1 ELSE 0]
  <1>1. Sum(c, S) = Cardinality(S \cap {y})
    <2>1. \A x \in S : c[x] = IF x \in {y} THEN 1 ELSE 0
      OBVIOUS
    <2> HIDE DEF c
    <2> QED
      BY <2>1, SumCounts
  <1>2. S \cap {y} = {y}
    OBVIOUS
  <1>3. \A x \in S : c[x] \in Int /\ f[x] \in Int /\ c[x] <= f[x]
    OBVIOUS
  <1>4. Sum(c, S) <= Sum(f, S)
    <2> HIDE DEF c
    <2> QED
      BY <1>3, SumMonotone
  <1>5. Sum(f, S) \in Nat
    BY SumType
  <1>6. Cardinality({y}) = 1
    BY FS_Singleton
  <1> HIDE DEF c
  <1> QED
    BY <1>1, <1>2, <1>4, <1>5, <1>6

-----------------------------------------------------------------------------
(***************************************************************************)
(* Quotas and ranks.                                                       *)
(***************************************************************************)
USE ColocateAssumption

\* The configuration gives some task a positive weight.
Weighted == weight \in [Tasks -> Nat] /\ \E t \in Tasks : weight[t] > 0

\* Quotient and remainder.
LEMMA Division ==
  ASSUME NEW n \in Nat, NEW d \in Nat \ {0}
  PROVE  /\ n \div d \in Nat /\ n % d \in 0 .. d - 1
         /\ n = d * (n \div d) + (n % d)
  OBVIOUS

LEMMA TasksFinite == IsFiniteSet(Tasks) /\ Cardinality(Tasks) = NumTasks
  BY FS_Interval DEF Tasks

LEMMA WeightPositive ==
  ASSUME Weighted
  PROVE  TotalWeight = Sum(weight, Tasks) /\ TotalWeight \in Nat \ {0}
  <1>1. DOMAIN weight = Tasks /\ \A t \in Tasks : weight[t] \in Nat
    BY DEF Weighted
  <1>2. PICK t \in Tasks : weight[t] > 0
    BY DEF Weighted
  <1>3. TotalWeight = Sum(weight, Tasks)
    BY <1>1, FoldIsSum DEF TotalWeight
  <1>4. Sum(weight, Tasks) \in Nat /\ Sum(weight, Tasks) > 0
    BY <1>1, <1>2, TasksFinite, SumPositive
  <1> QED
    BY <1>3, <1>4

LEMMA Quota ==
  ASSUME Weighted, NEW t \in Tasks
  PROVE  /\ Floor(t) \in Nat /\ Remainder(t) \in 0 .. TotalWeight - 1
         /\ BatchSize * weight[t] = TotalWeight * Floor(t) + Remainder(t)
  <1>1. BatchSize * weight[t] \in Nat
    <2>1. weight[t] \in Nat
      BY DEF Weighted
    <2> QED
      BY <2>1
  <1> QED
    BY <1>1, WeightPositive, Division DEF Floor, Remainder

\* Two tasks are never equal in rank, and the ranks count up from 0.
Rank(t) == Cardinality(RankedBefore(t))

LEMMA BeforeFinite ==
  ASSUME Weighted, NEW t \in Tasks
  PROVE  /\ IsFiniteSet(RankedBefore(t)) /\ Rank(t) \in 0 .. NumTasks - 1
         /\ t \notin RankedBefore(t) /\ RankedBefore(t) \subseteq Tasks
  <1>1. t \notin RankedBefore(t)
    <2>1. Remainder(t) \in Int /\ t \in Int
      BY Quota, WeightPositive DEF Tasks
    <2> QED
      BY <2>1 DEF RankedBefore
  <1>2. RankedBefore(t) \in SUBSET Tasks /\ RankedBefore(t) # Tasks
    BY <1>1 DEF RankedBefore
  <1>3. /\ IsFiniteSet(RankedBefore(t))
        /\ Rank(t) <= NumTasks /\ Rank(t) # NumTasks
    BY <1>2, TasksFinite, FS_Subset DEF Rank
  <1>4. Rank(t) \in Nat
    BY <1>3, FS_CardinalityType DEF Rank
  <1> QED
    BY <1>1, <1>2, <1>3, <1>4

LEMMA RankOrder ==
  ASSUME Weighted, NEW t \in Tasks, NEW u \in RankedBefore(t)
  PROVE  u \in Tasks /\ Rank(u) < Rank(t)
  <1>1. /\ u \in Tasks /\ \A v \in Tasks : Remainder(v) \in Int
        /\ Remainder(u) > Remainder(t) \/ (Remainder(u) = Remainder(t) /\ u < t)
    BY Quota, WeightPositive DEF RankedBefore
  <1>2. \A v \in Tasks : v \in Int
    BY DEF Tasks
  <1>3. RankedBefore(u) \in SUBSET RankedBefore(t)
    BY <1>1, <1>2 DEF RankedBefore
  <1>4. RankedBefore(u) # RankedBefore(t)
    BY <1>1, BeforeFinite
  <1>5. Rank(u) <= Rank(t) /\ Rank(u) # Rank(t)
    BY <1>3, <1>4, BeforeFinite, FS_Subset DEF Rank
  <1>6. Rank(u) \in Int /\ Rank(t) \in Int
    BY <1>1, BeforeFinite
  <1> QED
    BY <1>1, <1>5, <1>6

LEMMA RankInjective ==
  ASSUME Weighted, NEW t \in Tasks, NEW u \in Tasks, t # u
  PROVE  Rank(t) # Rank(u)
  <1>1. /\ Remainder(t) \in Int /\ Remainder(u) \in Int /\ t \in Int /\ u \in Int
    BY Quota, WeightPositive DEF Tasks
  <1>2. t \in RankedBefore(u) \/ u \in RankedBefore(t)
    BY <1>1 DEF RankedBefore
  <1>3. Rank(t) \in Int /\ Rank(u) \in Int
    BY BeforeFinite
  <1> QED
    BY <1>2, <1>3, RankOrder

\* As many tasks are among the first n as there can be.
First(n) == {t \in Tasks : Rank(t) < n}

LEMMA FirstCount ==
  ASSUME Weighted, NEW n \in 0 .. NumTasks
  PROVE  IsFiniteSet(First(n)) /\ Cardinality(First(n)) = n
  <1> DEFINE all  == [t \in Tasks |-> Rank(t)]
             some == [t \in First(n) |-> Rank(t)]
             A    == 0 .. NumTasks - 1
             B    == 0 .. n - 1
  <1>1. all \in Injection(Tasks, A)
    <2>1. all \in [Tasks -> A]
      BY BeforeFinite
    <2>2. \A t, u \in Tasks : all[t] = all[u] => t = u
      BY RankInjective
    <2> HIDE DEF all
    <2>3. DOMAIN all = Tasks
      BY <2>1
    <2> QED
      BY <2>1, <2>2, <2>3 DEF Injection, IsInjective
  <1>2. IsFiniteSet(A) /\ Cardinality(A) = NumTasks
    BY FS_Interval
  <1>3. all \in Surjection(Tasks, A)
    <2> HIDE DEF all, A
    <2> QED
      BY <1>1, <1>2, TasksFinite, FS_Injection
  <1>4. some \in Bijection(First(n), B)
    <2>1. some \in [First(n) -> B]
      BY BeforeFinite DEF First
    <2>2. \A t, u \in First(n) : some[t] = some[u] => t = u
      BY RankInjective DEF First
    <2>3. \A b \in B : \E t \in First(n) : some[t] = b
      <3> TAKE b \in B
      <3>1. b \in A
        BY DEF A, B
      <3>2. PICK t \in Tasks : all[t] = b
        <4> HIDE DEF all, A, B
        <4> QED
          BY <1>3, <3>1 DEF Surjection
      <3>3. t \in First(n)
        BY <3>2, BeforeFinite DEF First
      <3> QED
        BY <3>2, <3>3
    <2> HIDE DEF some, B
    <2>4. DOMAIN some = First(n)
      BY <2>1
    <2> QED
      BY <2>1, <2>2, <2>3, <2>4 DEF Bijection, Injection, Surjection, IsInjective
  <1>5. IsFiniteSet(First(n))
    BY TasksFinite, FS_Subset DEF First
  <1>6. ExistsBijection(First(n), B)
    BY <1>4 DEF ExistsBijection
  <1>7. Cardinality(B) = Cardinality(First(n))
    <2> HIDE DEF B
    <2> QED
      BY <1>5, <1>6, FS_Bijection
  <1>8. Cardinality(B) = n
    BY FS_Interval
  <1> QED
    BY <1>5, <1>7, <1>8

-----------------------------------------------------------------------------
(***************************************************************************)
(* What the floors leave over.                                             *)
(***************************************************************************)
Floors     == [t \in Tasks |-> Floor(t)]
Remainders == [t \in Tasks |-> Remainder(t)]

\* The tasks whose quota is not whole.
Fractional == {t \in Tasks : Remainder(t) > 0}

LEMMA RemainingIs ==
  ASSUME Weighted
  PROVE  /\ Sum(Floors, Tasks) \in Nat /\ Remaining = BatchSize - Sum(Floors, Tasks)
         /\ Remaining \in Int /\ Remaining * TotalWeight = Sum(Remainders, Tasks)
  <1> DEFINE f == [t \in Tasks |-> BatchSize * weight[t]]
             z == [t \in Tasks |-> 0]
  <1>1. \A t \in Tasks : weight[t] \in Nat /\ Floor(t) \in Nat /\ Remainder(t) \in Int
    BY Quota, WeightPositive DEF Weighted
  <1>2. /\ \A t \in Tasks : Floors[t] \in Nat /\ Floors[t] \in Int
        /\ \A t \in Tasks : Remainders[t] \in Int
    BY <1>1 DEF Floors, Remainders
  <1>3. \A t \in Tasks : f[t] \in Int /\ z[t] \in Int /\ weight[t] \in Int
    BY <1>1
  <1>4. Remaining = BatchSize - Sum(Floors, Tasks)
    <2>1. DOMAIN Floors = Tasks
      BY DEF Floors
    <2>2. Remaining = BatchSize - FoldFunction(+, 0, Floors)
      BY DEF Remaining, Floors
    <2> QED
      BY <2>1, <2>2, FoldIsSum
  <1>5. \A t \in Tasks : f[t] = weight[t] * BatchSize + z[t]
    BY <1>1
  <1>6. \A t \in Tasks : f[t] = Floors[t] * TotalWeight + Remainders[t]
    <2> TAKE t \in Tasks
    <2>1. BatchSize * weight[t] = TotalWeight * Floor(t) + Remainder(t)
      BY Quota
    <2>2. TotalWeight * Floor(t) = Floor(t) * TotalWeight
      BY <1>1, WeightPositive
    <2> QED
      BY <2>1, <2>2 DEF Floors, Remainders
  <1>7. Sum(z, Tasks) = 0
    BY TasksFinite, SumZero
  <1> HIDE DEF f, z
  <1>8. Sum(f, Tasks) = Sum(weight, Tasks) * BatchSize + Sum(z, Tasks)
    BY <1>3, <1>5, TasksFinite, SumLinear
  <1>9. Sum(f, Tasks) = Sum(Floors, Tasks) * TotalWeight + Sum(Remainders, Tasks)
    BY <1>2, <1>3, <1>6, TasksFinite, SumLinear, WeightPositive
  <1>10. Sum(Floors, Tasks) \in Nat /\ Sum(Remainders, Tasks) \in Int
    BY <1>2, TasksFinite, SumType
  <1>11. TotalWeight * BatchSize =
           Sum(Floors, Tasks) * TotalWeight + Sum(Remainders, Tasks)
    BY <1>7, <1>8, <1>9, WeightPositive
  <1>12. \A a, b, c \in Int : (a - b) * c = c * a - b * c
    OBVIOUS
  <1>13. Remaining * TotalWeight
          = TotalWeight * BatchSize - Sum(Floors, Tasks) * TotalWeight
    BY <1>4, <1>10, <1>12, WeightPositive
  <1>14. Remaining \in Int /\ Remaining * TotalWeight \in Int
         /\ Sum(Floors, Tasks) * TotalWeight \in Int
    BY <1>4, <1>10, WeightPositive
  <1> QED
    BY <1>4, <1>10, <1>11, <1>13, <1>14

\* No more is left over than there are tasks with a quota that is not whole.
LEMMA RemainingBound ==
  ASSUME Weighted
  PROVE  /\ IsFiniteSet(Fractional) /\ Fractional \subseteq Tasks
         /\ Remaining \in 0 .. Cardinality(Fractional) /\ Remaining \in 0 .. NumTasks
  <1> DEFINE c == [t \in Tasks |-> IF t \in Fractional THEN 1 ELSE 0]
             f == [t \in Tasks |-> c[t] * TotalWeight]
             z == [t \in Tasks |-> 0]
             P == Cardinality(Fractional)
  <1>1. \A t \in Tasks : Remainder(t) \in 0 .. TotalWeight - 1
    BY Quota
  <1>2. /\ \A t \in Tasks : Remainders[t] \in Nat /\ Remainders[t] \in Int
        /\ \A t \in Tasks : f[t] \in Int /\ Remainders[t] <= f[t]
    <2> SUFFICES ASSUME NEW t \in Tasks
                 PROVE  /\ Remainders[t] \in Nat /\ f[t] \in Int
                        /\ Remainders[t] <= f[t]
      OBVIOUS
    <2>1. Remainders[t] = Remainder(t)
      BY DEF Remainders
    <2>2. f[t] = IF Remainder(t) > 0 THEN TotalWeight ELSE 0
      BY WeightPositive DEF Fractional
    <2> QED
      BY <1>1, <2>1, <2>2, WeightPositive
  <1>3. \A t \in Tasks : c[t] \in Int /\ z[t] \in Int /\ f[t] = c[t] * TotalWeight + z[t]
    BY WeightPositive
  <1>4. Sum(c, Tasks) = Cardinality(Tasks \cap Fractional)
    <2>1. \A t \in Tasks : c[t] = IF t \in Fractional THEN 1 ELSE 0
      OBVIOUS
    <2> HIDE DEF c
    <2> QED
      BY <2>1, TasksFinite, SumCounts
  <1>5. Sum(z, Tasks) = 0
    BY TasksFinite, SumZero
  <1>6. /\ IsFiniteSet(Fractional) /\ Fractional \subseteq Tasks
        /\ P \in Nat /\ P <= NumTasks
    BY TasksFinite, FS_Subset, FS_CardinalityType DEF Fractional
  <1>7. Tasks \cap Fractional = Fractional
    BY <1>6
  <1> HIDE DEF c, f, z
  <1>A. Sum(c, Tasks) = P
    BY <1>4, <1>7
  <1> HIDE DEF P
  <1>8. Sum(f, Tasks) = Sum(c, Tasks) * TotalWeight + Sum(z, Tasks)
    BY <1>2, <1>3, TasksFinite, SumLinear, WeightPositive
  <1>9. Sum(Remainders, Tasks) <= Sum(f, Tasks)
    BY <1>2, TasksFinite, SumMonotone
  <1>10. Sum(Remainders, Tasks) \in Nat
    BY <1>2, TasksFinite, SumType
  <1>11. Sum(f, Tasks) = P * TotalWeight
    BY <1>5, <1>6, <1>A, <1>8, WeightPositive
  <1>12. Remaining * TotalWeight >= 0 /\ Remaining * TotalWeight <= P * TotalWeight
    BY <1>9, <1>10, <1>11, RemainingIs
  <1>13. \A n, m \in Int, w \in Nat \ {0} : n * w <= m * w => n <= m
    OBVIOUS
  <1>14. Remaining <= P
    BY <1>6, <1>12, <1>13, RemainingIs, WeightPositive
  <1>15. 0 <= Remaining
    <2>1. 0 * TotalWeight = 0
      BY WeightPositive
    <2> QED
      BY <1>12, <1>13, <2>1, RemainingIs, WeightPositive
  <1> QED
    BY <1>6, <1>14, <1>15, RemainingIs DEF P

LEMMA ShareIs ==
  ASSUME Weighted, NumTasks > 1, NEW t \in Tasks
  PROVE  /\ TaskBatchSize(t) = Floor(t) + IF t \in First(Remaining) THEN 1 ELSE 0
         /\ TaskBatchSize(t) \in Nat
  <1>1. Floor(t) \in Nat
    BY Quota
  <1> QED
    BY <1>1 DEF TaskBatchSize, First, Rank

LEMMA SharesSum ==
  ASSUME Weighted, NumTasks > 1
  PROVE  FoldFunction(+, 0, [t \in Tasks |-> TaskBatchSize(t)]) = BatchSize
  <1> DEFINE c == [t \in Tasks |-> IF t \in First(Remaining) THEN 1 ELSE 0]
             f == [t \in Tasks |-> TaskBatchSize(t)]
  <1>1. \A t \in Tasks : c[t] \in Int /\ f[t] \in Int /\ Floors[t] \in Int
    BY Quota, ShareIs DEF Floors
  <1>2. \A t \in Tasks : f[t] = Floors[t] * 1 + c[t]
    BY Quota, ShareIs DEF Floors
  <1>3. Sum(c, Tasks) = Cardinality(Tasks \cap First(Remaining))
    <2>1. \A t \in Tasks : c[t] = IF t \in First(Remaining) THEN 1 ELSE 0
      OBVIOUS
    <2> HIDE DEF c
    <2> QED
      BY <2>1, TasksFinite, SumCounts
  <1>4. Cardinality(First(Remaining)) = Remaining /\ Tasks \cap First(Remaining) = First(Remaining)
    <2>1. First(Remaining) \subseteq Tasks
      BY DEF First
    <2> QED
      BY <2>1, FirstCount, RemainingBound
  <1>5. DOMAIN f = Tasks
    OBVIOUS
  <1> HIDE DEF c, f
  <1>6. Sum(f, Tasks) = Sum(Floors, Tasks) * 1 + Sum(c, Tasks)
    BY <1>1, <1>2, TasksFinite, SumLinear
  <1>A. Sum(c, Tasks) = Remaining
    BY <1>3, <1>4
  <1>7. Sum(f, Tasks) = BatchSize
    BY <1>6, <1>A, RemainingIs
  <1>8. FoldFunction(+, 0, f) = BatchSize
    BY <1>5, <1>7, FoldIsSum
  <1> QED
    BY <1>8 DEF f

\* What is left over goes to tasks with a quota that is not whole: they come first.
LEMMA OnlyFractional ==
  ASSUME Weighted, NEW t \in First(Remaining)
  PROVE  Remainder(t) > 0
  <1>1. t \in Tasks /\ Rank(t) < Remaining
    BY DEF First
  <1> SUFFICES ASSUME ~ (Remainder(t) > 0) PROVE FALSE
    OBVIOUS
  <1>2. Fractional \in SUBSET RankedBefore(t)
    <2>1. \A u \in Tasks : Remainder(u) \in Nat
      BY Quota, WeightPositive
    <2> QED
      BY <1>1, <2>1 DEF Fractional, RankedBefore
  <1>3. Cardinality(Fractional) <= Rank(t)
    BY <1>1, <1>2, BeforeFinite, FS_Subset DEF Rank
  <1>4. Rank(t) \in Int /\ Cardinality(Fractional) \in Int
    BY <1>1, BeforeFinite, RemainingBound, FS_CardinalityType
  <1> QED
    BY <1>1, <1>3, <1>4, RemainingBound

\* Within one group of the quota.
LEMMA NearQuota ==
  ASSUME Weighted, NumTasks > 1, NEW t \in Tasks
  PROVE  /\ TaskBatchSize(t) * TotalWeight > BatchSize * weight[t] - TotalWeight
         /\ TaskBatchSize(t) * TotalWeight < BatchSize * weight[t] + TotalWeight
  <1> DEFINE b == IF t \in First(Remaining) THEN 1 ELSE 0
  <1>1. /\ Floor(t) \in Nat /\ Remainder(t) \in 0 .. TotalWeight - 1
        /\ BatchSize * weight[t] = TotalWeight * Floor(t) + Remainder(t)
    BY Quota
  <1>2. TaskBatchSize(t) = Floor(t) + b /\ b \in {0, 1}
    BY ShareIs
  <1>3. b = 1 => Remainder(t) > 0
    BY OnlyFractional
  <1>4. TotalWeight \in Nat \ {0}
    BY WeightPositive
  <1>5. TaskBatchSize(t) * TotalWeight = TotalWeight * Floor(t) + b * TotalWeight
    <2>1. \A x, y, w \in Int : (x + y) * w = w * x + y * w
      OBVIOUS
    <2> QED
      BY <1>1, <1>2, <1>4, <2>1
  <1>6. b * TotalWeight = IF b = 1 THEN TotalWeight ELSE 0
    BY <1>2, <1>4
  <1>7. TotalWeight * Floor(t) \in Int
    BY <1>1, <1>4
  <1> HIDE DEF b
  <1> QED
    BY <1>1, <1>2, <1>3, <1>4, <1>5, <1>6, <1>7

\* A task of weight zero gets nothing, and a heavier one never less.
LEMMA ZeroShare ==
  ASSUME Weighted, NumTasks > 1, NEW t \in Tasks, weight[t] = 0
  PROVE  TaskBatchSize(t) = 0
  <1>1. /\ Floor(t) \in Nat /\ Remainder(t) \in Nat
        /\ TotalWeight * Floor(t) + Remainder(t) = 0
    BY Quota, WeightPositive
  <1>2. Floor(t) = 0 /\ Remainder(t) = 0
    <2>1. \A q, r \in Nat, w \in Nat \ {0} : w * q + r = 0 => q = 0 /\ r = 0
      <3> SUFFICES ASSUME NEW q \in Nat, NEW r \in Nat, NEW w \in Nat \ {0},
                          w * q + r = 0, q # 0
                   PROVE  FALSE
        OBVIOUS
      <3>1. w * q >= w
        OBVIOUS
      <3> QED
        BY <3>1
    <2> QED
      BY <1>1, <2>1, WeightPositive
  <1>3. t \notin First(Remaining)
    BY <1>2, OnlyFractional
  <1> QED
    BY <1>2, <1>3, ShareIs

LEMMA HeavierShare ==
  ASSUME Weighted, NumTasks > 1, NEW t \in Tasks, NEW u \in Tasks, weight[u] > weight[t]
  PROVE  TaskBatchSize(u) >= TaskBatchSize(t)
  <1> DEFINE W == TotalWeight
             ft == Floor(t)  fu == Floor(u)
             rt == Remainder(t)  ru == Remainder(u)
  <1>1. /\ ft \in Nat /\ rt \in 0 .. W - 1 /\ fu \in Nat /\ ru \in 0 .. W - 1
        /\ W \in Nat \ {0}
        /\ BatchSize * weight[t] = W * ft + rt
        /\ BatchSize * weight[u] = W * fu + ru
    BY Quota, WeightPositive
  <1>2. BatchSize * weight[t] < BatchSize * weight[u]
    <2>1. weight[t] \in Nat /\ weight[u] \in Nat
      BY DEF Weighted
    <2> QED
      BY <2>1
  <1>3. W * ft + rt < W * fu + ru
    BY <1>1, <1>2
  <1>4. /\ TaskBatchSize(t) = ft + IF t \in First(Remaining) THEN 1 ELSE 0
        /\ TaskBatchSize(u) = fu + IF u \in First(Remaining) THEN 1 ELSE 0
    BY ShareIs
  <1>5. CASE fu = ft
    <2>1. ru > rt
      <3>1. W * ft \in Int
        BY <1>1
      <3> HIDE DEF W, ft, fu, rt, ru
      <3> QED
        BY <1>1, <1>3, <1>5, <3>1
    <2>2. u \in RankedBefore(t)
      BY <2>1 DEF RankedBefore
    <2>3. t \in First(Remaining) => u \in First(Remaining)
      <3>1. Rank(u) < Rank(t) /\ Rank(u) \in Int /\ Rank(t) \in Int /\ Remaining \in Int
        BY <2>2, RankOrder, BeforeFinite, RemainingIs
      <3> QED
        BY <3>1 DEF First
    <2> QED
      BY <1>1, <1>4, <1>5, <2>3
  <1>6. CASE fu # ft
    <2>1. fu > ft
      <3> HIDE DEF W, ft, fu, rt, ru
      <3> SUFFICES ASSUME ft >= fu + 1 PROVE FALSE
        BY <1>1, <1>6
      <3>1. W * ft >= W * (fu + 1)
        BY <1>1
      <3>2. W * (fu + 1) = W * fu + W /\ W * fu \in Int /\ W * ft \in Int
        BY <1>1
      <3> QED
        BY <1>1, <1>3, <3>1, <3>2
    <2> QED
      BY <1>1, <1>4, <2>1
  <1> QED
    BY <1>5, <1>6

\* get_task_batch_sizes is fair for every configuration of weights.
LEMMA SharesAreFair ==
  ASSUME Weighted
  PROVE  FairShare
  BY SharesSum, NearQuota, ZeroShare, HeavierShare DEF FairShare

\* The share of a task is a part of the batch, also when there is one task only.
LEMMA ShareBound ==
  ASSUME Weighted, NEW t \in Tasks
  PROVE  TaskBatchSize(t) \in 0 .. BatchSize
  <1>1. CASE NumTasks = 1
    BY <1>1 DEF TaskBatchSize
  <1>2. CASE NumTasks > 1
    <2> DEFINE f == [u \in Tasks |-> TaskBatchSize(u)]
               c == [u \in Tasks |-> IF u \in {t} THEN TaskBatchSize(t) ELSE 0]
               one == [u \in Tasks |-> IF u \in {t} THEN 1 ELSE 0]
               z == [u \in Tasks |-> 0]
    <2>1. /\ \A u \in Tasks : f[u] \in Int /\ c[u] \in Int /\ c[u] <= f[u]
          /\ \A u \in Tasks : one[u] \in Int /\ z[u] \in Int
          /\ \A u \in Tasks : c[u] = one[u] * TaskBatchSize(t) + z[u]
          /\ TaskBatchSize(t) \in Nat
      <3>1. \A u \in Tasks : TaskBatchSize(u) \in Nat
        BY <1>2, ShareIs
      <3> QED
        BY <3>1
    <2>2. Sum(one, Tasks) = 1
      <3>1. \A u \in Tasks : one[u] = IF u \in {t} THEN 1 ELSE 0
        OBVIOUS
      <3>2. Tasks \cap {t} = {t} /\ Cardinality({t}) = 1
        BY FS_Singleton
      <3> HIDE DEF one
      <3>3. Sum(one, Tasks) = Cardinality(Tasks \cap {t})
        BY <3>1, TasksFinite, SumCounts
      <3> QED
        BY <3>2, <3>3
    <2>3. Sum(z, Tasks) = 0
      BY TasksFinite, SumZero
    <2>4. Sum(f, Tasks) = BatchSize
      <3>1. FoldFunction(+, 0, f) = BatchSize /\ DOMAIN f = Tasks
        BY <1>2, SharesSum
      <3> HIDE DEF f
      <3> QED
        BY <3>1, FoldIsSum
    <2> HIDE DEF f, c, one, z
    <2>5. Sum(c, Tasks) = Sum(one, Tasks) * TaskBatchSize(t) + Sum(z, Tasks)
      BY <2>1, TasksFinite, SumLinear
    <2>6. Sum(c, Tasks) <= Sum(f, Tasks)
      BY <2>1, TasksFinite, SumMonotone
    <2>7. Sum(c, Tasks) = TaskBatchSize(t)
      BY <2>1, <2>2, <2>3, <2>5
    <2> QED
      BY <2>1, <2>4, <2>6, <2>7
  <1> QED
    BY <1>1, <1>2

-----------------------------------------------------------------------------
\* No step changes the configuration.
LEMMA WeightedAlways == Spec => []Weighted
  <1>1. Init => Weighted
    BY DEF Init, Weighted
  <1>2. Weighted /\ [Next]_vars => Weighted'
    <2> SUFFICES ASSUME Weighted, [Next]_vars PROVE weight' = weight
      BY DEF Weighted
    <2> QED
      BY DEF Next, Progress, Produce, Save, Restart, StartBatch, CollectResults, TakeBatch,
             TrainOneBatch, SaveLoaders, SaveBuffer, SaveManagerState, SaveWeights,
             SaveTrainState, Writes, ListAndPrune, OpenMeta, WriteMeta, SyncWeights,
             Crash, StartOver, Resume, StopTraining, Terminated, vars, loopVars,
             budgetVars
  <1> QED
    BY <1>1, <1>2, PTL DEF Spec

\* However many tasks share a batch and whatever their weights are, the shares
\* sum to train_batch_size, each is within one group of its quota, a weight of
\* zero gets none and a heavier task never less (get_task_batch_sizes).
THEOREM SharesFair == Spec => []FairShare
  BY WeightedAlways, SharesAreFair, PTL
=============================================================================
