------------------------ MODULE ColocatedData_proofs ------------------------
(***************************************************************************)
(* Machine-checked proofs about the data of the colocated trainer: what a  *)
(* step draws, where each group is, what a checkpoint holds and what a     *)
(* restart brings back.                                                    *)
(***************************************************************************)
EXTENDS ColocatedTraining_proofs

USE ColocateAssumption

-----------------------------------------------------------------------------
(***************************************************************************)
(* Draws.  A group is numbered by its place in the sequence of all draws   *)
(* of all epochs; a loader stands before the next one.                     *)
(***************************************************************************)
AllDraws == Nat \X (0 .. DatasetSize - 1)
Loaders  == [epoch : Nat, pos : 0 .. DatasetSize, total : Nat]

Index(g) == g[1] * DatasetSize + g[2]
Place(l) == l.epoch * DatasetSize + l.pos

\* The i-th draw from here.
Draw(l, i) == <<l.epoch + (l.pos + i) \div DatasetSize, (l.pos + i) % DatasetSize>>

LEMMA PlaceType ==
  /\ \A l \in Loaders : Place(l) \in Nat
  /\ \A g \in AllDraws : Index(g) \in Nat /\ g[1] <= Index(g)
  <1>1. \A a, b \in Nat : a * DatasetSize + b \in Nat /\ a <= a * DatasetSize + b
    <2> SUFFICES ASSUME NEW a \in Nat, NEW b \in Nat
                 PROVE  a * DatasetSize + b \in Nat /\ a <= a * DatasetSize + b
      OBVIOUS
    <2>1. a * DatasetSize \in Nat /\ a * DatasetSize >= a
      OBVIOUS
    <2> QED
      BY <2>1
  <1> QED
    BY <1>1 DEF Loaders, AllDraws, Place, Index

LEMMA DrawIs ==
  ASSUME NEW l \in Loaders, NEW i \in Nat
  PROVE  Draw(l, i) \in AllDraws /\ Index(Draw(l, i)) = Place(l) + i
  <1> DEFINE n == l.pos + i
             q == n \div DatasetSize
             r == n % DatasetSize
  <1>1. l.epoch \in Nat /\ l.pos \in Nat /\ n \in Nat
    BY DEF Loaders
  <1>2. q \in Nat /\ r \in 0 .. DatasetSize - 1 /\ n = DatasetSize * q + r
    BY <1>1, Division
  <1>3. Draw(l, i) = <<l.epoch + q, r>>
    BY DEF Draw
  <1> HIDE DEF q, r
  <1>4. (l.epoch + q) * DatasetSize = l.epoch * DatasetSize + DatasetSize * q
    BY <1>1, <1>2
  <1>5. l.epoch * DatasetSize \in Nat /\ DatasetSize * q \in Nat
    BY <1>1, <1>2
  <1> QED
    BY <1>1, <1>2, <1>3, <1>4, <1>5 DEF AllDraws, Index, Place

LEMMA DrawsAre ==
  ASSUME NEW l \in Loaders, NEW n \in Nat
  PROVE  /\ Draws(l, n) \subseteq AllDraws
         /\ IsFiniteSet(Draws(l, n)) /\ Cardinality(Draws(l, n)) = n
         /\ \A g \in Draws(l, n) : Place(l) <= Index(g) /\ Index(g) < Place(l) + n
  <1> DEFINE I == 0 .. n - 1
             S == {Draw(l, i) : i \in I}
             f == [i \in I |-> Draw(l, i)]
  <1>1. Draws(l, n) = S
    BY DEF Draws, Draw
  <1>2. \A i \in I : f[i] = Draw(l, i) /\ Draw(l, i) \in AllDraws /\ Index(Draw(l, i)) = Place(l) + i
    BY DrawIs
  <1>3. Place(l) \in Nat
    BY PlaceType
  <1>4. f \in Bijection(I, S)
    <2>1. f \in [I -> S]
      OBVIOUS
    <2>2. \A i, j \in I : f[i] = f[j] => i = j
      BY <1>2, <1>3
    <2>3. \A g \in S : \E i \in I : f[i] = g
      OBVIOUS
    <2>4. DOMAIN f = I
      OBVIOUS
    <2> HIDE DEF f, I, S
    <2> QED
      BY <2>1, <2>2, <2>3, <2>4 DEF Bijection, Injection, Surjection, IsInjective
  <1>5. IsFiniteSet(I) /\ Cardinality(I) = n
    BY FS_Interval
  <1>6. IsFiniteSet(S) /\ Cardinality(S) = n
    <2> HIDE DEF f, I, S
    <2>1. ExistsBijection(I, S)
      BY <1>4 DEF ExistsBijection
    <2> QED
      BY <1>5, <2>1, FS_Bijection
  <1> QED
    BY <1>1, <1>2, <1>3, <1>6

LEMMA AfterDrawsIs ==
  ASSUME NEW l \in Loaders, NEW n \in Nat
  PROVE  /\ AfterDraws(l, n) \in Loaders
         /\ Place(AfterDraws(l, n)) = Place(l) + n
         /\ AfterDraws(l, n).total = l.total + n
  <1>1. CASE n = 0
    BY <1>1, PlaceType DEF AfterDraws, Loaders
  <1>2. CASE n # 0
    <2> DEFINE g == Draw(l, n - 1)
    <2>1. g \in AllDraws /\ Index(g) = Place(l) + (n - 1)
      BY <1>2, DrawIs
    <2>2. AfterDraws(l, n) = [epoch |-> g[1], pos |-> g[2] + 1, total |-> l.total + n]
      BY <1>2 DEF AfterDraws, Draw, Loaders
    <2>3. l.total + n \in Nat
      BY DEF Loaders
    <2> HIDE DEF g
    <2>4. /\ AfterDraws(l, n) \in Loaders
          /\ Place(AfterDraws(l, n)) = g[1] * DatasetSize + (g[2] + 1)
      BY <2>1, <2>2, <2>3 DEF AllDraws, Loaders, Place
    <2>5. g[1] * DatasetSize \in Nat /\ g[2] \in Nat
      BY <2>1 DEF AllDraws
    <2> QED
      BY <2>1, <2>2, <2>4, <2>5, PlaceType DEF Index
  <1> QED
    BY <1>1, <1>2

-----------------------------------------------------------------------------
(***************************************************************************)
(* Types, and what a round of production leaves behind.                    *)
(***************************************************************************)
LoaderStates == [epoch : Nat, step : 0 .. DatasetSize - 1, total : Nat]
GroupSets    == [Tasks -> SUBSET AllDraws]
Buffers      == [completed : GroupSets, rejected : GroupSets]
Contents     == [loaders : [Tasks -> LoaderStates], buffer : Buffers, weights : GroupSets]

DataTypes ==
  /\ Weighted
  /\ loader \in [Tasks -> Loaders]
  /\ pending \in GroupSets /\ completed \in GroupSets /\ rejected \in GroupSets
  /\ batch \in GroupSets /\ trained \in GroupSets
  /\ saved \in [Steps -> Contents]
  /\ faults \in 0 .. MaxFaults /\ crashes \in 0 .. MaxCrashes
  /\ metaTorn \in BOOLEAN

\* While a batch is produced, what is generated and what is completed make up
\* the share of the task, and the loader stands behind all of it.
RoundOK(t) ==
  /\ IsFiniteSet(pending[t]) /\ IsFiniteSet(completed[t])
  /\ pending[t] \cap completed[t] = {}
  /\ \A g \in pending[t] \cup completed[t] : Index(g) < Place(loader[t])
  /\ Cardinality(pending[t]) + Cardinality(completed[t]) = TaskBatchSize(t)

BatchOK(t) == IsFiniteSet(batch[t]) /\ Cardinality(batch[t]) = TaskBatchSize(t)

RoundInv ==
  /\ pc = "produce" => \A t \in Tasks : RoundOK(t)
  /\ pc # "produce" => completed = NoGroups /\ pending = NoGroups
  /\ pc = "train" => \A t \in Tasks : BatchOK(t)
  /\ pc # "train" => batch = NoGroups
  /\ pc = "crashed" => /\ loader = [t \in Tasks |-> FreshLoader]
                       /\ rejected = NoGroups /\ trained = NoGroups
  /\ \A s \in Steps : saved[s].buffer.completed = NoGroups

\* No task draws more than its share of every step and one for each fault.  A
\* loader that was resumed at the end of an epoch is behind its total.
Spent(n)   == n * BatchSize + faults
StepsBegun == IF pc \in {"produce", "train", "sync"} \cup Saving THEN step ELSE step - 1

Below(S, b) == \A g \in S : Index(g) < b

LoaderOK(l, b) == Place(l) <= l.total /\ l.total <= b

ContentOK(content, b) ==
  \A t \in Tasks : /\ LoaderOK(LoadedFrom(content.loaders[t]), b)
                   /\ Below(content.buffer.rejected[t], b) /\ Below(content.weights[t], b)

BoundInv ==
  /\ \A t \in Tasks :
       /\ LoaderOK(loader[t], Spent(StepsBegun))
       /\ Below(pending[t], Spent(StepsBegun)) /\ Below(completed[t], Spent(StepsBegun))
       /\ Below(rejected[t], Spent(StepsBegun)) /\ Below(batch[t], Spent(StepsBegun))
       /\ Below(trained[t], Spent(StepsBegun))
  /\ \A s \in Steps : ContentOK(saved[s], Spent(s))

DataInv == DataTypes /\ RoundInv /\ BoundInv

-----------------------------------------------------------------------------
LEMMA ShareStays ==
  ASSUME weight' = weight
  PROVE  \A t \in Tasks : TaskBatchSize(t)' = TaskBatchSize(t)
  <1>1. TotalWeight' = TotalWeight
    BY DEF TotalWeight, FoldFunction, FoldFunctionOnSet, MapThenFoldSet
  <1>2. \A t : Floor(t)' = Floor(t) /\ Remainder(t)' = Remainder(t)
    BY <1>1 DEF Floor, Remainder
  <1>3. Remaining' = Remaining
    BY DEF Remaining, Floor, TotalWeight, FoldFunction, FoldFunctionOnSet, MapThenFoldSet
  <1>4. \A t : RankedBefore(t)' = RankedBefore(t)
    BY <1>2 DEF RankedBefore
  <1> QED
    BY <1>2, <1>3, <1>4 DEF TaskBatchSize

LEMMA SpentGrows ==
  ASSUME NEW m \in Nat, NEW n \in Nat, m <= n, NEW f \in Nat, NEW g \in Nat, f <= g
  PROVE  /\ m * BatchSize + f \in Nat /\ n * BatchSize + g \in Nat
         /\ m * BatchSize + f <= n * BatchSize + g
         /\ (m + 1) * BatchSize + f = m * BatchSize + f + BatchSize
  <1>1. m * BatchSize \in Nat /\ n * BatchSize \in Nat /\ (n - m) * BatchSize \in Nat
    OBVIOUS
  <1>2. n * BatchSize = m * BatchSize + (n - m) * BatchSize
    OBVIOUS
  <1>3. (m + 1) * BatchSize = m * BatchSize + BatchSize
    OBVIOUS
  <1> QED
    BY <1>1, <1>2, <1>3

LEMMA BelowMore ==
  ASSUME NEW a \in Nat, NEW b \in Nat, a <= b
  PROVE  /\ \A S \in SUBSET AllDraws : Below(S, a) => Below(S, b)
         /\ \A l \in Loaders : LoaderOK(l, a) => LoaderOK(l, b)
         /\ \A c \in Contents : ContentOK(c, a) => ContentOK(c, b)
  <1>1. \A S \in SUBSET AllDraws : Below(S, a) => Below(S, b)
    BY PlaceType DEF Below
  <1>2. \A l \in Loaders : LoaderOK(l, a) => LoaderOK(l, b)
    BY DEF LoaderOK, Loaders
  <1>3. ASSUME NEW c \in Contents, ContentOK(c, a) PROVE ContentOK(c, b)
    <2> SUFFICES ASSUME NEW t \in Tasks
                 PROVE  /\ LoaderOK(LoadedFrom(c.loaders[t]), b)
                        /\ Below(c.buffer.rejected[t], b) /\ Below(c.weights[t], b)
      BY DEF ContentOK
    <2>1. /\ c.loaders[t] \in LoaderStates
          /\ c.buffer.rejected[t] \in SUBSET AllDraws /\ c.weights[t] \in SUBSET AllDraws
      BY DEF Contents, Buffers, GroupSets
    <2>2. LoadedFrom(c.loaders[t]) \in Loaders
      BY <2>1 DEF LoadedFrom, LoaderStates, Loaders
    <2> QED
      BY <1>1, <1>2, <1>3, <2>1, <2>2 DEF ContentOK
  <1> QED
    BY <1>1, <1>2, <1>3

\* A data position that is saved and loaded again is not ahead of its total.
LEMMA SavedLoader ==
  ASSUME NEW l \in Loaders, Place(l) <= l.total
  PROVE  /\ LoaderState(l) \in LoaderStates
         /\ LoadedFrom(LoaderState(l)) \in Loaders
         /\ LoadedFrom(LoaderState(l)).total = l.total
         /\ Place(LoadedFrom(LoaderState(l))) <= l.total
  <1> DEFINE e == l.epoch
             q == l.total \div DatasetSize
             r == l.total % DatasetSize
  <1>1. e \in Nat /\ l.pos \in Nat /\ l.total \in Nat
    BY DEF Loaders
  <1>2. q \in Nat /\ r \in 0 .. DatasetSize - 1 /\ l.total = DatasetSize * q + r
    BY <1>1, Division
  <1>3. /\ LoaderState(l) \in LoaderStates
        /\ LoadedFrom(LoaderState(l)) = [epoch |-> e, pos |-> r, total |-> l.total]
    BY <1>1, <1>2 DEF LoaderState, LoaderStates, LoadedFrom
  <1>4. e * DatasetSize + l.pos <= DatasetSize * q + r
    BY <1>1, <1>2 DEF Place
  <1>5. [epoch |-> e, pos |-> r, total |-> l.total] \in Loaders
    BY <1>1, <1>2 DEF Loaders
  <1> HIDE DEF e, q, r
  <1>6. e <= q
    <2> SUFFICES ASSUME e >= q + 1 PROVE FALSE
      BY <1>1, <1>2
    <2>1. \A a, b \in Nat : a >= b + 1 => a * DatasetSize >= DatasetSize * b + DatasetSize
      <3> SUFFICES ASSUME NEW a \in Nat, NEW b \in Nat, a >= b + 1
                   PROVE  a * DatasetSize >= DatasetSize * b + DatasetSize
        OBVIOUS
      <3>1. (a - b - 1) * DatasetSize \in Nat /\ DatasetSize * b \in Nat
        OBVIOUS
      <3>2. a * DatasetSize = DatasetSize * b + DatasetSize + (a - b - 1) * DatasetSize
        OBVIOUS
      <3> QED
        BY <3>1, <3>2
    <2>2. e * DatasetSize >= DatasetSize * q + DatasetSize
      BY <1>1, <1>2, <2>1
    <2>3. e * DatasetSize \in Nat /\ DatasetSize * q \in Nat
      BY <1>1, <1>2
    <2> QED
      BY <1>1, <1>2, <1>4, <2>2, <2>3
  <1>7. e * DatasetSize <= DatasetSize * q
    <2>1. (q - e) * DatasetSize \in Nat /\ e * DatasetSize \in Nat
      BY <1>1, <1>2, <1>6
    <2>2. DatasetSize * q = e * DatasetSize + (q - e) * DatasetSize
      BY <1>1, <1>2
    <2> QED
      BY <2>1, <2>2
  <1>8. e * DatasetSize + r <= l.total
    <2>1. e * DatasetSize \in Nat /\ DatasetSize * q \in Nat
      BY <1>1, <1>2
    <2> QED
      BY <1>1, <1>2, <1>7, <2>1
  <1> QED
    BY <1>3, <1>5, <1>8 DEF Place

-----------------------------------------------------------------------------
(***************************************************************************)
(* Every step of the program keeps the invariant.                          *)
(***************************************************************************)
dataVars == <<weight, loader, pending, completed, rejected, batch, trained>>

LEMMA NothingHeld ==
  /\ NoGroups \in GroupSets /\ FreshLoader \in Loaders /\ NoContent \in Contents
  /\ NoContent.buffer.completed = NoGroups
  /\ Place(FreshLoader) = 0 /\ FreshLoader.total = 0
  /\ \A b \in Nat : LoaderOK(FreshLoader, b) /\ ContentOK(NoContent, b) /\ Below({}, b)
  <1>1. /\ FreshLoader \in Loaders /\ Place(FreshLoader) = 0 /\ FreshLoader.total = 0
    BY DEF FreshLoader, Loaders, Place
  <1>2. LoaderState(FreshLoader) \in LoaderStates /\ LoadedFrom(LoaderState(FreshLoader)) = FreshLoader
    <2>1. 0 % DatasetSize = 0
      BY Division
    <2> QED
      BY <2>1 DEF LoaderState, FreshLoader, LoaderStates, LoadedFrom
  <1>3. NoGroups \in GroupSets /\ \A t \in Tasks : NoGroups[t] = {}
    BY DEF NoGroups, GroupSets
  <1>4. NoContent \in Contents
    BY <1>2, <1>3 DEF NoContent, Contents, Buffers
  <1>5. \A b \in Nat : LoaderOK(FreshLoader, b) /\ Below({}, b)
    BY <1>1 DEF LoaderOK, Below
  <1>6. \A t \in Tasks : /\ LoadedFrom(NoContent.loaders[t]) = FreshLoader
                         /\ NoContent.buffer.rejected[t] = {} /\ NoContent.weights[t] = {}
    BY <1>2, <1>3 DEF NoContent
  <1>7. \A b \in Nat : ContentOK(NoContent, b)
    BY <1>5, <1>6 DEF ContentOK
  <1> QED
    BY <1>1, <1>3, <1>4, <1>5, <1>7 DEF NoContent

LEMMA InitData == Init => DataInv
  <1> SUFFICES ASSUME Init PROVE DataInv
    OBVIOUS
  <1> USE DEF Init
  <1>1. DataTypes
    <2>1. weight \in [Tasks -> Nat] /\ \E t \in Tasks : weight[t] > 0
      OBVIOUS
    <2>2. loader \in [Tasks -> Loaders] /\ saved \in [Steps -> Contents]
      BY NothingHeld
    <2>3. 0 \in 0 .. MaxFaults /\ 0 \in 0 .. MaxCrashes
      OBVIOUS
    <2> QED
      BY <2>1, <2>2, <2>3, NothingHeld DEF DataTypes, Weighted
  <1>2. RoundInv
    BY NothingHeld DEF RoundInv
  <1>3. \A n \in Nat : Spent(n) \in Nat
    <2> TAKE n \in Nat
    <2>1. n * BatchSize \in Nat
      OBVIOUS
    <2> QED
      BY <2>1 DEF Spent
  <1>4. StepsBegun = 0
    BY DEF StepsBegun, Saving
  <1>5. BoundInv
    BY <1>3, <1>4, NothingHeld DEF BoundInv, NoGroups, Steps
  <1> QED
    BY <1>1, <1>2, <1>5 DEF DataInv

\* What is spent before an action and after it.
LEMMA SpentBefore ==
  ASSUME CheckpointInv, DataInv
  PROVE  /\ step \in Nat \ {0} /\ step - 1 \in Nat /\ faults \in Nat
         /\ StepsBegun \in Nat /\ \A n \in Nat : Spent(n) \in Nat
  <1>1. step \in Nat \ {0} /\ step - 1 \in Nat /\ faults \in Nat
    BY DEF CheckpointInv, CheckpointTypes, DataInv, DataTypes
  <1>2. \A n \in Nat : Spent(n) \in Nat
    BY <1>1, SpentGrows DEF Spent
  <1> QED
    BY <1>1, <1>2 DEF StepsBegun

\* Steps of the program that leave the data where it is.
LEMMA FrameKeeps ==
  ASSUME DataInv, UNCHANGED <<dataVars, saved, faults>>,
         crashes' \in 0 .. MaxCrashes, metaTorn' \in BOOLEAN, StepsBegun' = StepsBegun,
         pc' = pc \/ {pc, pc'} \cap {"produce", "train", "crashed"} = {}
  PROVE  DataInv'
  <1> USE DEF dataVars
  <1>1. DataTypes'
    BY DEF DataInv, DataTypes, Weighted
  <1>2. RoundInv'
    <2>1. \A t \in Tasks : /\ RoundOK(t) => RoundOK(t)'
                           /\ BatchOK(t) => BatchOK(t)'
      BY ShareStays DEF RoundOK, BatchOK
    <2> QED
      BY <2>1 DEF DataInv, RoundInv
  <1>3. BoundInv'
    BY DEF DataInv, BoundInv, Spent
  <1> QED
    BY <1>1, <1>2, <1>3 DEF DataInv

\* One file of a checkpoint is written: what it holds is the data as it is.
LEMMA WritesData ==
  ASSUME CheckpointInv, DataInv, NEW at \in Saving, NEW next \in Saving,
         NEW file \in Files, Writes(at, file, next)
  PROVE  DataInv'
  <1> DEFINE old == saved[step]
             new == saved'[step]
  <1>1. /\ pc = at /\ pc' = next /\ step \in Steps /\ StepsBegun = step /\ StepsBegun' = step
        /\ UNCHANGED <<dataVars, step, faults, crashes, metaTorn>>
    BY DEF Writes, loopVars, metaVars, budgetVars, dataVars, CheckpointInv, CheckpointTypes,
           StepsBegun
  <1>2. /\ pc \notin {"produce", "train", "crashed"} /\ pc' \notin {"produce", "train", "crashed"}
        /\ completed = NoGroups /\ pending = NoGroups /\ batch = NoGroups
    BY <1>1 DEF Saving, DataInv, RoundInv
  <1>3. /\ saved \in [Steps -> Contents]
        /\ old \in Contents /\ ContentOK(old, Spent(step)) /\ old.buffer.completed = NoGroups
    BY <1>1 DEF DataInv, DataTypes, BoundInv, RoundInv
  <1>4. \A t \in Tasks : /\ LoaderState(loader[t]) \in LoaderStates
                         /\ LoaderOK(LoadedFrom(LoaderState(loader[t])), Spent(step))
    BY <1>1, SavedLoader DEF DataInv, DataTypes, BoundInv, LoaderOK
  <1>5. \A t \in Tasks : Below(rejected[t], Spent(step)) /\ Below(trained[t], Spent(step))
    BY <1>1 DEF DataInv, BoundInv
  <1>6. /\ \/ new = [old EXCEPT !.loaders = [t \in Tasks |-> LoaderState(loader[t])]]
           \/ new = [old EXCEPT !.buffer = [completed |-> completed, rejected |-> rejected]]
           \/ new = [old EXCEPT !.weights = trained]
           \/ new = old
        /\ \A s \in Steps : s # step => saved'[s] = saved[s]
        /\ saved' = [saved EXCEPT ![step] = new]
    BY <1>1, <1>3 DEF Writes, Files
  <1> HIDE DEF old, new
  <1>7. new \in Contents /\ ContentOK(new, Spent(step)) /\ new.buffer.completed = NoGroups
    <2>1. CASE new = [old EXCEPT !.loaders = [t \in Tasks |-> LoaderState(loader[t])]]
      BY <1>3, <1>4, <2>1 DEF Contents, ContentOK
    <2>2. CASE new = [old EXCEPT !.buffer = [completed |-> completed, rejected |-> rejected]]
      <3>1. completed \in GroupSets /\ rejected \in GroupSets
        BY DEF DataInv, DataTypes
      <3> QED
        BY <1>2, <1>3, <1>5, <2>2, <3>1 DEF Contents, ContentOK, Buffers
    <2>3. CASE new = [old EXCEPT !.weights = trained]
      BY <1>3, <1>5, <2>3 DEF Contents, ContentOK, DataInv, DataTypes
    <2> QED
      BY <1>3, <1>6, <2>1, <2>2, <2>3
  <1>8. saved' \in [Steps -> Contents]
    BY <1>1, <1>3, <1>6, <1>7
  <1>9. DataTypes'
    BY <1>1, <1>8 DEF DataInv, DataTypes, Weighted, dataVars
  <1>10. \A s \in Steps : saved'[s].buffer.completed = NoGroups /\ ContentOK(saved'[s], Spent(s))
    BY <1>6, <1>7 DEF DataInv, RoundInv, BoundInv, new
  <1>11. RoundInv'
    BY <1>1, <1>2, <1>10 DEF DataInv, RoundInv, dataVars
  <1>12. BoundInv'
    BY <1>1, <1>10 DEF DataInv, BoundInv, Spent, dataVars
  <1> QED
    BY <1>9, <1>11, <1>12 DEF DataInv

\* Every task starts its share, behind everything it ever drew.
LEMMA StartData == CheckpointInv /\ DataInv /\ StartBatch => DataInv'
  <1> SUFFICES ASSUME CheckpointInv, DataInv, StartBatch PROVE DataInv'
    OBVIOUS
  <1> DEFINE n(t) == TaskBatchSize(t)
             b == Spent(StepsBegun)
             c == Spent(StepsBegun + 1)
  <1>1. /\ pc = "start" /\ pc' = "produce" /\ step' = step
        /\ \A t \in Tasks : /\ pending'[t] = Draws(loader[t], n(t))
                            /\ loader'[t] = AfterDraws(loader[t], n(t))
        /\ DOMAIN pending' = Tasks /\ pending' = [t \in Tasks |-> pending'[t]]
        /\ loader' = [t \in Tasks |-> loader'[t]]
        /\ UNCHANGED <<weight, completed, rejected, batch, trained, saved, faults, crashes, metaTorn>>
    BY DEF StartBatch, ToStart, dirVars, metaVars, budgetVars
  <1>2. completed = NoGroups /\ batch = NoGroups /\ Weighted
    BY <1>1 DEF DataInv, RoundInv, DataTypes
  <1>3. \A t \in Tasks : n(t) \in Nat /\ n(t) <= BatchSize /\ loader[t] \in Loaders
    BY <1>2, ShareBound DEF DataInv, DataTypes
  <1>4. /\ StepsBegun \in Nat /\ StepsBegun' = StepsBegun + 1
        /\ b \in Nat /\ c \in Nat /\ c = b + BatchSize /\ b <= c
        /\ Spent(StepsBegun)' = c /\ \A k : Spent(k)' = Spent(k)
    <2>1. StepsBegun = step - 1 /\ StepsBegun' = step /\ step \in Nat \ {0}
      BY <1>1, SpentBefore DEF StepsBegun, Saving
    <2>2. faults \in Nat
      BY SpentBefore
    <2>3. /\ b \in Nat /\ (StepsBegun + 1) * BatchSize + faults = b + BatchSize
      BY <2>1, <2>2, SpentGrows DEF Spent
    <2> QED
      BY <1>1, <2>1, <2>2, <2>3 DEF Spent
  <1>5. ASSUME NEW t \in Tasks
        PROVE  /\ loader'[t] \in Loaders /\ pending'[t] \subseteq AllDraws
               /\ LoaderOK(loader'[t], c) /\ Below(pending'[t], c)
               /\ RoundOK(t)'
    <2>1. LoaderOK(loader[t], b) /\ Place(loader[t]) \in Nat /\ loader[t].total \in Nat
      BY <1>3, PlaceType DEF DataInv, BoundInv, Loaders
    <2>2. /\ loader'[t] \in Loaders /\ Place(loader'[t]) = Place(loader[t]) + n(t)
          /\ loader'[t].total = loader[t].total + n(t)
      <3> DEFINE l == loader[t]
                 m == TaskBatchSize(t)
      <3>1. l \in Loaders /\ m \in Nat /\ loader'[t] = AfterDraws(l, m)
        BY <1>1, <1>3
      <3> HIDE DEF l, m
      <3>2. /\ loader'[t] \in Loaders /\ Place(loader'[t]) = Place(l) + m
            /\ loader'[t].total = l.total + m
        BY <3>1, AfterDrawsIs
      <3> QED
        BY <3>2 DEF l, m
    <2>3. /\ pending'[t] \subseteq AllDraws /\ IsFiniteSet(pending'[t])
          /\ Cardinality(pending'[t]) = n(t)
          /\ \A g \in pending'[t] : Index(g) < Place(loader[t]) + n(t) /\ Index(g) \in Nat
      BY <1>1, <1>3, DrawsAre, PlaceType
    <2>4. LoaderOK(loader'[t], c)
      BY <1>3, <1>4, <2>1, <2>2 DEF LoaderOK
    <2>5. Below(pending'[t], c)
      BY <1>3, <1>4, <2>1, <2>2, <2>3 DEF Below, LoaderOK
    <2>6. completed'[t] = {} /\ IsFiniteSet({}) /\ Cardinality({}) = 0
      BY <1>1, <1>2, FS_EmptySet DEF NoGroups
    <2>7. TaskBatchSize(t)' = n(t)
      BY <1>1, ShareStays
    <2> HIDE DEF n, b, c
    <2>8. RoundOK(t)'
      BY <1>3, <2>2, <2>3, <2>6, <2>7 DEF RoundOK
    <2> QED
      BY <2>2, <2>3, <2>4, <2>5, <2>8
  <1>6. loader' \in [Tasks -> Loaders] /\ pending' \in GroupSets
    BY <1>1, <1>5 DEF GroupSets
  <1>7. DataTypes'
    BY <1>1, <1>6 DEF DataInv, DataTypes, Weighted
  <1>8. RoundInv'
    BY <1>1, <1>2, <1>5 DEF DataInv, RoundInv
  <1>9. BoundInv'
    <2>1. \A S \in SUBSET AllDraws : Below(S, b) => Below(S, c)
      BY <1>4, BelowMore
    <2>2. \A t \in Tasks : /\ completed[t] \in SUBSET AllDraws /\ rejected[t] \in SUBSET AllDraws
                           /\ batch[t] \in SUBSET AllDraws /\ trained[t] \in SUBSET AllDraws
      BY DEF DataInv, DataTypes, GroupSets
    <2>3. \A t \in Tasks : /\ Below(completed'[t], c) /\ Below(rejected'[t], c)
                           /\ Below(batch'[t], c) /\ Below(trained'[t], c)
      BY <1>1, <2>1, <2>2 DEF DataInv, BoundInv
    <2>4. \A s \in Steps : ContentOK(saved'[s], Spent(s)')
      BY <1>1, <1>4 DEF DataInv, BoundInv
    <2> HIDE DEF b, c
    <2> QED
      BY <1>4, <1>5, <2>3, <2>4 DEF BoundInv
  <1> QED
    BY <1>7, <1>8, <1>9 DEF DataInv

LEMMA UnionDisjoint ==
  ASSUME NEW S, NEW T, IsFiniteSet(S), IsFiniteSet(T), S \cap T = {}
  PROVE  IsFiniteSet(S \cup T) /\ Cardinality(S \cup T) = Cardinality(S) + Cardinality(T)
  <1>1. /\ Cardinality(S) \in Nat /\ Cardinality(T) \in Nat
        /\ Cardinality(S \cap T) = 0
    BY FS_CardinalityType, FS_EmptySet
  <1>2. /\ IsFiniteSet(S \cup T)
        /\ Cardinality(S \cup T) = Cardinality(S) + Cardinality(T) - Cardinality(S \cap T)
    BY FS_Union
  <1> QED
    BY <1>1, <1>2

\* What a round leaves of a task: n groups are drawn again, P are generated and
\* C completed.
RoundLeaves(t, finished, n, P, C) ==
  /\ n \in Nat
  /\ Refill(t, Cardinality(pending[t] \ finished), Cardinality(C)) = n
  /\ IsFiniteSet(P) /\ IsFiniteSet(C) /\ P \cap C = {}
  /\ \A g \in P \cup C : Index(g) < Place(loader[t]) + n
  /\ Cardinality(P) + Cardinality(C) = TaskBatchSize(t)

\* What is rejected in a round is drawn again, one for one.
LEMMA RoundCounts ==
  ASSUME NEW t \in Tasks, Weighted, RoundOK(t), loader[t] \in Loaders,
         pending[t] \subseteq AllDraws, completed[t] \subseteq AllDraws,
         NEW finished \in SUBSET pending[t], NEW good \in SUBSET finished,
         NEW bad, bad = finished \ good, NEW n, n = Cardinality(bad),
         NEW P, P = (pending[t] \ finished) \cup Draws(loader[t], n),
         NEW C, C = completed[t] \cup good
  PROVE  RoundLeaves(t, finished, n, P, C)
  <1> DEFINE W == pending[t] \ finished
             D == Draws(loader[t], n)
  <1>1. /\ IsFiniteSet(pending[t]) /\ IsFiniteSet(completed[t])
        /\ pending[t] \cap completed[t] = {}
        /\ \A g \in pending[t] \cup completed[t] : Index(g) < Place(loader[t])
        /\ Cardinality(pending[t]) + Cardinality(completed[t]) = TaskBatchSize(t)
        /\ TaskBatchSize(t) \in Nat
    BY ShareBound DEF RoundOK
  <1>2. /\ IsFiniteSet(finished) /\ IsFiniteSet(good) /\ IsFiniteSet(bad) /\ IsFiniteSet(W)
        /\ n \in Nat /\ Cardinality(good) \in Nat /\ Cardinality(W) \in Nat
        /\ Cardinality(completed[t]) \in Nat /\ Cardinality(finished) \in Nat
    BY <1>1, FS_Subset, FS_CardinalityType
  <1>3. Cardinality(finished) = Cardinality(good) + n
    <2>1. good \cap bad = {} /\ good \cup bad = finished
      OBVIOUS
    <2> QED
      BY <1>2, <2>1, UnionDisjoint
  <1>4. Cardinality(pending[t]) = Cardinality(W) + Cardinality(finished)
    <2>1. W \cap finished = {} /\ W \cup finished = pending[t]
      OBVIOUS
    <2> QED
      BY <1>2, <2>1, UnionDisjoint
  <1>5. IsFiniteSet(C) /\ Cardinality(C) = Cardinality(completed[t]) + Cardinality(good)
    <2>1. completed[t] \cap good = {}
      BY <1>1
    <2> QED
      BY <1>1, <1>2, <2>1, UnionDisjoint
  <1>6. Refill(t, Cardinality(W), Cardinality(C)) = n
    BY <1>1, <1>2, <1>3, <1>4, <1>5 DEF Refill
  <1>7. /\ D \subseteq AllDraws /\ IsFiniteSet(D) /\ Cardinality(D) = n
        /\ \A g \in D : Place(loader[t]) <= Index(g) /\ Index(g) < Place(loader[t]) + n
    BY <1>2, DrawsAre
  <1>8. Place(loader[t]) \in Nat /\ \A g \in AllDraws : Index(g) \in Nat
    BY PlaceType
  <1>9. \A g \in pending[t] \cup completed[t] : g \notin D
    <2> HIDE DEF D
    <2>1. \A g \in pending[t] \cup completed[t] : g \in AllDraws /\ Index(g) < Place(loader[t])
      BY <1>1
    <2> QED
      BY <1>7, <1>8, <2>1
  <1>10. IsFiniteSet(W \cup D) /\ Cardinality(W \cup D) = Cardinality(W) + n
    <2>1. W \cap D = {}
      BY <1>9
    <2> QED
      BY <1>2, <1>7, <2>1, UnionDisjoint
  <1>11. (W \cup D) \cap C = {}
    BY <1>1, <1>9
  <1>12. \A g \in (W \cup D) \cup C : Index(g) < Place(loader[t]) + n
    <2>1. \A g \in pending[t] \cup completed[t] : Index(g) < Place(loader[t]) + n
      BY <1>1, <1>2, <1>8
    <2> QED
      BY <1>7, <2>1
  <1> HIDE DEF W, D
  <1>13. Cardinality(W \cup D) + Cardinality(C) = TaskBatchSize(t)
    BY <1>1, <1>2, <1>3, <1>4, <1>5, <1>10
  <1> QED
    BY <1>2, <1>5, <1>6, <1>10, <1>11, <1>12, <1>13 DEF RoundLeaves, W, D

\* One round: what was returned is completed or rejected, and replaced.
LEMMA CollectData ==
  ASSUME CheckpointInv, DataInv, NEW t \in Tasks, CollectResults(t)
  PROVE  DataInv'
  <1>1. PICK finished \in (SUBSET pending[t]) \ {{}} : \E good \in SUBSET finished :
          LET bad     == finished \ good
              missing == Refill(t, Cardinality(pending[t] \ finished),
                                   Cardinality(completed[t] \cup good))
          IN /\ faults + Cardinality(bad) <= MaxFaults
             /\ faults' = faults + Cardinality(bad)
             /\ completed' = [completed EXCEPT ![t] = @ \cup good]
             /\ rejected' = [rejected EXCEPT ![t] = @ \cup bad]
             /\ pending' = [pending EXCEPT ![t] = (@ \ finished) \cup Draws(loader[t], missing)]
             /\ loader' = [loader EXCEPT ![t] = AfterDraws(@, missing)]
    BY DEF CollectResults
  <1>2. PICK good \in SUBSET finished :
          LET bad     == finished \ good
              missing == Refill(t, Cardinality(pending[t] \ finished),
                                   Cardinality(completed[t] \cup good))
          IN /\ faults + Cardinality(bad) <= MaxFaults
             /\ faults' = faults + Cardinality(bad)
             /\ completed' = [completed EXCEPT ![t] = @ \cup good]
             /\ rejected' = [rejected EXCEPT ![t] = @ \cup bad]
             /\ pending' = [pending EXCEPT ![t] = (@ \ finished) \cup Draws(loader[t], missing)]
             /\ loader' = [loader EXCEPT ![t] = AfterDraws(@, missing)]
    BY <1>1
  <1> DEFINE bad == finished \ good
             n == Cardinality(bad)
             l == loader[t]
             P == (pending[t] \ finished) \cup Draws(l, n)
             C == completed[t] \cup good
             R == rejected[t] \cup bad
             b == Spent(StepsBegun)
             c == b + n
  <1>3. /\ pc = "produce" /\ pc' = "produce" /\ step' = step
        /\ UNCHANGED <<weight, batch, trained, saved, crashes, metaTorn>>
    BY DEF CollectResults, dirVars, metaVars, budgetVars
  <1>4. /\ RoundOK(t) /\ Weighted /\ l \in Loaders
        /\ pending[t] \subseteq AllDraws /\ completed[t] \subseteq AllDraws
        /\ rejected[t] \subseteq AllDraws
    BY <1>3 DEF DataInv, RoundInv, DataTypes, GroupSets
  <1>5. /\ n \in Nat
        /\ Refill(t, Cardinality(pending[t] \ finished), Cardinality(C)) = n
        /\ IsFiniteSet(P) /\ IsFiniteSet(C) /\ P \cap C = {}
        /\ \A g \in P \cup C : Index(g) < Place(l) + n
        /\ Cardinality(P) + Cardinality(C) = TaskBatchSize(t)
    <2>1. finished \in SUBSET pending[t] /\ good \in SUBSET finished
      OBVIOUS
    <2>2. /\ bad = finished \ good /\ n = Cardinality(bad)
          /\ P = (pending[t] \ finished) \cup Draws(loader[t], n) /\ C = completed[t] \cup good
          /\ loader[t] \in Loaders /\ l = loader[t]
      BY <1>4
    <2> HIDE DEF bad, n, P, C, l
    <2>3. RoundLeaves(t, finished, n, P, C)
      BY <1>4, <2>1, <2>2, RoundCounts
    <2> QED
      BY <2>2, <2>3 DEF RoundLeaves
  <1>6. /\ faults' = faults + n /\ faults' <= MaxFaults
        /\ completed' = [completed EXCEPT ![t] = C] /\ rejected' = [rejected EXCEPT ![t] = R]
        /\ pending' = [pending EXCEPT ![t] = P]
        /\ loader' = [loader EXCEPT ![t] = AfterDraws(l, n)]
    BY <1>2, <1>5
  <1>7. /\ b \in Nat /\ c \in Nat /\ b <= c /\ StepsBegun' = StepsBegun
        /\ Spent(StepsBegun)' = c
        /\ \A s \in Steps : Spent(s) \in Nat /\ Spent(s)' \in Nat /\ Spent(s) <= Spent(s)'
    <2>1. StepsBegun \in Nat /\ b \in Nat /\ faults \in Nat /\ StepsBegun' = StepsBegun
      BY <1>3, SpentBefore DEF StepsBegun
    <2>2. b = StepsBegun * BatchSize + faults /\ StepsBegun * BatchSize \in Nat
      BY <2>1 DEF Spent
    <2>3. (Spent(StepsBegun))' = StepsBegun * BatchSize + faults'
      BY <2>1 DEF Spent
    <2>4. \A s \in Steps : s * BatchSize \in Nat
      BY DEF Steps
    <2>5. \A s \in Steps : /\ Spent(s) = s * BatchSize + faults
                           /\ Spent(s)' = s * BatchSize + faults'
      BY DEF Spent
    <2> HIDE DEF b, n
    <2> QED
      BY <1>5, <1>6, <2>1, <2>2, <2>3, <2>4, <2>5
  <1>8. /\ AfterDraws(l, n) \in Loaders /\ Place(AfterDraws(l, n)) = Place(l) + n
        /\ AfterDraws(l, n).total = l.total + n
    BY <1>4, <1>5, AfterDrawsIs
  <1>9. LoaderOK(l, b) /\ Place(l) \in Nat /\ l.total \in Nat
    BY <1>4, PlaceType DEF DataInv, BoundInv, Loaders
  <1>10. LoaderOK(AfterDraws(l, n), c)
    <2> HIDE DEF l, n, b
    <2> QED
      BY <1>5, <1>7, <1>8, <1>9 DEF LoaderOK
  <1>11. P \subseteq AllDraws /\ C \subseteq AllDraws /\ R \subseteq AllDraws
    BY <1>4, <1>5, DrawsAre
  <1>12. Below(P, c) /\ Below(C, c) /\ Below(R, c)
    <2>1. Place(l) + n <= c
      <3> HIDE DEF l, n, b
      <3> QED
        BY <1>5, <1>7, <1>9 DEF LoaderOK
    <2>2. \A g \in AllDraws : Index(g) \in Nat
      BY PlaceType
    <2>3. \A g \in P \cup C : Index(g) < c
      <3> HIDE DEF P, C, l, n, c
      <3> QED
        BY <1>5, <1>7, <1>9, <1>11, <2>1, <2>2
    <2>4. Below(rejected[t], b) /\ Below(pending[t], b)
      BY DEF DataInv, BoundInv
    <2>5. \A g \in R : Index(g) < c
      <3>1. \A g \in R : Index(g) < b
        BY <2>4 DEF Below
      <3> HIDE DEF R, b, n
      <3> QED
        BY <1>5, <1>7, <1>11, <2>2, <3>1
    <2> QED
      BY <2>3, <2>5 DEF Below
  <1> HIDE DEF P, C, R, l, n, b, c, bad
  <1>13. \A u \in Tasks : /\ pending'[u] = IF u = t THEN P ELSE pending[u]
                          /\ completed'[u] = IF u = t THEN C ELSE completed[u]
                          /\ rejected'[u] = IF u = t THEN R ELSE rejected[u]
                          /\ loader'[u] = IF u = t THEN AfterDraws(l, n) ELSE loader[u]
    BY <1>6 DEF DataInv, DataTypes, GroupSets
  <1>14. DataTypes'
    <2>1. /\ pending' \in GroupSets /\ completed' \in GroupSets /\ rejected' \in GroupSets
          /\ loader' \in [Tasks -> Loaders]
      BY <1>6, <1>8, <1>11 DEF DataInv, DataTypes, GroupSets
    <2>2. faults' \in 0 .. MaxFaults
      BY <1>5, <1>6 DEF DataInv, DataTypes
    <2> QED
      BY <1>3, <2>1, <2>2 DEF DataInv, DataTypes, Weighted
  <1>15. RoundInv'
    <2>1. \A u \in Tasks : TaskBatchSize(u)' = TaskBatchSize(u)
      BY <1>3, ShareStays
    <2>2. \A u \in Tasks : RoundOK(u)
      BY <1>3 DEF DataInv, RoundInv
    <2>3. \A u \in Tasks : RoundOK(u)'
      <3> TAKE u \in Tasks
      <3>1. CASE u = t
        BY <1>5, <1>8, <1>13, <2>1, <3>1 DEF RoundOK
      <3>2. CASE u # t
        BY <1>13, <2>1, <2>2, <3>2 DEF RoundOK
      <3> QED
        BY <3>1, <3>2
    <2> QED
      BY <1>3, <2>3 DEF DataInv, RoundInv
  <1>16. BoundInv'
    <2>1. /\ \A S \in SUBSET AllDraws : Below(S, b) => Below(S, c)
          /\ \A x \in Loaders : LoaderOK(x, b) => LoaderOK(x, c)
      BY <1>7, BelowMore
    <2>2. \A u \in Tasks : /\ LoaderOK(loader[u], c)
                           /\ Below(pending[u], c) /\ Below(completed[u], c)
                           /\ Below(rejected[u], c) /\ Below(batch[u], c) /\ Below(trained[u], c)
      BY <2>1 DEF DataInv, BoundInv, DataTypes, GroupSets, b
    <2>3. \A s \in Steps : ContentOK(saved[s], Spent(s)')
      BY <1>7, BelowMore DEF DataInv, BoundInv, DataTypes
    <2> QED
      BY <1>3, <1>7, <1>10, <1>12, <1>13, <2>2, <2>3 DEF BoundInv
  <1> QED
    BY <1>14, <1>15, <1>16 DEF DataInv

\* The round is over when nothing is generated any more: the batch is all that
\* was completed, and nothing is left behind.
LEMMA TakenIsAll ==
  ASSUME NEW t \in Tasks, Weighted, RoundOK(t), Enough(t),
         NEW taken, taken \subseteq completed[t], Cardinality(taken) = TaskBatchSize(t)
  PROVE  pending[t] = {} /\ taken = completed[t] /\ IsFiniteSet(taken)
  <1>1. /\ IsFiniteSet(pending[t]) /\ IsFiniteSet(completed[t])
        /\ Cardinality(pending[t]) \in Nat /\ Cardinality(completed[t]) \in Nat
        /\ Cardinality(pending[t]) + Cardinality(completed[t]) = TaskBatchSize(t)
        /\ Cardinality(completed[t]) >= TaskBatchSize(t)
        /\ TaskBatchSize(t) \in Nat
    BY ShareBound, FS_CardinalityType DEF RoundOK, Enough
  <1>2. Cardinality(pending[t]) = 0 /\ Cardinality(completed[t]) = TaskBatchSize(t)
    BY <1>1
  <1> QED
    BY <1>1, <1>2, FS_EmptySet, FS_Subset

LEMMA TakeData == CheckpointInv /\ DataInv /\ TakeBatch => DataInv'
  <1> SUFFICES ASSUME CheckpointInv, DataInv, TakeBatch PROVE DataInv'
    OBVIOUS
  <1>1. PICK taken \in [Tasks -> SUBSET UNION {completed[t] : t \in Tasks}] :
          /\ \A t \in Tasks : /\ taken[t] \subseteq completed[t]
                              /\ Cardinality(taken[t]) = TaskBatchSize(t)
          /\ batch' = taken
          /\ completed' = [t \in Tasks |-> completed[t] \ taken[t]]
    BY DEF TakeBatch
  <1>2. /\ pc = "produce" /\ pc' = "train" /\ step' = step /\ \A t \in Tasks : Enough(t)
        /\ UNCHANGED <<weight, loader, pending, rejected, trained, saved, faults, crashes, metaTorn>>
    BY DEF TakeBatch, dirVars, metaVars, budgetVars
  <1>3. \A t \in Tasks : RoundOK(t) /\ Weighted
    BY <1>2 DEF DataInv, RoundInv, DataTypes
  <1>4. \A t \in Tasks : pending[t] = {} /\ taken[t] = completed[t] /\ IsFiniteSet(taken[t])
    BY <1>1, <1>2, <1>3, TakenIsAll
  <1>5. batch' = completed /\ completed' = NoGroups /\ pending' = NoGroups
    <2>1. pending \in GroupSets /\ completed \in GroupSets
      BY DEF DataInv, DataTypes
    <2> QED
      BY <1>1, <1>2, <1>4, <2>1 DEF NoGroups, GroupSets
  <1>6. DataTypes'
    BY <1>2, <1>5, NothingHeld DEF DataInv, DataTypes, Weighted
  <1>7. RoundInv'
    <2>1. \A t \in Tasks : BatchOK(t)'
      BY <1>1, <1>2, <1>4, ShareStays DEF BatchOK
    <2> QED
      BY <1>2, <1>5, <2>1 DEF DataInv, RoundInv
  <1>8. BoundInv'
    <2>1. /\ StepsBegun' = StepsBegun
          /\ \A n : Spent(n)' = Spent(n)
      BY <1>2 DEF StepsBegun, Spent
    <2>2. \A t \in Tasks : Below({}, Spent(StepsBegun))
      BY SpentBefore, NothingHeld
    <2>3. \A t \in Tasks : completed'[t] = {} /\ pending'[t] = {}
      BY <1>5 DEF NoGroups
    <2>4. (Spent(StepsBegun))' = Spent(StepsBegun)
      BY <1>2, <2>1 DEF Spent
    <2> QED
      BY <1>2, <1>5, <2>1, <2>2, <2>3, <2>4 DEF DataInv, BoundInv
  <1> QED
    BY <1>6, <1>7, <1>8 DEF DataInv

LEMMA TrainData == CheckpointInv /\ DataInv /\ TrainOneBatch => DataInv'
  <1> SUFFICES ASSUME CheckpointInv, DataInv, TrainOneBatch PROVE DataInv'
    OBVIOUS
  <1>1. /\ pc = "train" /\ pc' \in {"save_loaders", "sync"} /\ step' = step
        /\ trained' = [t \in Tasks |-> trained[t] \cup batch[t]] /\ batch' = NoGroups
        /\ UNCHANGED <<weight, loader, pending, completed, rejected, saved, faults, crashes, metaTorn>>
    BY DEF TrainOneBatch, dirVars, metaVars, budgetVars
  <1>2. DataTypes'
    <2>1. trained' \in GroupSets
      BY <1>1 DEF DataInv, DataTypes, GroupSets
    <2> QED
      BY <1>1, <2>1, NothingHeld DEF DataInv, DataTypes, Weighted
  <1>3. RoundInv'
    BY <1>1 DEF DataInv, RoundInv
  <1>4. BoundInv'
    <2>1. /\ StepsBegun' = StepsBegun /\ \A n : Spent(n)' = Spent(n)
          /\ (Spent(StepsBegun))' = Spent(StepsBegun)
      BY <1>1 DEF StepsBegun, Spent, Saving
    <2>2. Below({}, Spent(StepsBegun)) /\ \A t \in Tasks : batch'[t] = {}
      BY <1>1, SpentBefore, NothingHeld DEF NoGroups
    <2>3. \A t \in Tasks : Below(trained'[t], Spent(StepsBegun))
      BY <1>1 DEF DataInv, BoundInv, Below
    <2> QED
      BY <1>1, <2>1, <2>2, <2>3 DEF DataInv, BoundInv
  <1> QED
    BY <1>2, <1>3, <1>4 DEF DataInv

\* What falls out of the list of checkpoints is empty afterwards.
LEMMA ListData == CheckpointInv /\ DataInv /\ ListAndPrune => DataInv'
  <1> SUFFICES ASSUME CheckpointInv, DataInv, ListAndPrune PROVE DataInv'
    OBVIOUS
  <1>1. PICK all : /\ saved' = [s \in Steps |-> IF s \in PrunedOf(all) THEN NoContent ELSE saved[s]]
    BY DEF ListAndPrune
  <1>2. /\ pc = "list" /\ pc' = "open_meta" /\ step' = step
        /\ UNCHANGED <<dataVars, faults, crashes, metaTorn>>
    BY DEF ListAndPrune, loopVars, metaVars, budgetVars, dataVars
  <1>3. saved' \in [Steps -> Contents]
    BY <1>1, NothingHeld DEF DataInv, DataTypes
  <1>4. \A s \in Steps : saved'[s].buffer.completed = NoGroups /\ ContentOK(saved'[s], Spent(s))
    <2>1. \A s \in Steps : Spent(s) \in Nat
      BY SpentBefore DEF Steps
    <2>2. \A s \in Steps : saved'[s] = NoContent \/ saved'[s] = saved[s]
      BY <1>1
    <2> QED
      BY <2>1, <2>2, NothingHeld DEF DataInv, RoundInv, BoundInv
  <1>5. DataTypes'
    BY <1>2, <1>3 DEF DataInv, DataTypes, Weighted, dataVars
  <1>6. RoundInv'
    BY <1>2, <1>4 DEF DataInv, RoundInv, dataVars
  <1>7. BoundInv'
    <2>1. /\ StepsBegun' = StepsBegun /\ \A n : Spent(n)' = Spent(n)
          /\ (Spent(StepsBegun))' = Spent(StepsBegun)
      BY <1>2 DEF StepsBegun, Spent, Saving
    <2> QED
      BY <1>2, <1>4, <2>1 DEF DataInv, BoundInv, dataVars
  <1> QED
    BY <1>5, <1>6, <1>7 DEF DataInv

LEMMA CrashData == CheckpointInv /\ DataInv /\ Crash => DataInv'
  <1> SUFFICES ASSUME CheckpointInv, DataInv, Crash PROVE DataInv'
    OBVIOUS
  <1>1. /\ pc' = "crashed" /\ step' = 1
        /\ loader' = [t \in Tasks |-> FreshLoader]
        /\ pending' = NoGroups /\ completed' = NoGroups /\ rejected' = NoGroups
        /\ batch' = NoGroups /\ trained' = NoGroups
        /\ UNCHANGED <<weight, saved, faults, metaTorn>>
        /\ crashes' = crashes + 1 /\ crashes < MaxCrashes
    BY DEF Crash, dirVars, metaVars
  <1>2. DataTypes'
    <2>1. loader' \in [Tasks -> Loaders] /\ crashes' \in 0 .. MaxCrashes
      BY <1>1, NothingHeld DEF DataInv, DataTypes
    <2> QED
      BY <1>1, <2>1, NothingHeld DEF DataInv, DataTypes, Weighted
  <1>3. RoundInv'
    BY <1>1 DEF DataInv, RoundInv
  <1>4. BoundInv'
    <2>1. /\ StepsBegun' = 0 /\ \A n : Spent(n)' = Spent(n)
          /\ (Spent(StepsBegun))' = Spent(0)
      BY <1>1 DEF StepsBegun, Spent, Saving
    <2>2. Spent(0) \in Nat
      BY SpentBefore
    <2>3. \A t \in Tasks : loader'[t] = FreshLoader /\ NoGroups[t] = {}
      BY <1>1 DEF NoGroups
    <2> QED
      BY <1>1, <2>1, <2>2, <2>3, NothingHeld DEF DataInv, BoundInv
  <1> QED
    BY <1>2, <1>3, <1>4 DEF DataInv

LEMMA StartOverData == CheckpointInv /\ DataInv /\ StartOver => DataInv'
  <1> SUFFICES ASSUME CheckpointInv, DataInv, StartOver PROVE DataInv'
    OBVIOUS
  <1>1. /\ pc = "crashed" /\ pc' = "start" /\ step' = step
        /\ saved' = [s \in Steps |-> NoContent]
        /\ UNCHANGED <<dataVars, faults, crashes, metaTorn>>
    BY DEF StartOver, loopVars, metaVars, budgetVars, dataVars
  <1>2. DataTypes'
    BY <1>1, NothingHeld DEF DataInv, DataTypes, Weighted, dataVars
  <1>3. RoundInv'
    BY <1>1, NothingHeld DEF DataInv, RoundInv, dataVars
  <1>4. BoundInv'
    <2>1. /\ StepsBegun' = StepsBegun /\ \A n : Spent(n)' = Spent(n)
          /\ (Spent(StepsBegun))' = Spent(StepsBegun)
      BY <1>1 DEF StepsBegun, Spent, Saving
    <2>2. \A s \in Steps : saved'[s] = NoContent
      BY <1>1
    <2>3. \A s \in Steps : Spent(s) \in Nat
      BY SpentBefore DEF Steps
    <2> QED
      BY <1>1, <2>1, <2>2, <2>3, NothingHeld DEF DataInv, BoundInv, dataVars
  <1> QED
    BY <1>2, <1>3, <1>4 DEF DataInv

\* A run resumes with the data of the checkpoint, which was spent by its step.
LEMMA ResumeData == CheckpointInv /\ DataInv /\ Resume => DataInv'
  <1> SUFFICES ASSUME CheckpointInv, DataInv, Resume PROVE DataInv'
    OBVIOUS
  <1> DEFINE from == saved[Latest]
  <1>1. /\ pc = "crashed" /\ pc' = "start" /\ Latest # 0 /\ step' = Latest + 1
        /\ loader' = [t \in Tasks |-> LoadedFrom(from.loaders[t])]
        /\ completed' = from.buffer.completed /\ rejected' = from.buffer.rejected
        /\ trained' = from.weights
        /\ UNCHANGED <<weight, pending, batch, saved, faults, crashes, metaTorn>>
    BY DEF Resume, RestoredBuffer, dirVars, metaVars, budgetVars
  <1>2. Latest \in Steps
    <2>1. metaList \in Seq(Steps) /\ metaList # <<>> /\ Latest = metaList[Len(metaList)]
      BY <1>1 DEF Latest, Last, CheckpointInv, CheckpointTypes
    <2>2. Len(metaList) \in 1 .. Len(metaList)
      BY <2>1
    <2> QED
      BY <2>1, <2>2
  <1>3. from \in Contents /\ ContentOK(from, Spent(Latest)) /\ from.buffer.completed = NoGroups
    BY <1>2 DEF DataInv, DataTypes, RoundInv, BoundInv
  <1> HIDE DEF from
  <1>4. /\ \A t \in Tasks : LoadedFrom(from.loaders[t]) \in Loaders
        /\ from.buffer.rejected \in GroupSets /\ from.weights \in GroupSets
    BY <1>3 DEF Contents, Buffers, LoaderStates, LoadedFrom, Loaders
  <1>5. pending = NoGroups /\ batch = NoGroups
    BY <1>1 DEF DataInv, RoundInv
  <1>6. DataTypes'
    <2>1. loader' \in [Tasks -> Loaders]
      BY <1>1, <1>4
    <2> QED
      BY <1>1, <1>3, <1>4, <2>1, NothingHeld DEF DataInv, DataTypes, Weighted
  <1>7. RoundInv'
    BY <1>1, <1>3, <1>5 DEF DataInv, RoundInv
  <1>8. BoundInv'
    <2>1. /\ StepsBegun' = Latest /\ \A n : Spent(n)' = Spent(n)
          /\ (Spent(StepsBegun))' = Spent(Latest) /\ Spent(Latest) \in Nat
      <3>1. Latest \in Nat
        BY <1>2 DEF Steps
      <3>2. StepsBegun' = Latest
        BY <1>1, <3>1 DEF StepsBegun, Saving
      <3> QED
        BY <1>1, <3>1, <3>2, SpentBefore DEF Spent
    <2>2. \A t \in Tasks : /\ LoaderOK(loader'[t], Spent(Latest))
                           /\ Below(rejected'[t], Spent(Latest))
                           /\ Below(trained'[t], Spent(Latest))
      BY <1>1, <1>3 DEF ContentOK
    <2>3. \A t \in Tasks : NoGroups[t] = {}
      BY DEF NoGroups
    <2> QED
      BY <1>1, <1>3, <1>5, <2>1, <2>2, <2>3, NothingHeld DEF DataInv, BoundInv
  <1> QED
    BY <1>6, <1>7, <1>8 DEF DataInv

LEMMA NextData == CheckpointInv /\ DataInv /\ [Next]_vars => DataInv'
  <1> SUFFICES ASSUME CheckpointInv, DataInv, [Next]_vars PROVE DataInv'
    OBVIOUS
  <1>1. CASE StopTraining \/ OpenMeta \/ WriteMeta \/ SyncWeights
    <2>1. /\ UNCHANGED <<dataVars, saved, faults, crashes>>
          /\ metaTorn' \in BOOLEAN
      BY <1>1 DEF StopTraining, OpenMeta, WriteMeta, SyncWeights, dataVars, loopVars, dirVars,
                  metaVars, budgetVars, DataInv, DataTypes
    <2>2. {pc, pc'} \cap {"produce", "train", "crashed"} = {}
      BY <1>1 DEF StopTraining, OpenMeta, WriteMeta, SyncWeights
    <2>3. StepsBegun' = StepsBegun
      <3>1. step \in Nat
        BY SpentBefore
      <3> QED
        BY <1>1, <3>1 DEF StopTraining, OpenMeta, WriteMeta, SyncWeights, loopVars, StepsBegun, Saving
    <2>4. crashes' \in 0 .. MaxCrashes
      BY <2>1 DEF DataInv, DataTypes
    <2> QED
      BY <2>1, <2>2, <2>3, <2>4, FrameKeeps
  <1>2. CASE UNCHANGED vars \/ Terminated
    <2>1. /\ UNCHANGED <<dataVars, saved, faults, crashes, metaTorn, step, pc>>
      BY <1>2 DEF Terminated, vars, dataVars, loopVars, dirVars, metaVars, budgetVars
    <2>2. StepsBegun' = StepsBegun /\ crashes' \in 0 .. MaxCrashes /\ metaTorn' \in BOOLEAN
      BY <2>1 DEF StepsBegun, DataInv, DataTypes
    <2> QED
      BY <2>1, <2>2, FrameKeeps
  <1>3. CASE SaveLoaders \/ SaveBuffer \/ SaveManagerState \/ SaveWeights \/ SaveTrainState
    BY <1>3, WritesData DEF SaveLoaders, SaveBuffer, SaveManagerState, SaveWeights,
                            SaveTrainState, Saving, Files
  <1> QED
    BY <1>1, <1>2, <1>3, StartData, CollectData, TakeData, TrainData, ListData, CrashData,
       StartOverData, ResumeData
    DEF Next, Progress, Produce, Save, Restart

-----------------------------------------------------------------------------
(***************************************************************************)
(* The theorems.                                                           *)
(***************************************************************************)
\* Where the data is: each task generates and holds exactly its share of the
\* batch while it is produced, and a checkpoint holds nothing completed.
THEOREM DataKept == Spec => []DataInv
  <1> QED
    BY InitCheckpoint, NextCheckpoint, InitData, NextData, PTL DEF Spec

\* Nothing completed is left in the buffer and nothing runs any more once a
\* batch has been taken, after a restart as well.
THEOREM NothingKept == Spec => []NothingLeftOver
  <1>1. DataInv => NothingLeftOver
    BY DEF DataInv, RoundInv, NothingLeftOver
  <1> QED
    BY <1>1, DataKept, PTL

\* The groups of a task are draws that the steps and the faults account for.
LEMMA SpentGroups ==
  ASSUME CheckpointInv, DataInv, NEW S \in SUBSET AllDraws, Below(S, Spent(StepsBegun))
  PROVE  S \subseteq Groups
  <1> DEFINE T == TotalSteps * BatchSize
             F == TotalSteps * MaxFaults
             m == StepsBegun * BatchSize
             r == (TotalSteps - StepsBegun) * BatchSize
             f == (TotalSteps - 1) * MaxFaults
  <1>1. StepsBegun \in 0 .. TotalSteps
    BY DEF StepsBegun, CheckpointInv, CheckpointTypes, Steps
  <1>2. T \in Nat /\ F \in Nat /\ m \in Nat /\ r \in Nat /\ f \in Nat
    BY <1>1
  <1>3. T = m + r /\ F = f + MaxFaults
    BY <1>1
  <1>4. TotalSteps * (BatchSize + MaxFaults) = T + F
    OBVIOUS
  <1>5. faults \in Nat /\ faults <= MaxFaults
    BY DEF DataInv, DataTypes
  <1>6. Spent(StepsBegun) = m + faults
    BY DEF Spent
  <1> HIDE DEF T, F, m, r, f
  <1>7. Spent(StepsBegun) <= T + F
    BY <1>2, <1>3, <1>5, <1>6
  <1>8. \A g \in S : /\ g \in AllDraws /\ Index(g) \in Nat /\ g[1] <= Index(g)
                     /\ Index(g) < Spent(StepsBegun)
    BY PlaceType DEF Below
  <1>9. \A g \in S : g[1] \in 0 .. T + F
    BY <1>2, <1>5, <1>6, <1>7, <1>8 DEF AllDraws
  <1> QED
    BY <1>4, <1>8, <1>9 DEF AllDraws, Groups

\* Every variable keeps its type: no epoch is reached that the steps and the
\* faults do not account for.
THEOREM ColocateTypes == Spec => []TypeOK
  <1>1. Init => weight \in [Tasks -> Weights]
    BY DEF Init
  <1>2. weight \in [Tasks -> Weights] /\ CheckpointInv /\ DataInv /\ [Next]_vars
          => (weight \in [Tasks -> Weights])'
    BY DEF Next, Progress, Produce, Save, Restart, StartBatch, CollectResults, TakeBatch,
           TrainOneBatch, SaveLoaders, SaveBuffer, SaveManagerState, SaveWeights,
           SaveTrainState, Writes, ListAndPrune, OpenMeta, WriteMeta, SyncWeights, Crash,
           StartOver, Resume, StopTraining, Terminated, vars, loopVars, dirVars, metaVars,
           budgetVars
  <1>3. weight \in [Tasks -> Weights] /\ CheckpointInv /\ DataInv /\ AbandonedInv => TypeOK
    <2> SUFFICES ASSUME weight \in [Tasks -> Weights], CheckpointInv, DataInv, AbandonedInv
                 PROVE  TypeOK
      OBVIOUS
    <2>1. /\ pending \in [Tasks -> SUBSET Groups] /\ completed \in [Tasks -> SUBSET Groups]
          /\ rejected \in [Tasks -> SUBSET Groups] /\ batch \in [Tasks -> SUBSET Groups]
          /\ trained \in [Tasks -> SUBSET Groups]
      <3>1. ASSUME NEW held \in GroupSets, \A t \in Tasks : Below(held[t], Spent(StepsBegun))
            PROVE  held \in [Tasks -> SUBSET Groups]
        <4>1. \A t \in Tasks : held[t] \in SUBSET AllDraws
          BY DEF GroupSets
        <4>2. \A t \in Tasks : held[t] \subseteq Groups
          BY <3>1, <4>1, SpentGroups
        <4> QED
          BY <4>2 DEF GroupSets
      <3> QED
        BY <3>1 DEF DataInv, DataTypes, BoundInv
    <2>2. pc \in {"start", "produce", "train", "save_loaders", "save_buffer",
                  "save_manager", "save_weights", "save_state", "list",
                  "open_meta", "write_meta", "sync", "crashed", "done"}
      BY DEF CheckpointInv, CheckpointTypes, Locations, Saving
    <2>3. loader \in [Tasks -> [epoch : Nat, pos : 0 .. DatasetSize, total : Nat]]
      BY DEF DataInv, DataTypes, Loaders
    <2> QED
      BY <2>1, <2>2, <2>3
      DEF TypeOK, CheckpointInv, CheckpointTypes, DataInv, DataTypes, AbandonedInv
  <1> QED
    BY <1>1, <1>2, <1>3, CheckpointProtocol, DirectoriesKept, DataKept, PTL DEF Spec

-----------------------------------------------------------------------------
(***************************************************************************)
(* Every draw in one place.  As long as no checkpoint falls on the end of  *)
(* an epoch, the place of a loader is the number of its draws, in memory   *)
(* and in the checkpoint that a restart reads.                             *)
(***************************************************************************)
Held(t) == pending[t] \cup completed[t] \cup rejected[t] \cup batch[t] \cup trained[t]

Apart(t) ==
  /\ pending[t] \cap (completed[t] \cup rejected[t] \cup batch[t] \cup trained[t]) = {}
  /\ completed[t] \cap (rejected[t] \cup batch[t] \cup trained[t]) = {}
  /\ rejected[t] \cap (batch[t] \cup trained[t]) = {}
  /\ batch[t] \cap trained[t] = {}

\* The loader l handed out the groups of S and no others.
Accounts(l, S) ==
  /\ Place(l) = l.total
  /\ IsFiniteSet(S) /\ Cardinality(S) = l.total
  /\ \A g \in S : Index(g) < l.total

SavedExact(content) ==
  \A t \in Tasks :
    /\ Accounts(LoadedFrom(content.loaders[t]), content.buffer.rejected[t] \cup content.weights[t])
    /\ content.buffer.rejected[t] \cap content.weights[t] = {}

\* What was written of the checkpoint of this step is what is in memory.
SavedAsLive ==
  /\ pc \in Saving \ {"save_loaders"} =>
       saved[step].loaders = [t \in Tasks |-> LoaderState(loader[t])]
  /\ pc \in Saving \ {"save_loaders", "save_buffer"} =>
       saved[step].buffer = [completed |-> completed, rejected |-> rejected]
  /\ pc \in {"save_state", "list", "open_meta", "write_meta"} =>
       saved[step].weights = trained

AllAccounted == \A t \in Tasks : Apart(t) /\ Accounts(loader[t], Held(t))

LatestExact == Latest # 0 => SavedExact(saved[Latest])

ExactInv == AllAccounted /\ LatestExact

-----------------------------------------------------------------------------
(***************************************************************************)
(* The checkpoint that is being written.                                   *)
(***************************************************************************)
\* Listing a checkpoint does not delete it.
LEMMA StepStays ==
  ASSUME CheckpointInv, pc = "list"
  PROVE  step \in Steps /\ step \notin PrunedOf(Append(ckptList, step))
  <1> DEFINE all == Append(ckptList, step)
  <1>1. /\ step \in Steps /\ ckptList \in Seq(Steps) /\ Ordered(ckptList)
        /\ step % SyncInterval = 0 /\ \A i \in 1 .. Len(ckptList) : ckptList[i] < step
    BY DEF CheckpointInv, CheckpointTypes, ListsAgree, LabelsAgree, Saving
  <1>2. /\ all \in Seq(Steps) /\ Ordered(all) /\ Last(all) = step
        /\ Len(all) = Len(ckptList) + 1 /\ Len(ckptList) \in Nat
    BY <1>1, ListedOrder
  <1> HIDE DEF all
  <1>3. Len(all) \in 1 .. Len(all) /\ all[Len(all)] = step
    BY <1>2 DEF Last
  <1>4. all[Len(all)] \notin PrunedOf(all)
    BY <1>2, <1>3, LastTwoStay
  <1> QED
    BY <1>1, <1>3, <1>4 DEF all

LEMMA NextSaved == CheckpointInv /\ DataInv /\ SavedAsLive /\ [Next]_vars => SavedAsLive'
  <1> SUFFICES ASSUME CheckpointInv, DataInv, SavedAsLive, [Next]_vars PROVE SavedAsLive'
    OBVIOUS
  <1>1. ASSUME NEW at \in Saving, NEW next \in Saving, NEW file \in Files,
               Writes(at, file, next),
               \/ at = "save_loaders" /\ file = "dataloader" /\ next = "save_buffer"
               \/ at = "save_buffer" /\ file = "replay_buffer" /\ next = "save_manager"
               \/ at = "save_manager" /\ file = "manager_state" /\ next = "save_weights"
               \/ at = "save_weights" /\ file = "weights" /\ next = "save_state"
               \/ at = "save_state" /\ file = "train_state" /\ next = "list"
        PROVE  SavedAsLive'
    <2> DEFINE old == saved[step]
               new == saved'[step]
    <2>1. /\ pc = at /\ pc' = next /\ step \in Steps /\ step' = step
          /\ UNCHANGED <<loader, completed, rejected, trained>>
          /\ saved \in [Steps -> Contents]
      BY <1>1 DEF Writes, loopVars, CheckpointInv, CheckpointTypes, DataInv, DataTypes
    <2>2. old \in Contents
      BY <2>1
    <2>3. new = CASE file = "dataloader"    ->
                       [old EXCEPT !.loaders = [t \in Tasks |-> LoaderState(loader[t])]]
                  [] file = "replay_buffer" ->
                       [old EXCEPT !.buffer = [completed |-> completed, rejected |-> rejected]]
                  [] file = "weights"       -> [old EXCEPT !.weights = trained]
                  [] OTHER                  -> old
      BY <1>1, <2>1 DEF Writes
    <2> HIDE DEF old, new
    <2>4. /\ file = "dataloader" => new.loaders = [t \in Tasks |-> LoaderState(loader[t])]
          /\ file # "dataloader" => new.loaders = old.loaders
          /\ file = "replay_buffer" => new.buffer = [completed |-> completed, rejected |-> rejected]
          /\ file # "replay_buffer" => new.buffer = old.buffer
          /\ file = "weights" => new.weights = trained
          /\ file # "weights" => new.weights = old.weights
      BY <2>2, <2>3 DEF Contents, Files
    <2>5. [t \in Tasks |-> LoaderState(loader'[t])] = [t \in Tasks |-> LoaderState(loader[t])]
      BY <2>1
    <2> QED
      BY <1>1, <2>1, <2>4, <2>5 DEF SavedAsLive, Saving, old, new
  <1>2. CASE SaveLoaders \/ SaveBuffer \/ SaveManagerState \/ SaveWeights \/ SaveTrainState
    BY <1>1, <1>2 DEF SaveLoaders, SaveBuffer, SaveManagerState, SaveWeights,
                      SaveTrainState, Saving, Files
  <1>3. CASE ListAndPrune
    <2>1. saved'[step] = saved[step]
      BY <1>3, StepStays DEF ListAndPrune
    <2>2. /\ pc = "list" /\ pc' = "open_meta"
          /\ UNCHANGED <<step, loader, completed, rejected, trained>>
      BY <1>3 DEF ListAndPrune, loopVars
    <2> QED
      BY <2>1, <2>2 DEF SavedAsLive, Saving
  <1>4. CASE OpenMeta
    BY <1>4 DEF OpenMeta, SavedAsLive, Saving, loopVars, dirVars
  <1>5. CASE UNCHANGED vars \/ Terminated
    BY <1>5 DEF Terminated, vars, SavedAsLive, loopVars, dirVars
  <1>6. CASE \/ StartBatch \/ (\E t \in Tasks : CollectResults(t)) \/ TakeBatch \/ StopTraining
             \/ TrainOneBatch \/ WriteMeta \/ SyncWeights \/ Crash \/ StartOver \/ Resume
    <2>1. pc' \notin Saving \ {"save_loaders"}
      BY <1>6 DEF StartBatch, CollectResults, TakeBatch, StopTraining, TrainOneBatch, WriteMeta,
                  SyncWeights, Crash, StartOver, Resume, Saving
    <2> QED
      BY <2>1 DEF SavedAsLive, Saving
  <1> QED
    BY <1>2, <1>3, <1>4, <1>5, <1>6 DEF Next, Progress, Produce, Save, Restart

\* A checkpoint that is taken away from the end of an epoch is exact.
LEMMA ExactLoader ==
  ASSUME NEW l \in Loaders, l.pos # DatasetSize, Place(l) = l.total
  PROVE  /\ LoadedFrom(LoaderState(l)) \in Loaders
         /\ Place(LoadedFrom(LoaderState(l))) = l.total
         /\ LoadedFrom(LoaderState(l)).total = l.total
  <1>1. l.epoch \in Nat /\ l.pos \in 0 .. DatasetSize - 1 /\ l.total \in Nat
    BY DEF Loaders
  <1>2. l.total = DatasetSize * l.epoch + l.pos
    <2>1. l.epoch * DatasetSize = DatasetSize * l.epoch
      BY <1>1
    <2> QED
      BY <2>1 DEF Place
  <1>3. l.total % DatasetSize = l.pos
    <2>1. (DatasetSize * l.epoch + l.pos) % DatasetSize = l.pos
      BY <1>1, RemainderUnique
    <2> QED
      BY <2>1, <1>2
  <1>4. LoadedFrom(LoaderState(l)) = [epoch |-> l.epoch, pos |-> l.pos, total |-> l.total]
    BY <1>3 DEF LoaderState, LoadedFrom
  <1> QED
    BY <1>1, <1>4 DEF Loaders, Place

LEMMA SnapshotExact ==
  ASSUME CheckpointInv, DataInv, SavedAsLive, AllAccounted, EpochOpen,
         pc \in {"open_meta", "write_meta"}
  PROVE  SavedExact(saved[step])
  <1>1. /\ saved[step].loaders = [t \in Tasks |-> LoaderState(loader[t])]
        /\ saved[step].buffer = [completed |-> completed, rejected |-> rejected]
        /\ saved[step].weights = trained
    BY DEF SavedAsLive, Saving
  <1>2. \A t \in Tasks : /\ saved[step].loaders[t] = LoaderState(loader[t])
                        /\ saved[step].buffer.rejected[t] = rejected[t]
                        /\ saved[step].weights[t] = trained[t]
    BY <1>1
  <1>3. pending = NoGroups /\ completed = NoGroups /\ batch = NoGroups
    BY DEF DataInv, RoundInv
  <1> SUFFICES ASSUME NEW t \in Tasks
               PROVE  /\ Accounts(LoadedFrom(LoaderState(loader[t])), rejected[t] \cup trained[t])
                      /\ rejected[t] \cap trained[t] = {}
    BY <1>2 DEF SavedExact
  <1>4. Apart(t) /\ Accounts(loader[t], Held(t)) /\ loader[t] \in Loaders
    BY DEF AllAccounted, DataInv, DataTypes
  <1>5. Held(t) = rejected[t] \cup trained[t]
    BY <1>3 DEF Held, NoGroups
  <1>6. loader[t].pos # DatasetSize
    BY DEF EpochOpen, Saving
  <1>7. /\ Place(LoadedFrom(LoaderState(loader[t]))) = loader[t].total
        /\ LoadedFrom(LoaderState(loader[t])).total = loader[t].total
    BY <1>4, <1>6, ExactLoader DEF Accounts
  <1> QED
    BY <1>4, <1>5, <1>7 DEF Accounts, Apart

\* The listed checkpoint is one of the steps, older than the one being written.
LEMMA LatestIs ==
  ASSUME CheckpointInv, Latest # 0
  PROVE  /\ metaList # <<>> /\ Latest \in Steps
         /\ pc \in {"start", "produce", "train"} \cup (Saving \ {"open_meta", "write_meta"})
              => Latest < step
  <1>1. metaList \in Seq(Steps) /\ metaList # <<>> /\ Latest = metaList[Len(metaList)]
    BY DEF Latest, Last, CheckpointInv, CheckpointTypes
  <1>2. Len(metaList) \in 1 .. Len(metaList)
    BY <1>1
  <1> QED
    BY <1>1, <1>2 DEF CheckpointInv, ListsAgree

LEMMA NoContentExact == SavedExact(NoContent)
  <1>1. \A t \in Tasks : /\ NoContent.loaders[t] = LoaderState(FreshLoader)
                         /\ NoContent.buffer.rejected[t] = {} /\ NoContent.weights[t] = {}
    BY DEF NoContent, NoGroups
  <1>2. /\ FreshLoader \in Loaders /\ FreshLoader.pos # DatasetSize
        /\ Place(FreshLoader) = 0 /\ FreshLoader.total = 0
    BY NothingHeld DEF FreshLoader
  <1>3. /\ Place(LoadedFrom(LoaderState(FreshLoader))) = 0
        /\ LoadedFrom(LoaderState(FreshLoader)).total = 0
    BY <1>2, ExactLoader
  <1>4. Accounts(LoadedFrom(LoaderState(FreshLoader)), {})
    BY <1>3, FS_EmptySet DEF Accounts
  <1>5. {} \cup {} = {}
    OBVIOUS
  <1> QED
    BY <1>1, <1>4, <1>5 DEF SavedExact

LEMMA NextLatestExact ==
  ASSUME CheckpointInv, DataInv, SavedAsLive, ExactInv, EpochOpen, [Next]_vars
  PROVE  LatestExact'
  <1>1. ASSUME NEW at \in Saving \ {"open_meta", "write_meta"}, NEW next, NEW file,
               Writes(at, file, next)
        PROVE  LatestExact'
    <2>1. /\ pc = at /\ metaList' = metaList /\ step \in Steps /\ saved \in [Steps -> Contents]
          /\ \A s \in Steps : s # step => saved'[s] = saved[s]
      BY <1>1 DEF Writes, metaVars, CheckpointInv, CheckpointTypes, DataInv, DataTypes
    <2>2. Latest' = Latest
      BY <2>1 DEF Latest, Last
    <2>3. ASSUME Latest # 0 PROVE Latest \in Steps /\ Latest # step
      BY <2>1, <2>3, LatestIs DEF Steps
    <2> QED
      BY <2>1, <2>2, <2>3 DEF ExactInv, LatestExact
  <1>2. CASE SaveLoaders \/ SaveBuffer \/ SaveManagerState \/ SaveWeights \/ SaveTrainState
    BY <1>1, <1>2 DEF SaveLoaders, SaveBuffer, SaveManagerState, SaveWeights,
                      SaveTrainState, Saving
  <1>3. CASE ListAndPrune
    <2>1. /\ metaList' = metaList
          /\ \A s \in Steps : saved'[s] = NoContent \/ saved'[s] = saved[s]
      BY <1>3 DEF ListAndPrune, metaVars
    <2>2. Latest' = Latest
      BY <2>1 DEF Latest, Last
    <2>3. Latest # 0 => SavedExact(saved'[Latest])
      BY <2>1, LatestIs, NoContentExact DEF ExactInv, LatestExact
    <2> QED
      BY <2>2, <2>3 DEF LatestExact
  <1>4. CASE WriteMeta
    <2>1. /\ pc = "write_meta" /\ metaList' = ckptList /\ saved' = saved
          /\ ckptList # <<>> /\ Last(ckptList) = step
      BY <1>4 DEF WriteMeta, dirVars, CheckpointInv, ListsAgree
    <2>2. Latest' = step
      BY <2>1 DEF Latest, Last
    <2> QED
      BY <2>1, <2>2, SnapshotExact DEF LatestExact, ExactInv
  <1>5. CASE StartOver
    BY <1>5 DEF StartOver, LatestExact, Latest, Last, metaVars
  <1>6. CASE \/ StartBatch \/ (\E t \in Tasks : CollectResults(t)) \/ TakeBatch \/ StopTraining
             \/ TrainOneBatch \/ SyncWeights \/ Crash \/ Resume \/ OpenMeta \/ UNCHANGED vars
             \/ Terminated
    <2>1. UNCHANGED <<saved, metaList>>
      BY <1>6 DEF StartBatch, CollectResults, TakeBatch, StopTraining, TrainOneBatch,
                  SyncWeights, Crash, Resume, OpenMeta, Terminated, vars, dirVars, metaVars
    <2> QED
      BY <2>1 DEF ExactInv, LatestExact, Latest, Last
  <1> QED
    BY <1>2, <1>3, <1>4, <1>5, <1>6 DEF Next, Progress, Produce, Save, Restart

-----------------------------------------------------------------------------
(***************************************************************************)
(* The groups in memory.                                                   *)
(***************************************************************************)
\* What a loader hands out next is new and accounted for.
LEMMA DrawnAccounts ==
  ASSUME NEW l \in Loaders, NEW S \in SUBSET AllDraws, Accounts(l, S), NEW n \in Nat
  PROVE  /\ S \cap Draws(l, n) = {}
         /\ Accounts(AfterDraws(l, n), S \cup Draws(l, n))
  <1>1. /\ Place(l) = l.total /\ l.total \in Nat /\ IsFiniteSet(S) /\ Cardinality(S) = l.total
        /\ \A g \in S : Index(g) < l.total /\ Index(g) \in Nat
    BY PlaceType DEF Accounts, Loaders
  <1>2. /\ Draws(l, n) \subseteq AllDraws
        /\ IsFiniteSet(Draws(l, n)) /\ Cardinality(Draws(l, n)) = n
        /\ \A g \in Draws(l, n) : l.total <= Index(g) /\ Index(g) < l.total + n
    BY <1>1, DrawsAre
  <1>3. S \cap Draws(l, n) = {}
    BY <1>1, <1>2
  <1>4. /\ IsFiniteSet(S \cup Draws(l, n))
        /\ Cardinality(S \cup Draws(l, n)) = l.total + n
    BY <1>1, <1>2, <1>3, UnionDisjoint
  <1>5. Place(AfterDraws(l, n)) = l.total + n /\ AfterDraws(l, n).total = l.total + n
    BY <1>1, AfterDrawsIs
  <1>6. \A g \in S \cup Draws(l, n) : Index(g) < l.total + n
    BY <1>1, <1>2
  <1> QED
    BY <1>3, <1>4, <1>5, <1>6 DEF Accounts

LEMMA HeldType ==
  ASSUME DataInv, NEW t \in Tasks
  PROVE  /\ loader[t] \in Loaders /\ Held(t) \in SUBSET AllDraws
         /\ TaskBatchSize(t) \in Nat
  BY ShareBound DEF DataInv, DataTypes, GroupSets, Held

LEMMA StartAccounts ==
  ASSUME CheckpointInv, DataInv, AllAccounted, StartBatch
  PROVE  AllAccounted'
  <1>1. /\ pc = "start"
        /\ \A t \in Tasks : /\ pending'[t] = Draws(loader[t], TaskBatchSize(t))
                            /\ loader'[t] = AfterDraws(loader[t], TaskBatchSize(t))
        /\ UNCHANGED <<completed, rejected, batch, trained>>
    BY DEF StartBatch, ToStart
  <1>2. \A t \in Tasks : pending[t] = {} /\ completed[t] = {} /\ batch[t] = {}
    BY <1>1 DEF DataInv, RoundInv, NoGroups
  <1> SUFFICES ASSUME NEW t \in Tasks PROVE Apart(t)' /\ (Accounts(loader[t], Held(t)))'
    BY DEF AllAccounted
  <1>3. Apart(t) /\ Accounts(loader[t], Held(t))
    BY DEF AllAccounted
  <1>4. /\ Held(t) \cap pending'[t] = {}
        /\ Accounts(loader'[t], Held(t) \cup pending'[t])
    <2> DEFINE l == loader[t]
               n == TaskBatchSize(t)
               S == Held(t)
    <2>1. /\ l \in Loaders /\ S \in SUBSET AllDraws /\ n \in Nat /\ Accounts(l, S)
          /\ pending'[t] = Draws(l, n) /\ loader'[t] = AfterDraws(l, n)
      BY <1>1, <1>3, HeldType
    <2> HIDE DEF l, n, S
    <2>2. S \cap pending'[t] = {} /\ Accounts(loader'[t], S \cup pending'[t])
      BY <2>1, DrawnAccounts
    <2> QED
      BY <2>2 DEF S
  <1>5. Held(t)' = Held(t) \cup pending'[t]
    BY <1>1, <1>2 DEF Held
  <1> QED
    BY <1>1, <1>2, <1>3, <1>4, <1>5 DEF Held, Apart, Accounts

LEMMA RefillType ==
  ASSUME DataInv, pc = "produce", NEW t \in Tasks,
         NEW finished \in SUBSET pending[t], NEW good \in SUBSET finished
  PROVE  Refill(t, Cardinality(pending[t] \ finished), Cardinality(completed[t] \cup good)) \in Nat
  <1>1. /\ RoundOK(t) /\ Weighted /\ loader[t] \in Loaders
        /\ pending[t] \subseteq AllDraws /\ completed[t] \subseteq AllDraws
    BY DEF DataInv, RoundInv, DataTypes, GroupSets
  <1>2. RoundLeaves(t, finished, Cardinality(finished \ good),
                    (pending[t] \ finished) \cup Draws(loader[t], Cardinality(finished \ good)),
                    completed[t] \cup good)
    BY <1>1, RoundCounts
  <1> QED
    BY <1>2 DEF RoundLeaves

LEMMA CollectAccounts ==
  ASSUME CheckpointInv, DataInv, AllAccounted, NEW t \in Tasks, CollectResults(t)
  PROVE  AllAccounted'
  <1>1. PICK finished \in SUBSET pending[t] : \E good \in SUBSET finished :
          LET bad     == finished \ good
              missing == Refill(t, Cardinality(pending[t] \ finished),
                                   Cardinality(completed[t] \cup good))
          IN /\ completed' = [completed EXCEPT ![t] = @ \cup good]
             /\ rejected' = [rejected EXCEPT ![t] = @ \cup bad]
             /\ pending' = [pending EXCEPT ![t] = (@ \ finished) \cup Draws(loader[t], missing)]
             /\ loader' = [loader EXCEPT ![t] = AfterDraws(@, missing)]
    BY DEF CollectResults
  <1>2. PICK good \in SUBSET finished :
          LET bad     == finished \ good
              missing == Refill(t, Cardinality(pending[t] \ finished),
                                   Cardinality(completed[t] \cup good))
          IN /\ completed' = [completed EXCEPT ![t] = @ \cup good]
             /\ rejected' = [rejected EXCEPT ![t] = @ \cup bad]
             /\ pending' = [pending EXCEPT ![t] = (@ \ finished) \cup Draws(loader[t], missing)]
             /\ loader' = [loader EXCEPT ![t] = AfterDraws(@, missing)]
    BY <1>1
  <1> DEFINE bad == finished \ good
             n == Refill(t, Cardinality(pending[t] \ finished),
                            Cardinality(completed[t] \cup good))
             D == Draws(loader[t], n)
  <1>3. UNCHANGED <<batch, trained>> /\ pc = "produce" /\ Weighted
    BY DEF CollectResults, DataInv, DataTypes
  <1>4. n \in Nat
    BY <1>3, RefillType
  <1> HIDE DEF n
  <1>5. \A u \in Tasks :
          /\ completed'[u] = IF u = t THEN completed[t] \cup good ELSE completed[u]
          /\ rejected'[u] = IF u = t THEN rejected[t] \cup bad ELSE rejected[u]
          /\ pending'[u] = IF u = t THEN (pending[t] \ finished) \cup D ELSE pending[u]
          /\ loader'[u] = IF u = t THEN AfterDraws(loader[t], n) ELSE loader[u]
    BY <1>2 DEF DataInv, DataTypes, GroupSets, n
  <1>6. Held(t) \cap D = {} /\ Accounts(AfterDraws(loader[t], n), Held(t) \cup D)
    BY <1>4, HeldType, DrawnAccounts DEF AllAccounted
  <1> HIDE DEF D
  <1> SUFFICES ASSUME NEW u \in Tasks PROVE Apart(u)' /\ (Accounts(loader[u], Held(u)))'
    BY DEF AllAccounted
  <1>7. Apart(u) /\ Accounts(loader[u], Held(u))
    BY DEF AllAccounted
  <1>8. CASE u # t
    <2>1. Held(u)' = Held(u) /\ Apart(u)'
      BY <1>3, <1>5, <1>7, <1>8 DEF Held, Apart
    <2> QED
      BY <1>5, <1>7, <1>8, <2>1 DEF Accounts
  <1>9. CASE u = t
    <2>1. Held(t)' = Held(t) \cup D
      BY <1>3, <1>5 DEF Held
    <2>2. Apart(t)'
      BY <1>3, <1>5, <1>6, <1>7, <1>9 DEF Held, Apart
    <2> QED
      BY <1>5, <1>6, <1>9, <2>1, <2>2 DEF Accounts
  <1> QED
    BY <1>8, <1>9

LEMMA TakeAccounts ==
  ASSUME CheckpointInv, DataInv, AllAccounted, TakeBatch
  PROVE  AllAccounted'
  <1>1. PICK taken \in [Tasks -> SUBSET UNION {completed[t] : t \in Tasks}] :
          /\ \A t \in Tasks : /\ taken[t] \subseteq completed[t]
                              /\ Cardinality(taken[t]) = TaskBatchSize(t)
          /\ batch' = taken
          /\ completed' = [t \in Tasks |-> completed[t] \ taken[t]]
    BY DEF TakeBatch
  <1>2. /\ pc = "produce" /\ UNCHANGED <<loader, pending, rejected, trained>>
        /\ \A t \in Tasks : batch[t] = {}
    BY DEF TakeBatch, DataInv, RoundInv, NoGroups
  <1> SUFFICES ASSUME NEW t \in Tasks PROVE Apart(t)' /\ (Accounts(loader[t], Held(t)))'
    BY DEF AllAccounted
  <1>3. Apart(t) /\ Accounts(loader[t], Held(t))
    BY DEF AllAccounted
  <1>4. batch'[t] \subseteq completed[t] /\ completed'[t] = completed[t] \ batch'[t]
    BY <1>1
  <1>5. Held(t)' = Held(t) /\ Apart(t)'
    BY <1>2, <1>3, <1>4 DEF Held, Apart
  <1> QED
    BY <1>2, <1>3, <1>5 DEF Accounts

LEMMA TrainAccounts ==
  ASSUME CheckpointInv, DataInv, AllAccounted, TrainOneBatch
  PROVE  AllAccounted'
  <1>1. /\ \A t \in Tasks : trained'[t] = trained[t] \cup batch[t] /\ batch'[t] = {}
        /\ UNCHANGED <<loader, pending, completed, rejected>>
    BY DEF TrainOneBatch, NoGroups
  <1> SUFFICES ASSUME NEW t \in Tasks PROVE Apart(t)' /\ (Accounts(loader[t], Held(t)))'
    BY DEF AllAccounted
  <1>2. Apart(t) /\ Accounts(loader[t], Held(t))
    BY DEF AllAccounted
  <1>3. Held(t)' = Held(t) /\ Apart(t)'
    BY <1>1, <1>2 DEF Held, Apart
  <1> QED
    BY <1>1, <1>2, <1>3 DEF Accounts

LEMMA CrashAccounts ==
  ASSUME DataInv, Crash
  PROVE  AllAccounted'
  <1>1. \A t \in Tasks : /\ loader'[t] = FreshLoader /\ pending'[t] = {} /\ completed'[t] = {}
                         /\ rejected'[t] = {} /\ batch'[t] = {} /\ trained'[t] = {}
    BY DEF Crash, NoGroups
  <1>2. Accounts(FreshLoader, {})
    BY NothingHeld, FS_EmptySet DEF Accounts
  <1> SUFFICES ASSUME NEW t \in Tasks PROVE Apart(t)' /\ (Accounts(loader[t], Held(t)))'
    BY DEF AllAccounted
  <1>3. Held(t)' = {} /\ Apart(t)'
    BY <1>1 DEF Held, Apart
  <1> QED
    BY <1>1, <1>2, <1>3 DEF Accounts

LEMMA ResumeAccounts ==
  ASSUME CheckpointInv, DataInv, ExactInv, Resume
  PROVE  AllAccounted'
  <1> DEFINE from == saved[Latest]
  <1>1. /\ pc = "crashed" /\ Latest # 0
        /\ loader' = [t \in Tasks |-> LoadedFrom(from.loaders[t])]
        /\ completed' = from.buffer.completed /\ rejected' = from.buffer.rejected
        /\ trained' = from.weights
        /\ UNCHANGED <<pending, batch>>
    BY DEF Resume, RestoredBuffer
  <1>2. /\ SavedExact(from) /\ Latest \in Steps
        /\ from.buffer.completed = NoGroups /\ pending = NoGroups /\ batch = NoGroups
    BY <1>1, LatestIs DEF ExactInv, LatestExact, DataInv, RoundInv
  <1> HIDE DEF from
  <1> SUFFICES ASSUME NEW t \in Tasks PROVE Apart(t)' /\ (Accounts(loader[t], Held(t)))'
    BY DEF AllAccounted
  <1>3. /\ pending'[t] = {} /\ completed'[t] = {} /\ batch'[t] = {}
        /\ rejected'[t] \cap trained'[t] = {}
        /\ Accounts(loader'[t], rejected'[t] \cup trained'[t])
    BY <1>1, <1>2 DEF SavedExact, NoGroups
  <1>4. Held(t)' = rejected'[t] \cup trained'[t] /\ Apart(t)'
    BY <1>3 DEF Held, Apart
  <1> QED
    BY <1>3, <1>4 DEF Accounts

LEMMA NextExact ==
  CheckpointInv /\ DataInv /\ SavedAsLive /\ EpochOpen /\ ExactInv /\ [Next]_vars => ExactInv'
  <1> SUFFICES ASSUME CheckpointInv, DataInv, SavedAsLive, EpochOpen, ExactInv, [Next]_vars
               PROVE  AllAccounted'
    BY NextLatestExact DEF ExactInv
  <1>1. AllAccounted
    BY DEF ExactInv
  <1>2. CASE Save \/ StopTraining \/ SyncWeights \/ StartOver \/ Terminated \/ UNCHANGED vars
    <2>1. UNCHANGED <<loader, pending, completed, rejected, batch, trained>>
      BY <1>2 DEF Save, SaveLoaders, SaveBuffer, SaveManagerState, SaveWeights, SaveTrainState,
                  Writes, ListAndPrune, OpenMeta, WriteMeta, StopTraining, SyncWeights,
                  StartOver, Terminated, vars, loopVars
    <2>2. \A t \in Tasks : Held(t)' = Held(t) /\ Apart(t)' = Apart(t)
      BY <2>1 DEF Held, Apart
    <2> QED
      BY <1>1, <2>1, <2>2 DEF AllAccounted, Accounts
  <1> QED
    BY <1>1, <1>2, StartAccounts, CollectAccounts, TakeAccounts, TrainAccounts, CrashAccounts,
       ResumeAccounts
    DEF Next, Progress, Produce, Restart

LEMMA InitExact == Init => SavedAsLive /\ ExactInv
  <1> SUFFICES ASSUME Init PROVE SavedAsLive /\ ExactInv
    OBVIOUS
  <1> USE DEF Init
  <1>1. SavedAsLive /\ LatestExact
    BY DEF SavedAsLive, Saving, LatestExact, Latest
  <1>2. Accounts(FreshLoader, {})
    BY NothingHeld, FS_EmptySet DEF Accounts
  <1>3. \A t \in Tasks : Held(t) = {} /\ Apart(t) /\ loader[t] = FreshLoader
    BY DEF Held, Apart, NoGroups
  <1> QED
    BY <1>1, <1>2, <1>3 DEF ExactInv, AllAccounted

\* In a run in which no checkpoint falls on the end of an epoch, the place of
\* every loader is the number of its draws, in memory and in the checkpoint a
\* restart reads.
THEOREM DrawsExact == Spec /\ []EpochOpen => [](SavedAsLive /\ ExactInv)
  <1> QED
    BY InitExact, NextSaved, NextExact, CheckpointProtocol, DataKept, PTL DEF Spec

\* In such a run every group that was ever drawn is in exactly one place, across
\* crashes: no prompt of an epoch is trained on twice and none is skipped.
THEOREM DrawsAccounted == Spec /\ []EpochOpen => []EveryDrawAccounted
  <1>1. ExactInv => EveryDrawAccounted
    <2> SUFFICES ASSUME ExactInv, NEW t \in Tasks,
                        NEW held, held = <<pending[t], completed[t], rejected[t], batch[t], trained[t]>>
                 PROVE  /\ \A i, j \in 1 .. 5 : i # j => held[i] \cap held[j] = {}
                        /\ Cardinality(UNION {held[i] : i \in 1 .. 5}) = loader[t].total
      BY DEF EveryDrawAccounted
    <2>1. /\ held[1] = pending[t] /\ held[2] = completed[t] /\ held[3] = rejected[t]
          /\ held[4] = batch[t] /\ held[5] = trained[t]
      OBVIOUS
    <2>2. Apart(t) /\ Accounts(loader[t], Held(t))
      BY DEF ExactInv, AllAccounted
    <2>3. \A i, j \in 1 .. 5 : i # j => held[i] \cap held[j] = {}
      <3> SUFFICES ASSUME NEW i \in 1 .. 5, NEW j \in 1 .. 5, i # j
                   PROVE  held[i] \cap held[j] = {}
        OBVIOUS
      <3>1. (i = 1 \/ i = 2 \/ i = 3 \/ i = 4 \/ i = 5) /\ (j = 1 \/ j = 2 \/ j = 3 \/ j = 4 \/ j = 5)
        OBVIOUS
      <3> QED
        BY <2>1, <2>2, <3>1 DEF Apart
    <2>4. UNION {held[i] : i \in 1 .. 5} = Held(t)
      <3>1. 1 .. 5 = {1, 2, 3, 4, 5}
        OBVIOUS
      <3>2. UNION {held[i] : i \in {1, 2, 3, 4, 5}} = Held(t)
        BY <2>1 DEF Held
      <3> QED
        BY <3>1, <3>2, Zenon
    <2> QED
      BY <2>2, <2>3, <2>4 DEF Accounts
  <1> QED
    BY <1>1, DrawsExact, PTL

\* In such a run no prompt is handed out that was trained on at that place of
\* that epoch, across crashes.
THEOREM EpochsNotRepeated == Spec /\ []EpochOpen => []EpochsReshuffled
  <1>1. ExactInv => EpochsReshuffled
    BY DEF ExactInv, AllAccounted, Apart, EpochsReshuffled
  <1> QED
    BY <1>1, DrawsExact, PTL

-----------------------------------------------------------------------------
(***************************************************************************)
(* The refinement: checkpoints of several files implement checkpoints      *)
(* taken at once.                                                          *)
(***************************************************************************)
\* The shares of all tasks are the batch, also when there is one task only.
LEMMA BatchIsShares ==
  ASSUME Weighted, NEW k, \A t \in Tasks : k[t] = TaskBatchSize(t)
  PROVE  Sum(k, Tasks) = BatchSize
  <1> DEFINE f == [t \in Tasks |-> TaskBatchSize(t)]
  <1>1. \A t \in Tasks : f[t] = TaskBatchSize(t) /\ f[t] \in Nat /\ k[t] = f[t]
    BY ShareBound
  <1>2. Sum(f, Tasks) = BatchSize
    <2>1. CASE NumTasks > 1
      <3>1. FoldFunction(+, 0, f) = BatchSize
        BY <2>1, SharesSum
      <3>2. DOMAIN f = Tasks
        OBVIOUS
      <3> HIDE DEF f
      <3> QED
        BY <3>1, <3>2, FoldIsSum
    <2>2. CASE NumTasks = 1
      <3>1. Tasks = {1} /\ f[1] = BatchSize
        BY <2>2 DEF Tasks, TaskBatchSize
      <3> HIDE DEF f
      <3>2. Pick({1}) = 1 /\ Rest({1}) = {} /\ IsFiniteSet({1}) /\ IsFiniteSet({})
        BY FS_Singleton, FS_EmptySet DEF Pick, Rest
      <3>3. Sum(f, {}) = 0 /\ Sum(f, {1}) = f[Pick({1})] + Sum(f, Rest({1}))
        BY <3>2, SumUnfolds
      <3> QED
        BY <3>1, <3>2, <3>3
    <2> QED
      BY <2>1, <2>2
  <1> HIDE DEF f
  <1>3. Sum(k, Tasks) <= Sum(f, Tasks) /\ Sum(f, Tasks) <= Sum(k, Tasks)
    BY <1>1, TasksFinite, SumMonotone
  <1>4. Sum(k, Tasks) \in Int
    BY <1>1, TasksFinite, SumType
  <1> QED
    BY <1>2, <1>3, <1>4

\* A batch more in every task is one global batch more.
LEMMA BatchMore ==
  ASSUME Weighted, NEW a, NEW b,
         \A t \in Tasks : /\ Cardinality(a[t]) \in Nat
                          /\ Cardinality(b[t]) = Cardinality(a[t]) + TaskBatchSize(t)
  PROVE  GroupsIn(b) = GroupsIn(a) + BatchSize
  <1> DEFINE f == [t \in Tasks |-> Cardinality(b[t])]
             g == [t \in Tasks |-> Cardinality(a[t])]
             k == [t \in Tasks |-> TaskBatchSize(t)]
  <1>1. /\ \A t \in Tasks : /\ f[t] \in Int /\ g[t] \in Int /\ k[t] \in Int
                            /\ f[t] = g[t] * 1 + k[t] /\ k[t] = TaskBatchSize(t)
        /\ DOMAIN f = Tasks /\ DOMAIN g = Tasks
    BY ShareBound
  <1>2. GroupsIn(a) = FoldFunction(+, 0, g) /\ GroupsIn(b) = FoldFunction(+, 0, f)
    BY DEF GroupsIn
  <1> HIDE DEF f, g, k
  <1>3. GroupsIn(a) = Sum(g, Tasks) /\ GroupsIn(b) = Sum(f, Tasks)
    BY <1>1, <1>2, FoldIsSum
  <1>4. Sum(f, Tasks) = Sum(g, Tasks) * 1 + Sum(k, Tasks)
    BY <1>1, TasksFinite, SumLinear
  <1>5. Sum(k, Tasks) = BatchSize
    BY <1>1, BatchIsShares
  <1>6. Sum(g, Tasks) \in Int
    BY <1>1, TasksFinite, SumType
  <1> QED
    BY <1>3, <1>4, <1>5, <1>6

\* Neither the listed checkpoint nor what it holds is touched.
LEMMA SavedStays ==
  ASSUME UNCHANGED metaList, Latest # 0 => saved'[Latest] = saved[Latest]
  PROVE  SavedRun' = SavedRun
  <1>1. Latest' = Latest
    BY DEF Latest, Last
  <1> QED
    BY <1>1 DEF SavedRun

\* Steps of the program that the abstract run does not see.
LEMMA LiveStays ==
  ASSUME UNCHANGED <<loader, pending, completed, rejected, batch, trained>>,
         pc # "crashed", pc' # "crashed",
         (IF pc \in {"start", "produce", "train", "done"} THEN step - 1 ELSE step)
           = (IF pc' \in {"start", "produce", "train", "done"} THEN step' - 1 ELSE step')
  PROVE  LiveRun' = LiveRun
  BY DEF LiveRun

LEMMA DurableInit ==
  ASSUME Init PROVE Durable!Init
  <1>1. SavedRun = FreshRun
    BY DEF Init, SavedRun, Latest
  <1>2. LiveRun = FreshRun
    <2> USE DEF Init
    <2>1. [t \in Tasks |-> LoaderState(loader[t])] = NoContent.loaders
      BY DEF NoContent
    <2>2. [completed |-> completed, rejected |-> rejected] = NoContent.buffer
      BY DEF NoContent
    <2>3. [t \in Tasks |-> pending[t] \cup batch[t]] = NoGroups
      BY DEF NoGroups
    <2>4. NoGroups = trained /\ pc = "start" /\ step - 1 = 0
      OBVIOUS
    <2> QED
      BY <2>1, <2>2, <2>3, <2>4 DEF LiveRun, FreshRun
  <1> QED
    BY <1>1, <1>2 DEF Durable!Init

\* Producing a batch draws groups and moves them; training adds one whole batch.
LEMMA DurableAdvance ==
  ASSUME CheckpointInv, DataInv, ExactInv,
         StartBatch \/ (\E t \in Tasks : CollectResults(t)) \/ TakeBatch \/ TrainOneBatch
  PROVE  Durable!Advance
  <1>1. /\ UNCHANGED <<saved, metaList>> /\ step' = step
        /\ pc \in {"start", "produce", "train"}
        /\ pc' \in {"produce", "train", "save_loaders", "sync"}
    BY DEF StartBatch, CollectResults, TakeBatch, TrainOneBatch, dirVars, metaVars
  <1>2. SavedRun' = SavedRun
    BY <1>1, SavedStays
  <1>3. \A t \in Tasks : loader[t].total <= loader'[t].total /\ rejected[t] \subseteq rejected'[t]
    <2>1. CASE TakeBatch \/ TrainOneBatch
      <3>1. UNCHANGED <<loader, rejected>>
        BY <2>1 DEF TakeBatch, TrainOneBatch
      <3> QED
        BY <3>1, HeldType DEF Loaders
    <2>2. CASE StartBatch
      <3>1. rejected' = rejected /\ \A t \in Tasks : loader'[t] = AfterDraws(loader[t], TaskBatchSize(t))
        BY <2>2 DEF StartBatch, ToStart
      <3> SUFFICES ASSUME NEW t \in Tasks PROVE loader[t].total <= loader'[t].total
        BY <3>1
      <3> DEFINE l == loader[t]
                 n == TaskBatchSize(t)
      <3>2. l \in Loaders /\ n \in Nat /\ l.total \in Nat /\ loader'[t] = AfterDraws(l, n)
        BY <3>1, HeldType DEF Loaders
      <3> HIDE DEF l, n
      <3>3. loader'[t].total = l.total + n
        BY <3>2, AfterDrawsIs
      <3> QED
        BY <3>2, <3>3 DEF l
    <2>3. ASSUME NEW t \in Tasks, CollectResults(t)
          PROVE  \A u \in Tasks : /\ loader[u].total <= loader'[u].total
                                  /\ rejected[u] \subseteq rejected'[u]
      <3>1. \E finished \in SUBSET pending[t] : \E good \in SUBSET finished :
              LET n == Refill(t, Cardinality(pending[t] \ finished),
                                 Cardinality(completed[t] \cup good))
              IN /\ rejected' = [rejected EXCEPT ![t] = @ \cup (finished \ good)]
                 /\ loader' = [loader EXCEPT ![t] = AfterDraws(@, n)]
        BY <2>3 DEF CollectResults
      <3>2. PICK n \in Nat, bad \in SUBSET pending[t] :
                   /\ rejected' = [rejected EXCEPT ![t] = @ \cup bad]
                   /\ loader' = [loader EXCEPT ![t] = AfterDraws(@, n)]
        <4>1. PICK finished \in SUBSET pending[t] : \E good \in SUBSET finished :
                LET n == Refill(t, Cardinality(pending[t] \ finished),
                                   Cardinality(completed[t] \cup good))
                IN /\ rejected' = [rejected EXCEPT ![t] = @ \cup (finished \ good)]
                   /\ loader' = [loader EXCEPT ![t] = AfterDraws(@, n)]
          BY <3>1
        <4>2. PICK good \in SUBSET finished :
                LET n == Refill(t, Cardinality(pending[t] \ finished),
                                   Cardinality(completed[t] \cup good))
                IN /\ rejected' = [rejected EXCEPT ![t] = @ \cup (finished \ good)]
                   /\ loader' = [loader EXCEPT ![t] = AfterDraws(@, n)]
          BY <4>1
        <4>3. finished \ good \in SUBSET pending[t]
          OBVIOUS
        <4> QED
          BY <2>3, <4>2, <4>3, RefillType DEF CollectResults
      <3>3. \A u \in Tasks : rejected[u] \subseteq rejected'[u]
        BY <3>2 DEF DataInv, DataTypes, GroupSets
      <3>4. \A u \in Tasks : loader'[u] = IF u = t THEN AfterDraws(loader[t], n) ELSE loader[u]
        BY <3>2 DEF DataInv, DataTypes
      <3>5. /\ AfterDraws(loader[t], n).total = loader[t].total + n
            /\ \A u \in Tasks : loader[u].total \in Nat
        BY <3>2, HeldType, AfterDrawsIs DEF Loaders
      <3>6. \A u \in Tasks : loader[u].total <= loader'[u].total
        BY <3>4, <3>5
      <3> QED
        BY <3>3, <3>6
    <2> QED
      BY <2>1, <2>2, <2>3
  <1>4. \A t \in Tasks : /\ LiveRun.loaders[t].total = loader[t].total
                         /\ (LiveRun').loaders[t].total = loader'[t].total
                         /\ LiveRun.buffer.rejected[t] = rejected[t]
                         /\ (LiveRun').buffer.rejected[t] = rejected'[t]
    BY <1>1 DEF LiveRun, LoaderState
  <1>5. CASE TrainOneBatch
    <2>1. /\ pc = "train" /\ pc' \in {"save_loaders", "sync"} /\ step \in Nat
          /\ trained' = [t \in Tasks |-> trained[t] \cup batch[t]]
      BY <1>5, LatestType DEF TrainOneBatch
    <2>2. ASSUME NEW t \in Tasks
          PROVE  /\ Cardinality(trained[t]) \in Nat
                 /\ Cardinality(trained'[t]) = Cardinality(trained[t]) + TaskBatchSize(t)
      <3>1. /\ IsFiniteSet(batch[t]) /\ Cardinality(batch[t]) = TaskBatchSize(t)
            /\ Apart(t) /\ IsFiniteSet(Held(t)) /\ trained[t] \subseteq Held(t)
        BY <2>1 DEF DataInv, RoundInv, BatchOK, ExactInv, AllAccounted, Accounts, Held
      <3>2. IsFiniteSet(trained[t]) /\ Cardinality(trained[t]) \in Nat
        BY <3>1, FS_Subset, FS_CardinalityType
      <3>3. trained[t] \cap batch[t] = {} /\ trained'[t] = trained[t] \cup batch[t]
        BY <2>1, <3>1 DEF Apart
      <3> QED
        BY <3>1, <3>2, <3>3, UnionDisjoint
    <2>3. GroupsIn(trained') = GroupsIn(trained) + BatchSize
      BY <2>2, BatchMore DEF DataInv, DataTypes
    <2>4. /\ LiveRun.steps = step - 1 /\ LiveRun.weights = trained
          /\ (LiveRun').steps = step /\ (LiveRun').weights = trained'
      BY <1>1, <2>1 DEF LiveRun
    <2>5. /\ (LiveRun').steps = LiveRun.steps + 1
          /\ \A t \in Tasks : LiveRun.weights[t] \subseteq (LiveRun').weights[t]
          /\ GroupsIn((LiveRun').weights) = GroupsIn(LiveRun.weights) + BatchSize
      BY <2>1, <2>3, <2>4
    <2> QED
      BY <1>2, <1>3, <1>4, <2>5 DEF RunAdvances, Durable!Advance
  <1>6. CASE StartBatch \/ (\E t \in Tasks : CollectResults(t)) \/ TakeBatch
    <2>1. trained' = trained /\ pc' \in {"produce", "train"}
      BY <1>6 DEF StartBatch, CollectResults, TakeBatch
    <2>2. (LiveRun').steps = LiveRun.steps /\ (LiveRun').weights = LiveRun.weights
      BY <1>1, <2>1 DEF LiveRun
    <2> QED
      BY <1>2, <1>3, <1>4, <2>2 DEF RunAdvances, Durable!Advance
  <1> QED
    BY <1>5, <1>6

\* Files that are being written or deleted are not what a restart would read.
LEMMA DurableSaves ==
  ASSUME CheckpointInv, DataInv, MaxKeep # 1,
         \/ SaveLoaders \/ SaveBuffer \/ SaveManagerState \/ SaveWeights \/ SaveTrainState
         \/ ListAndPrune \/ OpenMeta
  PROVE  UNCHANGED <<LiveRun, SavedRun>>
  <1>1. /\ UNCHANGED <<loader, pending, completed, rejected, batch, trained, step, metaList>>
        /\ pc \in Saving /\ pc' \in Saving
    BY DEF SaveLoaders, SaveBuffer, SaveManagerState, SaveWeights, SaveTrainState, Writes,
           ListAndPrune, OpenMeta, loopVars, metaVars, Saving
  <1>2. LiveRun' = LiveRun
    BY <1>1, LiveStays DEF Saving
  <1>3. ASSUME Latest # 0 PROVE saved'[Latest] = saved[Latest]
    <2>1. Latest \in Steps /\ metaList # <<>>
      BY <1>3, LatestIs
    <2>2. CASE OpenMeta
      BY <2>2 DEF OpenMeta, dirVars
    <2>3. CASE \/ SaveLoaders \/ SaveBuffer \/ SaveManagerState \/ SaveWeights \/ SaveTrainState
      <3>1. pc \in Saving \ {"open_meta", "write_meta"} /\ \E v : saved' = [saved EXCEPT ![step] = v]
        BY <2>3 DEF SaveLoaders, SaveBuffer, SaveManagerState, SaveWeights, SaveTrainState,
                    Writes, Saving
      <3>2. Latest # step
        BY <1>3, <3>1, LatestIs, LatestType DEF Steps
      <3> QED
        BY <2>1, <3>1, <3>2 DEF DataInv, DataTypes
    <2>4. CASE ListAndPrune
      <3> DEFINE all == Append(ckptList, step)
                 n == Len(ckptList)
      <3>1. /\ pc = "list" /\ step \in Steps /\ ckptList \in Seq(Steps) /\ Ordered(ckptList)
            /\ metaList = ckptList /\ step % SyncInterval = 0
            /\ \A i \in 1 .. Len(ckptList) : ckptList[i] < step
        BY <2>4 DEF ListAndPrune, CheckpointInv, CheckpointTypes, ListsAgree, LabelsAgree, Saving
      <3>2. /\ all \in Seq(Steps) /\ Ordered(all) /\ Len(all) = n + 1
            /\ \A i \in 1 .. n : all[i] = ckptList[i]
        BY <3>1, ListedOrder
      <3>3. saved' = [s \in Steps |-> IF s \in PrunedOf(all) THEN NoContent ELSE saved[s]]
        BY <2>4 DEF ListAndPrune
      <3> HIDE DEF all
      <3>4. n \in 1 .. n /\ n \in 1 .. Len(all) /\ n >= Len(all) - 1 /\ Latest = all[n]
        BY <1>3, <2>1, <3>1, <3>2 DEF Latest, Last
      <3>5. all[n] \notin PrunedOf(all)
        BY <3>2, <3>4, LastTwoStay
      <3> QED
        BY <2>1, <3>3, <3>4, <3>5
    <2> QED
      BY <2>2, <2>3, <2>4
  <1>4. SavedRun' = SavedRun
    BY <1>1, <1>3, SavedStays
  <1> QED
    BY <1>2, <1>4

\* The one moment at which the checkpoint counts.
LEMMA DurableCommit ==
  ASSUME CheckpointInv, DataInv, SavedAsLive, WriteMeta
  PROVE  Durable!Commit
  <1>1. /\ pc = "write_meta" /\ pc' = "sync" /\ metaList' = ckptList
        /\ UNCHANGED <<loader, pending, completed, rejected, batch, trained, step, saved>>
        /\ ckptList # <<>> /\ Last(ckptList) = step /\ step \in Steps
    BY DEF WriteMeta, loopVars, dirVars, CheckpointInv, ListsAgree, CheckpointTypes, Saving
  <1>2. LiveRun' = LiveRun
    BY <1>1, LiveStays
  <1>3. Latest' = step /\ step # 0
    BY <1>1 DEF Latest, Last, Steps
  <1>4. /\ saved[step].loaders = [t \in Tasks |-> LoaderState(loader[t])]
        /\ saved[step].buffer = [completed |-> completed, rejected |-> rejected]
        /\ saved[step].weights = trained
    BY <1>1 DEF SavedAsLive, Saving
  <1>5. [t \in Tasks |-> pending[t] \cup batch[t]] = NoGroups
    BY <1>1 DEF DataInv, RoundInv, NoGroups
  <1>6. LiveRun = [steps |-> step, weights |-> trained,
                   loaders |-> saved[step].loaders, buffer |-> saved[step].buffer,
                   inHand |-> NoGroups]
    BY <1>1, <1>4, <1>5 DEF LiveRun
  <1>7. SavedRun' = [steps |-> step, weights |-> saved[step].weights,
                     loaders |-> saved[step].loaders, buffer |-> saved[step].buffer,
                     inHand |-> NoGroups]
    BY <1>1, <1>3 DEF SavedRun
  <1> QED
    BY <1>2, <1>4, <1>6, <1>7 DEF Durable!Commit

\* Whatever a crash interrupts, the run is back at the listed checkpoint.
LEMMA DurableCrash ==
  ASSUME Crash PROVE Durable!RollBack
  <1>1. pc' = "crashed" /\ UNCHANGED <<saved, metaList>>
    BY DEF Crash, dirVars, metaVars
  <1>2. SavedRun' = SavedRun
    BY <1>1, SavedStays
  <1>3. LiveRun' = SavedRun'
    BY <1>1 DEF LiveRun
  <1> QED
    BY <1>2, <1>3 DEF Durable!RollBack

\* A restart changes nothing: what it brings back is the state of the run that
\* the checkpoint was taken from.
LEMMA DurableStartOver ==
  ASSUME CheckpointInv, DataInv, StartOver
  PROVE  UNCHANGED <<LiveRun, SavedRun>>
  <1>1. /\ pc = "crashed" /\ pc' = "start" /\ Latest = 0
        /\ UNCHANGED <<loader, pending, completed, rejected, batch, trained, step, metaList>>
    BY DEF StartOver, loopVars, metaVars
  <1>2. SavedRun' = SavedRun
    BY <1>1, SavedStays
  <1>3. LiveRun = FreshRun
    BY <1>1 DEF LiveRun, SavedRun
  <1>4. /\ loader = [t \in Tasks |-> FreshLoader] /\ rejected = NoGroups /\ trained = NoGroups
        /\ completed = NoGroups /\ pending = NoGroups /\ batch = NoGroups /\ step = 1
    BY <1>1 DEF DataInv, RoundInv, CheckpointInv, LabelsAgree
  <1>5. /\ [t \in Tasks |-> LoaderState(loader'[t])] = NoContent.loaders
        /\ [completed |-> completed', rejected |-> rejected'] = NoContent.buffer
        /\ [t \in Tasks |-> pending'[t] \cup batch'[t]] = NoGroups
    BY <1>1, <1>4 DEF NoContent, NoGroups
  <1>6. LiveRun' = FreshRun
    <2>1. step' - 1 = 0 /\ trained' = NoGroups
      BY <1>1, <1>4
    <2> HIDE DEF NoContent
    <2> QED
      BY <1>1, <1>5, <2>1 DEF LiveRun, FreshRun
  <1> QED
    BY <1>2, <1>3, <1>6

LEMMA DurableResume ==
  ASSUME CheckpointInv, DataInv, ExactInv, Resume
  PROVE  UNCHANGED <<LiveRun, SavedRun>>
  <1> DEFINE from == saved[Latest]
  <1>1. /\ pc = "crashed" /\ pc' = "start" /\ Latest # 0 /\ step' = Latest + 1
        /\ loader' = [t \in Tasks |-> LoadedFrom(from.loaders[t])]
        /\ completed' = from.buffer.completed /\ rejected' = from.buffer.rejected
        /\ trained' = from.weights
        /\ UNCHANGED <<pending, batch, saved, metaList>>
    BY DEF Resume, RestoredBuffer, dirVars, metaVars
  <1>2. SavedRun' = SavedRun
    BY <1>1, SavedStays
  <1>3. /\ Latest \in Nat /\ Latest \in Steps /\ from \in Contents /\ SavedExact(from)
        /\ pending = NoGroups /\ batch = NoGroups
    BY <1>1, LatestIs, LatestType DEF DataInv, DataTypes, RoundInv, ExactInv, LatestExact
  <1>4. LiveRun = [steps |-> Latest, weights |-> from.weights, loaders |-> from.loaders,
                   buffer |-> from.buffer, inHand |-> NoGroups]
    BY <1>1 DEF LiveRun, SavedRun
  <1> HIDE DEF from
  <1>5. [t \in Tasks |-> LoaderState(loader'[t])] = from.loaders
    <2>1. from.loaders \in [Tasks -> LoaderStates]
      BY <1>3 DEF Contents
    <2>2. ASSUME NEW t \in Tasks PROVE LoaderState(loader'[t]) = from.loaders[t]
      <3> DEFINE s == from.loaders[t]
      <3>1. s \in LoaderStates /\ loader'[t] = [epoch |-> s.epoch, pos |-> s.step, total |-> s.total]
        BY <1>1, <2>1 DEF LoadedFrom
      <3>2. s.epoch * DatasetSize + s.step = s.total
        BY <1>3 DEF SavedExact, Accounts, Place, LoadedFrom
      <3> HIDE DEF s
      <3>3. /\ s.epoch \in Nat /\ s.step \in 0 .. DatasetSize - 1
            /\ s = [epoch |-> s.epoch, step |-> s.step, total |-> s.total]
        BY <3>1 DEF LoaderStates
      <3>4. s.total = DatasetSize * s.epoch + s.step
        BY <3>2, <3>3
      <3>5. s.total % DatasetSize = s.step
        BY <3>3, <3>4, RemainderUnique
      <3> QED
        BY <3>1, <3>3, <3>5 DEF LoaderState, s
    <2> QED
      BY <2>1, <2>2
  <1>6. [completed |-> completed', rejected |-> rejected'] = from.buffer
    BY <1>1, <1>3 DEF Contents, Buffers
  <1>7. [t \in Tasks |-> pending'[t] \cup batch'[t]] = NoGroups
    BY <1>1, <1>3 DEF NoGroups
  <1>8. LiveRun' = [steps |-> Latest, weights |-> from.weights, loaders |-> from.loaders,
                    buffer |-> from.buffer, inHand |-> NoGroups]
    <2>1. step' - 1 = Latest
      BY <1>1, <1>3
    <2> QED
      BY <1>1, <1>5, <1>6, <1>7, <2>1 DEF LiveRun
  <1> QED
    BY <1>2, <1>4, <1>8

LEMMA DurableNext ==
  ASSUME CheckpointInv, DataInv, SavedAsLive, ExactInv, MaxKeep # 1, [Next]_vars
  PROVE  [Durable!Advance \/ Durable!Commit \/ Durable!RollBack]_<<LiveRun, SavedRun>>
  <1>1. CASE StopTraining \/ SyncWeights
    <2>1. /\ UNCHANGED <<loader, pending, completed, rejected, batch, trained, saved, metaList>>
          /\ \/ pc = "start" /\ pc' = "done" /\ step' = step
             \/ pc = "sync" /\ pc' = "start" /\ step' = step + 1
      BY <1>1 DEF StopTraining, SyncWeights, loopVars, dirVars, metaVars
    <2>2. LiveRun' = LiveRun
      BY <2>1, LatestType, LiveStays
    <2> QED
      BY <2>1, <2>2, SavedStays
  <1>2. CASE UNCHANGED vars \/ Terminated
    BY <1>2 DEF Terminated, vars, loopVars, dirVars, metaVars, LiveRun, SavedRun, Latest, Last
  <1> QED
    BY <1>1, <1>2, DurableAdvance, DurableSaves, DurableCommit, DurableCrash, DurableStartOver,
       DurableResume
    DEF Next, Progress, Produce, Save, Restart

\* A checkpoint that is written file by file, listed, pruned and persisted in
\* steps is one atomic commit and a restart is one roll back to it, wherever the
\* process stops, if more than one checkpoint is kept and none falls on the end
\* of an epoch.
THEOREM CheckpointsAreAtomic ==
  ASSUME MaxKeep # 1 PROVE Spec /\ []EpochOpen => ImplementsDurable
  <1>1. CheckpointInv /\ DataInv /\ SavedAsLive /\ ExactInv /\ [Next]_vars
          => [Durable!Advance \/ Durable!Commit \/ Durable!RollBack]_<<LiveRun, SavedRun>>
    BY DurableNext
  <1> QED
    BY <1>1, DurableInit, CheckpointProtocol, DataKept, DrawsExact, PTL
    DEF Spec, ImplementsDurable, Durable!Spec
=============================================================================
