-------------------------- MODULE WorkerPool_proofs --------------------------
(***************************************************************************)
(* Machine-checked proofs about the rollout workers, for every number of   *)
(* workers, sessions, steps and faults: an active worker whose server      *)
(* lives takes requests while a batch is generated, and it holds the       *)
(* weights the batch is labelled with when the weights are synchronised    *)
(* on every step; the router's table stays ordered by last use, so it      *)
(* forgets idle sessions and keeps the others with their workers.          *)
(***************************************************************************)
EXTENDS WorkerPool, FiniteSetTheorems, SequenceTheorems, TLAPS

USE PoolAssumption, RouterAssumption DEF Ranks

-----------------------------------------------------------------------------
(***************************************************************************)
(* The inductive invariants.                                               *)
(***************************************************************************)
Typed ==
  /\ isActive \in [Ranks -> BOOLEAN] /\ server \in [Ranks -> {"up", "dead"}]
  /\ memory \in [Ranks -> {"asleep", "weights", "awake"}]
  /\ held \in [Ranks -> Nat]
  /\ aborting \in [Ranks -> BOOLEAN] /\ rolloutUrl \in [Ranks -> BOOLEAN]
  /\ step \in Nat \ {0} /\ modelStep \in Nat
  /\ todo \in SUBSET Ranks

\* Every worker that is active has its server up only with its memory back,
\* unless the checker still has to shut it down.
AwakeIn(workers) ==
  \A w \in workers : isActive[w] /\ server[w] = "up" => memory[w] = "awake" \/ w \in toShut

\* Requests are not aborted while a batch is generated.  The memory is back from
\* the end of a step to the end of the next batch, and comes back worker by
\* worker.
ServingInv ==
  /\ Typed
  /\ pc = "generate" => \A w \in Ranks : isActive[w] => ~ aborting[w]
  /\ pc \in {"start", "generate"} => AwakeIn(Ranks)
  /\ pc = "onloading_kvcache" => AwakeIn(Ranks \ todo)

\* The living servers of the active workers among `workers' hold `version'.
HeldBy(workers, version) ==
  \A w \in workers : isActive[w] /\ server[w] = "up" => held[w] = version

\* The active workers hold the weights of the step before when a step begins,
\* all are bound when the weights are sent, and hold them once they are.
LabelInv ==
  /\ Typed
  /\ pc # "done" => modelStep = step - 1
  /\ pc \in {"start", "generate"} => HeldBy(Ranks, modelStep)
  /\ pc \in {"bound", "onloading_weights", "updating"} =>
       \A w \in Ranks : isActive[w] => rolloutUrl[w]
  /\ pc = "updating" => HeldBy(Ranks \ todo, step)
  /\ pc = "onloading_kvcache" => HeldBy(Ranks, step)

-----------------------------------------------------------------------------
(***************************************************************************)
(* Types.                                                                  *)
(***************************************************************************)
LEMMA TypedNext ==
  ASSUME Typed, [Next]_vars
  PROVE  Typed'
  <1> USE DEF Typed
  <1>1. CASE Trainer
    <2>1. CASE ContinueGeneration
      BY <2>1 DEF ContinueGeneration, Calls
    <2>2. CASE PauseGeneration
      BY <2>2 DEF PauseGeneration, Calls
    <2>3. CASE Offload
      BY <2>3 DEF Offload, Calls, Active, workerVars
    <2>4. CASE RecoverFailedWorkers
      BY <2>4 DEF RecoverFailedWorkers, Calls, Active, workerVars
    <2>5. CASE FinishRecovery
      BY <2>5 DEF FinishRecovery, Calls, workerVars
    <2>6. CASE BindTrainRollout
      BY <2>6 DEF BindTrainRollout, Calls, Bound
    <2>7. CASE OnloadWeights
      BY <2>7 DEF OnloadWeights, Calls, Active, workerVars
    <2>8. CASE UpdateWeights
      BY <2>8 DEF UpdateWeights, Calls, workerVars
    <2>9. CASE OnloadKvCache
      BY <2>9 DEF OnloadKvCache, Calls, Active, workerVars
    <2>10. CASE EndStep
      BY <2>10 DEF EndStep, Calls, workerVars
    <2>11. ASSUME NEW w \in Ranks, Worker(w) PROVE Typed'
      <3>1. CASE WorkerOffloads(w)
        BY <3>1 DEF WorkerOffloads, Requests
      <3>2. CASE WorkerOnloadsWeights(w)
        BY <3>2 DEF WorkerOnloadsWeights, Requests
      <3>3. CASE TrainWorkerSends(w)
        BY <3>3 DEF TrainWorkerSends, Requests
      <3>4. CASE WorkerOnloadsKvCache(w)
        BY <3>4 DEF WorkerOnloadsKvCache, Requests
      <3>5. CASE Relaunch(w)
        <4>1. CASE /\ server' = [server EXCEPT ![w] = "up"]
                   /\ memory' = [memory EXCEPT ![w] = "awake"]
                   /\ held' = [held EXCEPT ![w] = 0]
                   /\ pc' = "confirming" /\ UNCHANGED todo
          BY <3>5, <4>1 DEF Relaunch
        <4>2. CASE Kill(w) /\ todo' = todo \ {w} /\ UNCHANGED pc
          BY <3>5, <4>2 DEF Relaunch, Kill
        <4> QED BY <3>5, <4>1, <4>2 DEF Relaunch
      <3>6. CASE ConfirmRestart(w)
        BY <3>6 DEF ConfirmRestart
      <3> QED BY <2>11, <3>1, <3>2, <3>3, <3>4, <3>5, <3>6 DEF Worker
    <2> QED BY <1>1, <2>1, <2>2, <2>3, <2>4, <2>5, <2>6, <2>7, <2>8, <2>9, <2>10, <2>11
            DEF Trainer
  <1>2. CASE Requesting
    BY <1>2 DEF Requesting, Generate, workerVars
  <1>3. CASE Checker
    <2>1. CASE CheckerStarts \/ CheckerWaits
      BY <2>1 DEF CheckerStarts, CheckerWaits, workerVars, trainerVars
    <2>2. ASSUME NEW w \in Ranks,
                 CheckerProbes(w) \/ CheckerMarks(w) \/ CheckerOffloads(w) \/ CheckerShutsDown(w)
          PROVE  Typed'
      <3>1. CASE CheckerProbes(w)
        BY <3>1 DEF CheckerProbes, workerVars, trainerVars
      <3>2. CASE CheckerMarks(w)
        BY <3>2 DEF CheckerMarks, trainerVars
      <3>3. CASE CheckerOffloads(w)
        BY <3>3 DEF CheckerOffloads, trainerVars
      <3>4. CASE CheckerShutsDown(w)
        BY <3>4 DEF CheckerShutsDown, Kill, trainerVars
      <3> QED BY <2>2, <3>1, <3>2, <3>3, <3>4
    <2> QED BY <1>3, <2>1, <2>2 DEF Checker
  <1>4. ASSUME NEW w \in Ranks, ServerDies(w) PROVE Typed'
    BY <1>4 DEF ServerDies, Kill, trainerVars
  <1>5. CASE Terminated \/ UNCHANGED vars
    BY <1>5 DEF Terminated, vars, workerVars, trainerVars
  <1> QED BY <1>1, <1>2, <1>3, <1>4, <1>5 DEF Next

-----------------------------------------------------------------------------
(***************************************************************************)
(* Active workers serve.                                                   *)
(***************************************************************************)
\* No step disturbs the memory of a worker that serves, but for those of the
\* checker on the workers it gave up.
LEMMA ServingNext ==
  ASSUME ServingInv, [Next]_vars
  PROVE  ServingInv'
  <1>0. Typed'
    BY TypedNext DEF ServingInv
  <1> USE <1>0 DEF Typed, ServingInv, AwakeIn, checkerVars, First
  <1>1. CASE Trainer
    <2>1. CASE ContinueGeneration
      BY <2>1 DEF ContinueGeneration, Calls
    <2>2. CASE PauseGeneration
      BY <2>2 DEF PauseGeneration, Calls
    <2>3. CASE Offload
      BY <2>3 DEF Offload, Calls, Active, workerVars
    <2>4. CASE RecoverFailedWorkers
      BY <2>4 DEF RecoverFailedWorkers, Calls, Active, workerVars
    <2>5. CASE FinishRecovery
      BY <2>5 DEF FinishRecovery, Calls, workerVars
    <2>6. CASE BindTrainRollout
      BY <2>6 DEF BindTrainRollout, Calls, Bound
    <2>7. CASE OnloadWeights
      BY <2>7 DEF OnloadWeights, Calls, Active, workerVars
    <2>8. CASE UpdateWeights
      BY <2>8 DEF UpdateWeights, Calls, workerVars
    <2>9. CASE OnloadKvCache
      BY <2>9 DEF OnloadKvCache, Calls, Active, workerVars
    <2>10. CASE EndStep
      BY <2>10 DEF EndStep, Calls, workerVars
    <2>11. ASSUME NEW w \in Ranks, Worker(w) PROVE ServingInv'
      <3>1. CASE WorkerOffloads(w)
        BY <3>1 DEF WorkerOffloads, Requests
      <3>2. CASE WorkerOnloadsWeights(w)
        BY <3>2 DEF WorkerOnloadsWeights, Requests
      <3>3. CASE TrainWorkerSends(w)
        BY <3>3 DEF TrainWorkerSends, Requests
      <3>4. CASE WorkerOnloadsKvCache(w)
        BY <3>4 DEF WorkerOnloadsKvCache, Requests
      <3>5. CASE Relaunch(w)
        <4>1. CASE /\ server' = [server EXCEPT ![w] = "up"]
                   /\ memory' = [memory EXCEPT ![w] = "awake"]
                   /\ held' = [held EXCEPT ![w] = 0]
                   /\ pc' = "confirming" /\ UNCHANGED todo
          BY <3>5, <4>1 DEF Relaunch
        <4>2. CASE Kill(w) /\ todo' = todo \ {w} /\ UNCHANGED pc
          BY <3>5, <4>2 DEF Relaunch, Kill
        <4> QED BY <3>5, <4>1, <4>2 DEF Relaunch
      <3>6. CASE ConfirmRestart(w)
        BY <3>6 DEF ConfirmRestart
      <3> QED BY <2>11, <3>1, <3>2, <3>3, <3>4, <3>5, <3>6 DEF Worker
    <2> QED BY <1>1, <2>1, <2>2, <2>3, <2>4, <2>5, <2>6, <2>7, <2>8, <2>9, <2>10, <2>11
            DEF Trainer
  <1>2. CASE Requesting
    BY <1>2 DEF Requesting, Generate, workerVars
  <1>3. CASE Checker
    <2>1. CASE CheckerStarts \/ CheckerWaits
      BY <2>1 DEF CheckerStarts, CheckerWaits, workerVars, trainerVars
    <2>2. ASSUME NEW w \in Ranks,
                 CheckerProbes(w) \/ CheckerMarks(w) \/ CheckerOffloads(w) \/ CheckerShutsDown(w)
          PROVE  ServingInv'
      <3>1. CASE CheckerProbes(w)
        BY <3>1 DEF CheckerProbes, workerVars, trainerVars
      <3>2. CASE CheckerMarks(w)
        BY <3>2 DEF CheckerMarks, trainerVars
      <3>3. CASE CheckerOffloads(w)
        BY <3>3 DEF CheckerOffloads, trainerVars
      <3>4. CASE CheckerShutsDown(w)
        BY <3>4 DEF CheckerShutsDown, Kill, trainerVars
      <3> QED BY <2>2, <3>1, <3>2, <3>3, <3>4
    <2> QED BY <1>3, <2>1, <2>2 DEF Checker
  <1>4. ASSUME NEW w \in Ranks, ServerDies(w) PROVE ServingInv'
    BY <1>4 DEF ServerDies, Kill, trainerVars
  <1>5. CASE Terminated \/ UNCHANGED vars
    BY <1>5 DEF Terminated, vars, workerVars, trainerVars
  <1> QED BY <1>1, <1>2, <1>3, <1>4, <1>5 DEF Next

\* While a batch is generated, every active worker whose server lives takes
\* requests, but for the workers that the health checker is about to shut down.
\* However late a round of the checker ends, it harms no others.
THEOREM WorkersServe == Spec => []ActiveWorkersServe
  <1>1. Init => ServingInv
    BY DEF Init, ServingInv, Typed, AwakeIn
  <1>2. ServingInv /\ [Next]_vars => ServingInv'
    BY ServingNext
  <1>3. ServingInv => ActiveWorkersServe
    BY DEF ServingInv, AwakeIn, Typed, ActiveWorkersServe, Active, Serves
  <1> QED BY <1>1, <1>2, <1>3, PTL DEF Spec

-----------------------------------------------------------------------------
(***************************************************************************)
(* Active workers hold the weights of the label.                           *)
(***************************************************************************)
\* With an interval of one every step synchronises.
LEMMA EverySyncs ==
  ASSUME SyncInterval = 1, Typed
  PROVE  SyncDue
  BY DEF SyncDue, Typed

\* A worker becomes active again before the train workers are bound, and its
\* server comes up before that: no step after the bind adds a worker.
LEMMA LabelNext ==
  ASSUME SyncInterval = 1, LabelInv, [Next]_vars
  PROVE  LabelInv'
  <1> SyncDue
    BY EverySyncs DEF LabelInv
  <1>0. Typed'
    BY TypedNext DEF LabelInv
  <1> USE <1>0 DEF Typed, LabelInv, HeldBy
  <1>1. CASE Trainer
    <2>1. CASE ContinueGeneration
      BY <2>1 DEF ContinueGeneration, Calls
    <2>2. CASE PauseGeneration
      BY <2>2 DEF PauseGeneration, Calls
    <2>3. CASE Offload
      BY <2>3 DEF Offload, Calls, Active, workerVars
    <2>4. CASE RecoverFailedWorkers
      BY <2>4 DEF RecoverFailedWorkers, Calls, Active, workerVars
    <2>5. CASE FinishRecovery
      BY <2>5 DEF FinishRecovery, Calls, workerVars
    <2>6. CASE BindTrainRollout
      BY <2>6 DEF BindTrainRollout, Calls, Bound
    <2>7. CASE OnloadWeights
      BY <2>7 DEF OnloadWeights, Calls, Active, workerVars
    <2>8. CASE UpdateWeights
      BY <2>8 DEF UpdateWeights, Calls, workerVars
    <2>9. CASE OnloadKvCache
      BY <2>9 DEF OnloadKvCache, Calls, Active, workerVars
    <2>10. CASE EndStep
      BY <2>10 DEF EndStep, Calls, workerVars
    <2>11. ASSUME NEW w \in Ranks, Worker(w) PROVE LabelInv'
      <3>1. CASE WorkerOffloads(w)
        BY <3>1 DEF WorkerOffloads, Requests
      <3>2. CASE WorkerOnloadsWeights(w)
        BY <3>2 DEF WorkerOnloadsWeights, Requests
      <3>3. CASE TrainWorkerSends(w)
        BY <3>3 DEF TrainWorkerSends, Requests
      <3>4. CASE WorkerOnloadsKvCache(w)
        BY <3>4 DEF WorkerOnloadsKvCache, Requests
      <3>5. CASE Relaunch(w)
        <4>1. CASE /\ server' = [server EXCEPT ![w] = "up"]
                   /\ memory' = [memory EXCEPT ![w] = "awake"]
                   /\ held' = [held EXCEPT ![w] = 0]
                   /\ pc' = "confirming" /\ UNCHANGED todo
          BY <3>5, <4>1 DEF Relaunch
        <4>2. CASE Kill(w) /\ todo' = todo \ {w} /\ UNCHANGED pc
          BY <3>5, <4>2 DEF Relaunch, Kill
        <4> QED BY <3>5, <4>1, <4>2 DEF Relaunch
      <3>6. CASE ConfirmRestart(w)
        BY <3>6 DEF ConfirmRestart
      <3> QED BY <2>11, <3>1, <3>2, <3>3, <3>4, <3>5, <3>6 DEF Worker
    <2> QED BY <1>1, <2>1, <2>2, <2>3, <2>4, <2>5, <2>6, <2>7, <2>8, <2>9, <2>10, <2>11
            DEF Trainer
  <1>2. CASE Requesting
    BY <1>2 DEF Requesting, Generate, workerVars
  <1>3. CASE Checker
    <2>1. CASE CheckerStarts \/ CheckerWaits
      <3>1. UNCHANGED <<workerVars, trainerVars>>
        BY <2>1 DEF CheckerStarts, CheckerWaits
      <3> QED
        BY <3>1 DEF workerVars, trainerVars
    <2>2. ASSUME NEW w \in Ranks,
                 CheckerProbes(w) \/ CheckerMarks(w) \/ CheckerOffloads(w) \/ CheckerShutsDown(w)
          PROVE  LabelInv'
      <3>1. CASE CheckerProbes(w)
        BY <3>1 DEF CheckerProbes, workerVars, trainerVars
      <3>2. CASE CheckerMarks(w)
        BY <3>2 DEF CheckerMarks, trainerVars
      <3>3. CASE CheckerOffloads(w)
        BY <3>3 DEF CheckerOffloads, trainerVars
      <3>4. CASE CheckerShutsDown(w)
        BY <3>4 DEF CheckerShutsDown, Kill, trainerVars
      <3> QED BY <2>2, <3>1, <3>2, <3>3, <3>4
    <2> QED BY <1>3, <2>1, <2>2 DEF Checker
  <1>4. ASSUME NEW w \in Ranks, ServerDies(w) PROVE LabelInv'
    BY <1>4 DEF ServerDies, Kill, trainerVars
  <1>5. CASE Terminated \/ UNCHANGED vars
    <2>1. UNCHANGED <<workerVars, trainerVars>>
      BY <1>5 DEF Terminated, vars
    <2> QED
      BY <2>1 DEF workerVars, trainerVars
  <1> QED BY <1>1, <1>2, <1>3, <1>4, <1>5 DEF Next

\* Synchronised on every step, an active worker whose server lives generates
\* with the weights the batch is labelled with, also after it was restarted with
\* the weights of the model path.
THEOREM LabelsAreHeld == ASSUME SyncInterval = 1 PROVE Spec => []LabelIsHeld
  <1>1. Init => LabelInv
    BY DEF Init, LabelInv, Typed, HeldBy
  <1>2. LabelInv /\ [Next]_vars => LabelInv'
    BY LabelNext
  <1>3. LabelInv => LabelIsHeld
    BY DEF LabelInv, HeldBy, Typed, LabelIsHeld, Active
  <1> QED BY <1>1, <1>2, <1>3, PTL DEF Spec
-----------------------------------------------------------------------------
(***************************************************************************)
(* The table of the router.                                                *)
(***************************************************************************)
\* A set of naturals has a least element, which Min gives.
LEMMA MinOfNats ==
  ASSUME NEW S \in SUBSET Nat, S # {}
  PROVE  Min(S) \in S /\ \A x \in S : Min(S) <= x
  <1> DEFINE Below == {0 .. x : x \in S}
  <1>1. Below \subseteq FiniteSubsetsOf(Nat)
    <2>1. ASSUME NEW x \in S PROVE 0 .. x \in SUBSET Nat /\ IsFiniteSet(0 .. x)
      BY FS_Interval
    <2> QED
      BY <2>1 DEF FiniteSubsetsOf
  <1>2. Below # {} /\ IsWellFoundedOn(StrictSubsetOrdering(Nat), FiniteSubsetsOf(Nat))
    BY FS_StrictSubsetOrderingWellFounded
  <1>3. \E t \in Below : \A u \in Below : ~ (<<u, t>> \in StrictSubsetOrdering(Nat))
    <2> HIDE DEF Below
    <2> QED
      BY <1>1, <1>2, WFMin
  <1>4. PICK x \in S : \A y \in S : ~ (<<0 .. y, 0 .. x>> \in StrictSubsetOrdering(Nat))
    BY <1>3
  <1>5. ASSUME NEW y \in S PROVE x <= y
    <2> SUFFICES ASSUME y < x PROVE FALSE
      OBVIOUS
    <2>1. 0 .. y \in SUBSET (0 .. x) /\ x \in 0 .. x /\ x \notin 0 .. y /\ 0 .. x \subseteq Nat
      OBVIOUS
    <2> QED
      BY <2>1, <1>4 DEF StrictSubsetOrdering
  <1> QED
    BY <1>5 DEF Min

\* The table, in the order of last use, with at most one entry per session.
Entries(now) == [session : Sessions, rank : Ranks, used : 1 .. now]

Ordered(m) == \A i, j \in DOMAIN m : i <= j => m[i].used <= m[j].used
Unique(m)  == \A i, j \in DOMAIN m : m[i].session = m[j].session => i = j

Table(m, now) == m \in Seq(Entries(now)) /\ Ordered(m) /\ Unique(m)

\* m holds only entries of n.
Within(m, n) == \A i \in DOMAIN m : \E j \in DOMAIN n : m[i] = n[j]

LEMMA TableTypes ==
  ASSUME NEW now \in Nat, NEW m, Table(m, now)
  PROVE  /\ Len(m) \in Nat /\ DOMAIN m = 1 .. Len(m)
         /\ \A i \in 1 .. Len(m) : m[i] \in Entries(now) /\ m[i].used \in 1 .. now
  <1>1. /\ Len(m) \in Nat /\ DOMAIN m = 1 .. Len(m)
        /\ \A i \in 1 .. Len(m) : m[i] \in Entries(now)
    BY DEF Table
  <1>2. \A entry \in Entries(now) : entry.used \in 1 .. now
    BY DEF Entries
  <1> QED
    BY <1>1, <1>2

\* The end of a table is a table.
LEMMA TailIsTable ==
  ASSUME NEW now \in Nat, NEW m, Table(m, now), NEW k \in 1 .. Len(m) + 1
  PROVE  /\ Table(SubSeq(m, k, Len(m)), now)
         /\ Within(SubSeq(m, k, Len(m)), m)
         /\ \A i \in DOMAIN m : i >= k => \E j \in DOMAIN SubSeq(m, k, Len(m)) :
              SubSeq(m, k, Len(m))[j] = m[i]
  <1> DEFINE tail == SubSeq(m, k, Len(m))
  <1>0. /\ m \in Seq(Entries(now)) /\ Len(m) \in Nat /\ DOMAIN m = 1 .. Len(m)
        /\ \A i \in 1 .. Len(m) : m[i] \in Entries(now) /\ m[i].used \in 1 .. now
    BY TableTypes DEF Table
  <1>1. /\ tail \in Seq(Entries(now)) /\ Len(tail) = Len(m) - k + 1
        /\ \A i \in 1 .. Len(m) - k + 1 : tail[i] = m[k + i - 1]
    <2>1. \A i \in k .. Len(m) : m[i] \in Entries(now)
      BY <1>0
    <2> QED
      BY <2>1, <1>0, SubSeqProperties
  <1> HIDE DEF tail
  <1>2. DOMAIN tail = 1 .. Len(tail) /\ \A i \in 1 .. Len(tail) : tail[i] = m[i + k - 1]
    BY <1>0, <1>1
  <1>3. Ordered(tail) /\ Unique(tail)
    <2> SUFFICES ASSUME NEW i \in 1 .. Len(tail), NEW j \in 1 .. Len(tail)
                 PROVE  /\ i <= j => tail[i].used <= tail[j].used
                        /\ tail[i].session = tail[j].session => i = j
      BY <1>2 DEF Ordered, Unique
    <2>1. /\ i + k - 1 \in 1 .. Len(m) /\ j + k - 1 \in 1 .. Len(m)
          /\ i <= j => i + k - 1 <= j + k - 1
          /\ i + k - 1 = j + k - 1 => i = j
      BY <1>0, <1>1
    <2>2. tail[i] = m[i + k - 1] /\ tail[j] = m[j + k - 1]
      BY <1>2
    <2> QED
      BY <2>1, <2>2, <1>0 DEF Table, Ordered, Unique
  <1>4. Within(tail, m)
    <2>1. \A i \in 1 .. Len(tail) : i + k - 1 \in 1 .. Len(m)
      BY <1>0, <1>1
    <2> QED
      BY <2>1, <1>0, <1>2 DEF Within
  <1>5. ASSUME NEW i \in DOMAIN m, i >= k PROVE \E j \in DOMAIN tail : tail[j] = m[i]
    <2>1. i - k + 1 \in DOMAIN tail /\ tail[i - k + 1] = m[i]
      <3> DEFINE j == i - k + 1
      <3>1. i \in Int /\ k \in Int /\ Len(m) \in Int /\ k <= i /\ i <= Len(m)
        BY <1>0, <1>5
      <3>2. Len(tail) = Len(m) - k + 1
        BY <1>1
      <3>3. j \in 1 .. Len(tail) /\ j + k - 1 = i
        BY <3>1, <3>2
      <3> HIDE DEF j
      <3>4. j \in DOMAIN tail /\ tail[j] = m[i]
        BY <3>3, <1>2
      <3> QED
        BY <3>4 DEF j
    <2> QED BY <2>1
  <1> QED
    BY <1>1, <1>3, <1>4, <1>5 DEF Table, tail

\* What _evict_expired leaves: a table with all the entries that are not idle and
\* no others.
LEMMA EvictExpiredKeeps ==
  ASSUME NEW now \in Nat, NEW m, Table(m, now)
  PROVE  /\ Table(EvictExpired(m, now), now)
         /\ Within(EvictExpired(m, now), m)
         /\ \A i \in DOMAIN EvictExpired(m, now) : ~ Idle(EvictExpired(m, now)[i], now)
         /\ \A i \in DOMAIN m : ~ Idle(m[i], now) =>
              \E j \in DOMAIN EvictExpired(m, now) : EvictExpired(m, now)[j] = m[i]
  <1> DEFINE fresh == {i \in 1 .. Len(m) : ~ Idle(m[i], now)}
             kept  == EvictExpired(m, now)
  <1>0. /\ m \in Seq(Entries(now)) /\ Len(m) \in Nat /\ DOMAIN m = 1 .. Len(m)
        /\ \A i \in 1 .. Len(m) : m[i] \in Entries(now) /\ m[i].used \in 1 .. now
    BY TableTypes DEF Table
  <1>1. CASE fresh = {}
    <2>1. kept = <<>>
      BY <1>1 DEF EvictExpired
    <2> QED
      BY <2>1, <1>0, <1>1 DEF Table, Ordered, Unique, Within
  <1>2. CASE fresh # {}
    <2> DEFINE k == Min(fresh)
    <2>1. k \in fresh /\ \A i \in fresh : k <= i
      <3>1. fresh \in SUBSET Nat
        OBVIOUS
      <3> HIDE DEF fresh
      <3> QED BY <1>2, <3>1, MinOfNats
    <2>2. kept = SubSeq(m, k, Len(m))
      BY <1>2 DEF EvictExpired
    <2>3. k \in 1 .. Len(m) /\ ~ Idle(m[k], now)
      BY <2>1
    <2> HIDE DEF k, kept
    <2>4. /\ Table(kept, now)
          /\ Within(kept, m)
          /\ \A i \in DOMAIN m : i >= k => \E j \in DOMAIN kept : kept[j] = m[i]
      <3>1. k \in 1 .. Len(m) + 1
        BY <2>3, <1>0
      <3> QED
        BY <2>2, <3>1, TailIsTable
    <2>5. ASSUME NEW i \in DOMAIN kept PROVE ~ Idle(kept[i], now)
      <3>1. DOMAIN kept = 1 .. Len(m) - k + 1 /\ kept[i] = m[i + k - 1]
        BY <2>2, <2>3, <1>0, <2>5
      <3>2. i + k - 1 \in DOMAIN m /\ k <= i + k - 1
        BY <3>1, <2>3, <1>0
      <3>3. m[k].used <= m[i + k - 1].used
        BY <3>2, <2>3, <1>0 DEF Table, Ordered
      <3>4. m[k].used \in 1 .. now /\ m[i + k - 1].used \in 1 .. now
        BY <3>2, <2>3, <1>0
      <3>5. ~ Idle(m[i + k - 1], now)
        BY <3>3, <3>4, <2>3 DEF Idle
      <3> QED
        BY <3>1, <3>5
    <2>6. \A i \in DOMAIN m : ~ Idle(m[i], now) => i >= k
      BY <1>0, <2>1
    <2> QED
      BY <2>4, <2>5, <2>6 DEF kept
  <1> QED
    BY <1>1, <1>2

\* Popping a session takes out its entry alone.
LEMMA PoppedKeeps ==
  ASSUME NEW now \in Nat, NEW m, Table(m, now), NEW session
  PROVE  /\ Table(Popped(m, session), now)
         /\ Within(Popped(m, session), m)
         /\ \A i \in DOMAIN Popped(m, session) : Popped(m, session)[i].session # session
  <1> DEFINE rest == Popped(m, session)
  <1>0. /\ m \in Seq(Entries(now)) /\ Len(m) \in Nat /\ DOMAIN m = 1 .. Len(m)
        /\ \A i \in 1 .. Len(m) : m[i] \in Entries(now) /\ m[i].used \in 1 .. now
    BY TableTypes DEF Table
  <1>1. CASE At(m, session) = {}
    <2>1. rest = m
      BY <1>1 DEF Popped
    <2> QED
      BY <2>1, <1>1 DEF At, Within
  <1>2. CASE At(m, session) # {}
    <2> DEFINE k == CHOOSE i \in At(m, session) : TRUE
               left == SubSeq(m, 1, k - 1)
               right == SubSeq(m, k + 1, Len(m))
    <2>1. k \in 1 .. Len(m) /\ m[k].session = session
      BY <1>2, <1>0 DEF At
    <2>2. rest = left \o right
      BY <1>2 DEF Popped, RemoveAt
    <2> HIDE DEF k, rest
    <2>3. /\ left \in Seq(Entries(now)) /\ Len(left) = k - 1
          /\ \A i \in 1 .. k - 1 : left[i] = m[i]
      <3>1. \A i \in 1 .. k - 1 : m[i] \in Entries(now)
        BY <2>1, <1>0
      <3>2. /\ left \in Seq(Entries(now)) /\ Len(left) = (IF 1 <= k - 1 THEN k - 1 - 1 + 1 ELSE 0)
            /\ \A i \in 1 .. k - 1 - 1 + 1 : left[i] = m[1 + i - 1]
        BY <2>1, <3>1, SubSeqProperties
      <3> QED
        BY <3>2, <2>1
    <2>4. /\ right \in Seq(Entries(now)) /\ Len(right) = Len(m) - k
          /\ \A i \in 1 .. Len(m) - k : right[i] = m[i + k]
      <3>1. \A i \in k + 1 .. Len(m) : m[i] \in Entries(now)
        BY <2>1, <1>0
      <3>2. /\ right \in Seq(Entries(now))
            /\ Len(right) = (IF k + 1 <= Len(m) THEN Len(m) - (k + 1) + 1 ELSE 0)
            /\ \A i \in 1 .. Len(m) - (k + 1) + 1 : right[i] = m[k + 1 + i - 1]
        BY <2>1, <1>0, <3>1, SubSeqProperties
      <3> HIDE DEF right
      <3>3. Len(right) = Len(m) - k
        BY <3>2, <2>1, <1>0
      <3>4. \A i \in 1 .. Len(m) - k : i \in 1 .. Len(m) - (k + 1) + 1 /\ k + 1 + i - 1 = i + k
        BY <2>1, <1>0
      <3> QED
        BY <3>2, <3>3, <3>4
    <2> HIDE DEF left, right
    <2>5. /\ rest \in Seq(Entries(now)) /\ DOMAIN rest = 1 .. Len(m) - 1
          /\ \A i \in 1 .. Len(m) - 1 : rest[i] = IF i < k THEN m[i] ELSE m[i + 1]
      <3>1. /\ rest \in Seq(Entries(now)) /\ Len(rest) = Len(m) - 1
            /\ \A i \in 1 .. Len(m) - 1 :
                 rest[i] = IF i <= Len(left) THEN left[i] ELSE right[i - Len(left)]
        <4>1. /\ rest \in Seq(Entries(now)) /\ Len(rest) = Len(left) + Len(right)
              /\ \A i \in 1 .. Len(left) + Len(right) :
                   rest[i] = IF i <= Len(left) THEN left[i] ELSE right[i - Len(left)]
          BY <2>2, <2>3, <2>4, ConcatProperties
        <4> QED
          BY <4>1, <2>3, <2>4, <2>1, <1>0
      <3>2. ASSUME NEW i \in 1 .. Len(m) - 1
            PROVE  rest[i] = IF i < k THEN m[i] ELSE m[i + 1]
        <4>1. CASE i < k
          BY <4>1, <3>1, <2>3, <2>1, <1>0
        <4>2. CASE i >= k
          <5>1. i - (k - 1) \in 1 .. Len(m) - k /\ i - (k - 1) + k = i + 1
            BY <4>2, <2>1, <1>0
          <5>2. rest[i] = right[i - (k - 1)]
            BY <4>2, <3>1, <2>3, <2>1
          <5> QED
            BY <4>2, <5>1, <5>2, <2>4, <2>1
        <4> QED
          BY <4>1, <4>2, <2>1
      <3> QED
        BY <3>1, <3>2
    <2>6. \A i \in DOMAIN rest : \E j \in 1 .. Len(m) : j # k /\ rest[i] = m[j]
      <3> TAKE i \in DOMAIN rest
      <3>1. CASE i < k
        BY <3>1, <2>5, <2>1, <1>0
      <3>2. CASE i >= k
        BY <3>2, <2>5, <2>1, <1>0
      <3> QED
        BY <3>1, <3>2, <2>5, <2>1, <1>0
    <2>7. Ordered(rest) /\ Unique(rest)
      <3> SUFFICES ASSUME NEW i \in 1 .. Len(m) - 1, NEW j \in 1 .. Len(m) - 1
                   PROVE  /\ i <= j => rest[i].used <= rest[j].used
                          /\ rest[i].session = rest[j].session => i = j
        BY <2>5 DEF Ordered, Unique
      <3> DEFINE Old(x) == IF x < k THEN x ELSE x + 1
      <3>1. /\ Old(i) \in 1 .. Len(m) /\ Old(j) \in 1 .. Len(m)
            /\ i <= j => Old(i) <= Old(j)
            /\ Old(i) = Old(j) => i = j
        BY <2>1, <1>0
      <3>2. rest[i] = m[Old(i)] /\ rest[j] = m[Old(j)]
        BY <2>5
      <3> HIDE DEF Old
      <3> QED
        BY <3>1, <3>2, <1>0 DEF Table, Ordered, Unique
    <2>8. Within(rest, m)
      BY <2>6, <1>0 DEF Within
    <2>9. \A i \in DOMAIN rest : rest[i].session # session
      BY <2>6, <2>1, <1>0 DEF Table, Unique
    <2> QED
      BY <2>5, <2>7, <2>8, <2>9 DEF Table, rest
  <1> QED
    BY <1>1, <1>2

\* A session that is not in the table goes to its end.
LEMMA AppendIsTable ==
  ASSUME NEW now \in Nat, NEW m, Table(m, now), NEW entry \in Entries(now),
         entry.used = now, \A i \in DOMAIN m : m[i].session # entry.session
  PROVE  /\ Table(Append(m, entry), now)
         /\ \A i \in DOMAIN Append(m, entry) :
              Append(m, entry)[i] = entry \/ \E j \in DOMAIN m : Append(m, entry)[i] = m[j]
  <1>0. /\ m \in Seq(Entries(now)) /\ Len(m) \in Nat /\ DOMAIN m = 1 .. Len(m)
        /\ \A i \in 1 .. Len(m) : m[i] \in Entries(now) /\ m[i].used \in 1 .. now
    BY TableTypes DEF Table
  <1>2. /\ Append(m, entry) \in Seq(Entries(now)) /\ DOMAIN Append(m, entry) = 1 .. Len(m) + 1
        /\ \A i \in 1 .. Len(m) + 1 :
             Append(m, entry)[i] = IF i = Len(m) + 1 THEN entry ELSE m[i]
    BY <1>0, AppendProperties
  <1>3. Ordered(Append(m, entry)) /\ Unique(Append(m, entry))
    BY <1>0, <1>2 DEF Table, Ordered, Unique
  <1> QED
    BY <1>0, <1>2, <1>3 DEF Table

\* _evict_lru_to_capacity takes entries from the front.
LEMMA EvictLruIsTail ==
  ASSUME NEW now \in Nat, NEW m, Table(m, now)
  PROVE  Table(EvictLru(m), now) /\ Within(EvictLru(m), m)
  <1> DEFINE over == {Len(m) - MaxSessions, 0}
  <1>0. /\ m \in Seq(Entries(now)) /\ Len(m) \in Nat /\ DOMAIN m = 1 .. Len(m)
        /\ \A i \in 1 .. Len(m) : m[i] \in Entries(now) /\ m[i].used \in 1 .. now
    BY TableTypes DEF Table
  <1>1. \E x \in over : \A y \in over : x >= y
    BY <1>0
  <1>2. Max(over) \in over /\ \A y \in over : Max(over) >= y
    BY <1>1 DEF Max
  <1>3. Max(over) + 1 \in 1 .. Len(m) + 1
    <2> HIDE DEF over
    <2>1. \A x \in over : x \in Int /\ x <= Len(m)
      <3>1. /\ Len(m) - MaxSessions \in Int /\ Len(m) - MaxSessions <= Len(m)
            /\ 0 \in Int /\ 0 <= Len(m)
        BY <1>0
      <3> QED
        BY <3>1, <1>0, Zenon DEF over
    <2>2. 0 \in over
      BY DEF over
    <2> QED BY <1>0, <1>2, <2>1, <2>2
  <1> QED
    BY <1>3, TailIsTable DEF EvictLru
\* What get_worker does to the table, whatever session asks and whichever workers
\* are active.
LEMMA GetWorkerKeeps ==
  ASSUME NEW now \in Nat \ {0}, Table(map, now), cycler \in Ranks,
         NEW session \in Sessions, NEW active \in [Ranks -> BOOLEAN], NEW worker,
         GetWorker(session, active, now, worker)
  PROVE  /\ Table(map', now)
         /\ cycler' \in Ranks
         /\ \A i \in DOMAIN map' : ~ Idle(map'[i], now)
         /\ \A i \in DOMAIN map, j \in DOMAIN map' :
              /\ map[i].session = map'[j].session
              /\ ~ Idle(map[i], now) /\ active[map[i].rank]
              => map'[j].rank = map[i].rank
  <1> DEFINE kept   == EvictExpired(map, now)
             others == Popped(kept, session)
             entry  == [session |-> session, rank |-> worker, used |-> now]
  <1>1. /\ Table(kept, now) /\ Within(kept, map)
        /\ \A i \in DOMAIN kept : ~ Idle(kept[i], now)
        /\ \A i \in DOMAIN map : ~ Idle(map[i], now) => \E j \in DOMAIN kept : kept[j] = map[i]
    BY EvictExpiredKeeps
  <1>2. /\ Table(others, now) /\ Within(others, kept)
        /\ \A i \in DOMAIN others : others[i].session # session
    BY <1>1, PoppedKeeps
  <1>3. /\ \A i \in DOMAIN kept : kept[i] \in Entries(now)
        /\ Unique(map) /\ Unique(kept)
    BY <1>1, TableTypes DEF Table
  <1>4. \/ /\ Table(map', now)
           /\ \A j \in DOMAIN map' : map'[j] = entry \/ \E i \in DOMAIN others : map'[j] = others[i]
           /\ worker \in Ranks
           /\ \/ \E i \in At(kept, session) : Sticks(kept[i], active) /\ worker = kept[i].rank
              \/ \A i \in At(kept, session) : ~ Sticks(kept[i], active)
           /\ cycler' \in Ranks
        \/ map' = others /\ cycler' = cycler
    <2>1. ASSUME worker \in Ranks
          PROVE  /\ Table(Append(others, entry), now)
                 /\ \A j \in DOMAIN Append(others, entry) :
                      \/ Append(others, entry)[j] = entry
                      \/ \E i \in DOMAIN others : Append(others, entry)[j] = others[i]
      <3>1. entry \in Entries(now) /\ entry.used = now /\ entry.session = session
        BY <2>1 DEF Entries
      <3> HIDE DEF entry, others
      <3> QED
        BY <3>1, <1>2, AppendIsTable
    <2>2. ASSUME NEW i \in At(kept, session), Sticks(kept[i], active), worker = kept[i].rank,
                 map' = Touched(others, entry), cycler' = cycler
          PROVE  <1>4!1
      <3>1. worker \in Ranks
        <4>1. i \in DOMAIN kept
          BY DEF At
        <4>2. kept[i] \in Entries(now)
          BY <4>1, <1>3
        <4> HIDE DEF kept
        <4> QED
          BY <4>2, <2>2 DEF Entries
      <3> HIDE DEF kept, others, entry
      <3> QED
        BY <3>1, <2>1, <2>2 DEF Touched
    <2>3. ASSUME \A i \in At(kept, session) : ~ Sticks(kept[i], active),
                 Skipped(active) # {},
                 worker = (cycler + Min(Skipped(active))) % NumWorkers,
                 cycler' = After(worker),
                 map' = EvictLru(Append(others, entry))
          PROVE  <1>4!1
      <3>1. Min(Skipped(active)) \in Nat
        <4>1. Skipped(active) \in SUBSET Nat
          BY DEF Skipped
        <4> QED
          BY <4>1, <2>3, MinOfNats
      <3>2. worker \in Ranks /\ cycler' \in Ranks
        BY <3>1, <2>3 DEF After
      <3> HIDE DEF kept, others, entry
      <3>3. Table(map', now) /\ Within(map', Append(others, entry))
        BY <3>2, <2>1, <2>3, EvictLruIsTail
      <3> QED
        BY <3>2, <3>3, <2>1, <2>3 DEF Within
    <2> QED
      BY <2>2, <2>3 DEF GetWorker
  <1> HIDE DEF kept, others
  <1>5. entry.session = session /\ entry.rank = worker /\ entry.used = now
    OBVIOUS
  <1>6. ~ Idle(entry, now)
    BY <1>5 DEF Idle
  <1> HIDE DEF entry
  <1>7. Table(map', now) /\ cycler' \in Ranks
    BY <1>2, <1>4
  <1>8. \A j \in DOMAIN map' :
          \/ map'[j] = entry /\ <1>4!1
          \/ \E i \in DOMAIN kept : map'[j] = kept[i] /\ kept[i].session # session
    BY <1>2, <1>4 DEF Within
  <1>9. ASSUME NEW j \in DOMAIN map' PROVE ~ Idle(map'[j], now)
    BY <1>1, <1>6, <1>8
  <1>10. ASSUME NEW i \in DOMAIN map, NEW j \in DOMAIN map',
                map[i].session = map'[j].session,
                ~ Idle(map[i], now), active[map[i].rank]
         PROVE  map'[j].rank = map[i].rank
    <2>1. PICK k \in DOMAIN kept : kept[k] = map[i]
      BY <1>1, <1>10
    <2>2. CASE map'[j] = entry /\ <1>4!1
      <3>1. k \in At(kept, session) /\ Sticks(kept[k], active)
        BY <2>1, <2>2, <1>5, <1>10 DEF At, Sticks
      <3>2. PICK x \in At(kept, session) : worker = kept[x].rank
        BY <3>1, <2>2
      <3>3. x = k
        BY <3>1, <3>2, <1>3 DEF At, Unique
      <3> QED
        BY <3>2, <3>3, <2>1, <2>2, <1>5
    <2>3. CASE \E x \in DOMAIN kept : map'[j] = kept[x] /\ kept[x].session # session
      BY <2>1, <2>3, <1>3, <1>10 DEF Unique
    <2> QED
      BY <2>2, <2>3, <1>8
  <1> QED
    BY <1>7, <1>9, <1>10

-----------------------------------------------------------------------------
(***************************************************************************)
(* Types, with the table.                                                  *)
(***************************************************************************)
\* The entries of the table are not from the future, and the steps end with the
\* training.
PoolInv ==
  /\ TypeOK
  /\ Table(map, step)
  /\ pc # "done" => step <= TotalSteps

LEMMA TableLater ==
  ASSUME NEW m, NEW now \in Nat, Table(m, now)
  PROVE  Table(m, now + 1)
  <1>1. Entries(now) \subseteq Entries(now + 1)
    BY DEF Entries
  <1> QED
    BY <1>1, TableTypes DEF Table

\* The steps that leave the table alone.
LEMMA TypesElsewhere ==
  ASSUME PoolInv, Typed', Next \/ UNCHANGED vars, ~ Requesting
  PROVE  PoolInv'
  <1> USE DEF PoolInv, TypeOK, Typed
  <1>1. CASE Trainer
    <2>1. CASE EndStep
      <3>1. Table(map, step + 1)
        BY TableLater
      <3>2. /\ map' = map /\ cycler' = cycler /\ step' = step + 1
            /\ pc = "onloading_kvcache" /\ pc' \in {"done", "start"}
            /\ step = TotalSteps => pc' = "done"
            /\ modelStep' \in {step, modelStep} /\ todo' = {} /\ answered' = FALSE
            /\ UNCHANGED <<workerVars, paused, checkerVars, faults>>
        BY <2>1 DEF EndStep, Calls, routerVars
      <3>3. /\ step \in 1 .. TotalSteps /\ step' \in 1 .. TotalSteps + 1
            /\ modelStep' \in 0 .. TotalSteps
            /\ pc' # "done" => step' <= TotalSteps
        BY <3>2
      <3>4. TypeOK'
        BY <3>2, <3>3 DEF workerVars, checkerVars
      <3> QED
        BY <3>1, <3>2, <3>3, <3>4
    <2>2. ASSUME NEW w \in Ranks, Worker(w) PROVE PoolInv'
      <3>1. CASE WorkerOffloads(w) \/ WorkerOnloadsWeights(w) \/ WorkerOnloadsKvCache(w)
        BY <3>1 DEF WorkerOffloads, WorkerOnloadsWeights, WorkerOnloadsKvCache, Requests,
                    routerVars, checkerVars
      <3>2. CASE TrainWorkerSends(w)
        BY <3>2 DEF TrainWorkerSends, Requests, routerVars, checkerVars
      <3>3. CASE Relaunch(w)
        <4>1. /\ map' = map /\ cycler' = cycler /\ pc' \in {pc, "confirming"}
              /\ pc = "restarting" /\ todo' \in SUBSET Ranks
              /\ held' \in [Ranks -> 0 .. TotalSteps]
              /\ UNCHANGED <<step, modelStep, answered, paused, checker, toCheck, sick, toShut,
                            faults>>
          <5>1. held' = [held EXCEPT ![w] = 0] /\ 0 \in 0 .. TotalSteps
            BY <3>3 DEF Relaunch, Kill
          <5>2. /\ map' = map /\ cycler' = cycler /\ pc' \in {pc, "confirming"}
                /\ pc = "restarting" /\ todo' \in {todo, todo \ {w}}
                /\ UNCHANGED <<step, modelStep, answered, paused, checker, toCheck, sick, toShut,
                              faults>>
            BY <3>3 DEF Relaunch, routerVars, checkerVars
          <5> QED
            BY <5>1, <5>2
        <4>2. /\ isActive' \in [Ranks -> BOOLEAN] /\ server' \in [Ranks -> {"up", "dead"}]
              /\ memory' \in [Ranks -> {"asleep", "weights", "awake"}]
              /\ aborting' \in [Ranks -> BOOLEAN] /\ rolloutUrl' \in [Ranks -> BOOLEAN]
          BY <3>3 DEF Relaunch, Kill
        <4> QED
          BY <4>1, <4>2
      <3>4. CASE ConfirmRestart(w)
        BY <3>4 DEF ConfirmRestart, routerVars, checkerVars
      <3> QED BY <2>2, <3>1, <3>2, <3>3, <3>4 DEF Worker
    <2>3. CASE ContinueGeneration \/ PauseGeneration \/ Offload \/ RecoverFailedWorkers
      BY <2>3 DEF ContinueGeneration, PauseGeneration, Offload, RecoverFailedWorkers, Calls,
                  routerVars, workerVars, checkerVars
    <2>4. CASE \/ FinishRecovery \/ BindTrainRollout \/ OnloadWeights \/ UpdateWeights
               \/ OnloadKvCache
      BY <2>4 DEF FinishRecovery, BindTrainRollout, OnloadWeights, UpdateWeights,
                  OnloadKvCache, Calls, routerVars, workerVars, checkerVars
    <2> QED BY <1>1, <2>1, <2>2, <2>3, <2>4 DEF Trainer
  <1>2. CASE Checker
    <2>1. CASE CheckerStarts \/ CheckerWaits
      BY <2>1 DEF CheckerStarts, CheckerWaits, Active, routerVars, workerVars, trainerVars
    <2>2. ASSUME NEW w \in Ranks,
                 CheckerProbes(w) \/ CheckerMarks(w) \/ CheckerOffloads(w) \/ CheckerShutsDown(w)
          PROVE  PoolInv'
      <3>1. CASE CheckerProbes(w)
        <4>1. /\ UNCHANGED <<routerVars, workerVars, trainerVars, paused, checker, toShut>>
              /\ toCheck' = toCheck \ {w} /\ sick' \in {sick, sick \cup {w}}
              /\ faults' \in {faults, faults + 1} /\ faults' <= MaxFaults
          BY <3>1 DEF CheckerProbes
        <4>2. /\ toCheck' \in SUBSET Ranks /\ sick' \in SUBSET Ranks
              /\ faults' \in 0 .. MaxFaults
          BY <4>1
        <4>3. /\ map' = map /\ cycler' = cycler
              /\ UNCHANGED <<isActive, server, memory, held, aborting, rolloutUrl>>
              /\ UNCHANGED <<pc, step, modelStep, todo, answered, paused, checker, toShut>>
          BY <4>1 DEF routerVars, workerVars, trainerVars
        <4> QED
          BY <4>2, <4>3
      <3>2. CASE CheckerMarks(w)
        BY <3>2 DEF CheckerMarks, routerVars, trainerVars
      <3>3. CASE CheckerOffloads(w)
        BY <3>3 DEF CheckerOffloads, routerVars, trainerVars
      <3>4. CASE CheckerShutsDown(w)
        BY <3>4 DEF CheckerShutsDown, Kill, routerVars, trainerVars
      <3> QED BY <2>2, <3>1, <3>2, <3>3, <3>4
    <2> QED BY <1>2, <2>1, <2>2 DEF Checker
  <1>3. ASSUME NEW w \in Ranks, ServerDies(w) PROVE PoolInv'
    BY <1>3 DEF ServerDies, Kill, routerVars, trainerVars, checkerVars
  <1>4. CASE Terminated \/ UNCHANGED vars
    BY <1>4 DEF Terminated, vars, routerVars, workerVars, trainerVars, checkerVars
  <1> QED BY <1>1, <1>2, <1>3, <1>4 DEF Next

LEMMA PoolNext ==
  ASSUME PoolInv, [Next]_vars
  PROVE  PoolInv'
  <1>0. Typed'
    <2>1. Typed
      BY DEF PoolInv, TypeOK, Typed
    <2> QED
      BY <2>1, TypedNext
  <1>1. ASSUME NEW session \in Sessions, Generate(session) PROVE PoolInv'
    <2>1. PICK worker : GetWorker(session, isActive, step, worker)
      BY <1>1 DEF Generate
    <2>2. /\ UNCHANGED <<isActive, server, memory, held, aborting, rolloutUrl, pc, step,
                         modelStep, todo, paused, checker, toCheck, sick, toShut, faults>>
          /\ step \in 1 .. TotalSteps
      BY <1>1 DEF Generate, workerVars, checkerVars, PoolInv, TypeOK
    <2>3. Table(map', step) /\ cycler' \in Ranks
      <3>1. /\ step \in Nat \ {0} /\ Table(map, step) /\ cycler \in Ranks
            /\ isActive \in [Ranks -> BOOLEAN]
        BY DEF PoolInv, TypeOK
      <3> QED
        BY <2>1, <3>1, GetWorkerKeeps
    <2>4. answered' \in BOOLEAN
      BY <1>1 DEF Generate, PoolInv, TypeOK
    <2>5. \A i \in DOMAIN map' :
            map'[i] \in [session : Sessions, rank : Ranks, used : 1 .. TotalSteps]
      <3>1. \A i \in DOMAIN map' : map'[i] \in Entries(step)
        BY <2>2, <2>3, TableTypes
      <3>2. Entries(step) \subseteq [session : Sessions, rank : Ranks, used : 1 .. TotalSteps]
        BY <2>2 DEF Entries
      <3> QED
        BY <3>1, <3>2
    <2> QED
      BY <2>2, <2>3, <2>4, <2>5 DEF PoolInv, TypeOK
  <1> QED
    BY <1>0, <1>1, TypesElsewhere DEF Requesting

LEMMA PoolAlways == Spec => []PoolInv
  <1>1. Init => PoolInv
    BY DEF Init, RouterInit, PoolInv, TypeOK, Table, Ordered, Unique
  <1> QED BY <1>1, PoolNext, PTL DEF Spec

\* Every variable of the pool keeps its type: the cycle over the workers never
\* leaves their ranks, no session is kept for a worker that does not exist, and
\* no server holds the weights of a step that was not made.
THEOREM PoolTypes == Spec => []TypeOK
  BY PoolAlways, PTL DEF PoolInv

-----------------------------------------------------------------------------
(***************************************************************************)
(* What the router promises.                                               *)
(***************************************************************************)
\* Only requests touch the table.
LEMMA OnlyRequests ==
  ASSUME [Next]_vars, ~ Requesting
  PROVE  map' = map
  <1> USE DEF routerVars
  <1>1. CASE Trainer
    <2>1. ASSUME NEW w \in Ranks, Worker(w) PROVE map' = map
      BY <2>1 DEF Worker, WorkerOffloads, WorkerOnloadsWeights, TrainWorkerSends,
                  WorkerOnloadsKvCache, Relaunch, ConfirmRestart
    <2> QED
      BY <1>1, <2>1 DEF Trainer, ContinueGeneration, PauseGeneration, Offload,
         RecoverFailedWorkers, FinishRecovery, BindTrainRollout, OnloadWeights, UpdateWeights,
         OnloadKvCache, EndStep
  <1>2. CASE Checker
    BY <1>2 DEF Checker, CheckerStarts, CheckerWaits, CheckerProbes, CheckerMarks,
                CheckerOffloads, CheckerShutsDown
  <1>3. CASE (\E w \in Ranks : ServerDies(w)) \/ Terminated \/ UNCHANGED vars
    BY <1>3 DEF ServerDies, Terminated, vars
  <1> QED BY <1>1, <1>2, <1>3 DEF Next

\* A request at the same moment.
LEMMA RequestKeeps ==
  ASSUME PoolInv, Requesting
  PROVE  /\ \A i \in DOMAIN map' : ~ Idle(map'[i], step)
         /\ \A i \in DOMAIN map, j \in DOMAIN map' :
              /\ map[i].session = map'[j].session
              /\ ~ Idle(map[i], step) /\ isActive[map[i].rank]
              => map'[j].rank = map[i].rank
  <1>1. PICK session \in Sessions : Generate(session)
    BY DEF Requesting
  <1>2. PICK worker : GetWorker(session, isActive, step, worker)
    BY <1>1 DEF Generate
  <1>3. /\ step \in Nat \ {0} /\ Table(map, step) /\ cycler \in Ranks
        /\ isActive \in [Ranks -> BOOLEAN]
    BY DEF PoolInv, TypeOK
  <1> QED
    BY <1>2, <1>3, GetWorkerKeeps

\* A request that changes the table leaves no session in it that was idle for too
\* long, although the search for them stops at the first that was not: the table
\* is in the order of last use whatever was popped, moved and routed again.
THEOREM RouterForgets == Spec => ForgetsIdle
  <1>1. PoolInv /\ [Next]_vars =>
          [map' # map => \A i \in DOMAIN map' : ~ Idle(map'[i], step)]_vars
    BY OnlyRequests, RequestKeeps
  <1> QED BY <1>1, PoolAlways, PTL DEF Spec, ForgetsIdle

\* A session that comes back in time is served by the worker it had while that is
\* active, whatever happens to the other sessions and the other workers.
THEOREM RouterSticks == Spec => StaysWithWorker
  <1>1. ASSUME PoolInv, [Next]_vars, NEW i \in DOMAIN map, NEW j \in DOMAIN map',
               map[i].session = map'[j].session,
               ~ Idle(map[i], step), isActive[map[i].rank]
        PROVE  map'[j].rank = map[i].rank
    <2>1. CASE Requesting
      BY <1>1, <2>1, RequestKeeps
    <2>2. CASE ~ Requesting
      <3>1. map' = map
        BY <1>1, <2>2, OnlyRequests
      <3> QED
        BY <1>1, <3>1 DEF PoolInv, Table, Unique
    <2> QED BY <2>1, <2>2
  <1>2. PoolInv /\ [Next]_vars =>
          [\A i \in DOMAIN map, j \in DOMAIN map' :
             /\ map[i].session = map'[j].session
             /\ ~ Idle(map[i], step) /\ isActive[map[i].rank]
             => map'[j].rank = map[i].rank]_vars
    BY <1>1
  <1> QED BY <1>2, PoolAlways, PTL DEF Spec, StaysWithWorker
=============================================================================
