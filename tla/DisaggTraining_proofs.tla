------------------------ MODULE DisaggTraining_proofs ------------------------
(***************************************************************************)
(* Machine-checked proofs that the safety properties of DisaggTraining     *)
(* hold for every number of groups and steps, every staleness setting and  *)
(* every interleaving.                                                     *)
(***************************************************************************)
EXTENDS DisaggInvariants, RolloutGroup_proofs, FiniteSetTheorems

USE StalenessAssumption, GroupAssumption, DisaggAssumption

-----------------------------------------------------------------------------
\* Sampled groups are fresh, or aborted or expired ones of the buffer.
LEMMA SampledPool ==
  ASSUME NEW S \in SUBSET Groups, NEW tail, SampledInOrder(S, tail), NEW g \in S
  PROVE  \/ group[g].stage = "dataset"
         \/ group[g].stage = "buffer" /\ group[g].status \in {"ABORTED", "EXPIRED"}
  <1> SUFFICES ASSUME group[g].stage # "dataset",
                      group[g].stage = "buffer" => group[g].status \notin {"ABORTED", "EXPIRED"}
               PROVE  FALSE
    OBVIOUS
  <1>1. /\ g \notin Buffered("EXPIRED")
        /\ g \notin Buffered("ABORTED")
        /\ g \notin InStage({"dataset"})
    BY DEF Buffered, InStage
  <1>2. ~ (tail /\ g \in Buffered("EXPIRED"))
    BY <1>1
  <1>3. SampleRank(g, tail) = 4
    BY <1>1, <1>2, Zenon DEF SampleRank
  <1> QED BY <1>3 DEF SampledInOrder

\* Only groups nobody works on are sampled.
LEMMA SampledStage ==
  ASSUME NEW S \in SUBSET Groups, NEW tail, SampledInOrder(S, tail)
  PROVE  \A g \in S : group[g].stage \in {"buffer", "dataset"}
  BY SampledPool

-----------------------------------------------------------------------------
(***************************************************************************)
(* Type correctness.                                                       *)
(***************************************************************************)
\* Both coroutines and the engine start with values of the right types.
LEMMA InitType == Init => TypeOK
  <1> SUFFICES ASSUME Init PROVE TypeOK
    OBVIOUS
  <1>1. ctx \in [model: Nat, target: Nat, tail: BOOLEAN]
    BY DEF Init
  <1>2. group \in [Groups -> GroupRecord]
    BY DatasetType DEF Init
  <1> QED BY <1>1, <1>2 DEF Init, TypeOK

\* When a claimed task raises, a finished group is put or lost, and every other
\* group is left alone.
LEMMA ClaimRaisesOutcome ==
  ASSUME NEW step, ClaimRaises(step)
  PROVE  \A g \in Groups : \/ group'[g] = group[g]
                            \/ group'[g] = FromDataset
                            \/ /\ g \in Finished
                               /\ group'[g] = PutGroup(group[g], step, consumerStep)
  <1>1. PICK put \in SUBSET (Finished \ Raised) :
          group' = [g \in Groups |->
            IF g \in put THEN PutGroup(group[g], step, consumerStep)
            ELSE IF g \in Finished THEN FromDataset ELSE group[g]]
    BY DEF ClaimRaises
  <1> QED BY <1>1, Zenon

\* It leaves every group a group record.
LEMMA ClaimRaisesType ==
  ASSUME group \in [Groups -> GroupRecord], consumerStep \in Nat, NEW step \in Nat,
         ClaimRaises(step)
  PROVE  group' \in [Groups -> GroupRecord]
  <1>1. PICK put \in SUBSET (Finished \ Raised) :
          group' = [g \in Groups |->
            IF g \in put THEN PutGroup(group[g], step, consumerStep)
            ELSE IF g \in Finished THEN FromDataset ELSE group[g]]
    BY DEF ClaimRaises
  <1>2. \A g \in Groups : PutGroup(group[g], step, consumerStep) \in GroupRecord
    BY PutType
  <1> QED BY <1>1, <1>2, DatasetType, Zenon

\* Every action of the producer, the trainer and the engine keeps the types.
LEMMA NextType == TypeOK /\ [Next]_vars => TypeOK'
  <1> SUFFICES ASSUME TypeOK, [Next]_vars PROVE TypeOK'
    OBVIOUS
  <1> USE DEF TypeOK
  <1>1. CASE ExitLoop
    BY <1>1 DEF ExitLoop, ProducerAt, managerVars, progressVars, trainerVars, engineVars
  <1>2. CASE BeginRound
    BY <1>2 DEF BeginRound, ProducerAt, managerVars, progressVars, trainerVars, engineVars
  <1>3. CASE RoundExpired
    BY <1>3 DEF RoundExpired, RoundResumes, ProducerAt, trainerVars
  <1>4. CASE RoundStarts
    BY <1>4 DEF RoundStarts, RoundResumes, ProducerAt, trainerVars
  <1>5. CASE StartBatch
    <2>1. group' \in [Groups -> GroupRecord]
      BY <1>5, PutType DEF StartBatch, PutClaimed
    <2>2. TargetSamples \in Nat
      <3>1. \A a, b \in Nat : a * b \in Nat
        OBVIOUS
      <3> QED BY <3>1 DEF TargetSamples
    <2> DEFINE tail == TailTrigger > 0 /\ Cardinality(Buffered("EXPIRED")') >= TailTrigger
    <2>3. ctx' = [ctx EXCEPT !.target = TargetSamples, !.tail = tail] /\ tail \in BOOLEAN
      BY <1>5 DEF StartBatch
    <2>4. ctx' \in [model: Nat, target: Nat, tail: BOOLEAN]
      <3> HIDE DEF tail
      <3> QED BY <2>2, <2>3
    <2> QED
      BY <1>5, <2>1, <2>4 DEF StartBatch, ProducerAt, managerVars, progressVars, trainerVars,
         engineVars
  <1>6. CASE AbortBatch
    BY <1>6 DEF AbortBatch, ProducerAt, managerVars, progressVars, trainerVars, engineVars
  <1>7. CASE EnoughProduced
    BY <1>7 DEF EnoughProduced, ProducerAt, managerVars, progressVars, trainerVars, engineVars
  <1>8. CASE ScheduleGroups
    <2>1. PICK S \in SUBSET Groups :
            group' = [g \in Groups |->
              IF g \in S THEN Launched(group[g], weights, paused) ELSE group[g]]
      BY <1>8 DEF ScheduleGroups
    <2>2. group' \in [Groups -> GroupRecord]
      BY <2>1, LaunchedRecord
    <2> QED
      BY <1>8, <2>2 DEF ScheduleGroups, ProducerAt, managerVars, progressVars, trainerVars,
         engineVars
  <1>9. CASE WakeAndPut
    BY <1>9, PutType DEF WakeAndPut, PutClaimed, ProducerAt, managerVars, progressVars,
       trainerVars, engineVars
  <1>10. CASE AdvanceFutureStep
    BY <1>10 DEF AdvanceFutureStep, ProducerAt, managerVars, trainerVars, engineVars
  <1>11. CASE BeginConsume
    BY <1>11, RefreshType DEF BeginConsume, Refreshed, TrainerAt, managerVars, producerVars,
       engineVars
  <1>12. CASE SkipExpiredStep
    BY <1>12 DEF SkipExpiredStep, TrainerAt, managerVars, progressVars, producerVars, engineVars
  <1>13. CASE TakeBatch
    <2>1. PICK S \in SUBSET Buffered("COMPLETED") :
            group' = [g \in Groups |->
              IF g \in S THEN [group[g] EXCEPT !.stage = "batch"]
                         ELSE RefreshGroup(group[g], trainStep + 1)]
      BY <1>13 DEF TakeBatch
    <2>2. \A g \in Groups : [group[g] EXCEPT !.stage = "batch"] \in GroupRecord
      BY DEF GroupRecord, Stages
    <2>3. \A g \in Groups : RefreshGroup(group[g], trainStep + 1) \in GroupRecord
      BY RefreshType
    <2>4. group' \in [Groups -> GroupRecord]
      BY <2>1, <2>2, <2>3, Zenon
    <2> QED
      BY <1>13, <2>4 DEF TakeBatch, TrainerAt, managerVars, producerVars, engineVars
  <1>14. CASE TrainOneBatch
    BY <1>14, DatasetType DEF TrainOneBatch, TrainerAt, managerVars, progressVars,
       producerVars, engineVars
  <1>15. CASE PauseProduce
    <2>1. group' \in [Groups -> GroupRecord]
      BY <1>15 DEF PauseProduce, Interrupted, GroupRecord, Stages
    <2> QED
      BY <1>15, <2>1 DEF PauseProduce, TrainerAt, progressVars, producerVars
  <1>16. CASE DrainPending
    BY <1>16, PutType DEF DrainPending, PutClaimed, TrainerAt, managerVars, progressVars,
       producerVars, engineVars
  <1>17. CASE DrainDone
    BY <1>17 DEF DrainDone, TrainerAt, managerVars, progressVars, producerVars, engineVars
  <1>18. CASE DrainTimeout
    BY <1>18, DatasetType DEF DrainTimeout, TrainerAt, managerVars, progressVars,
       producerVars, engineVars
  <1>19. CASE CleanupDone
    BY <1>19 DEF CleanupDone, TrainerAt, managerVars, progressVars, producerVars, engineVars
  <1>20. CASE SaveRaises
    BY <1>20 DEF SaveRaises, TrainerAt, progressVars, producerVars, engineVars
  <1>21. CASE UpdateWeights
    BY <1>21 DEF UpdateWeights, TrainerAt, managerVars, progressVars, producerVars
  <1>22. CASE Evaluate
    <2>1. group' \in [Groups -> GroupRecord]
      BY <1>22 DEF Evaluate, Interrupted, GroupRecord, Stages
    <2> QED
      BY <1>22, <2>1 DEF Evaluate, TrainerAt, managerVars, progressVars, producerVars
  <1>23. CASE ContinueProduce
    BY <1>23 DEF ContinueProduce, TrainerAt, progressVars, producerVars, engineVars
  <1>24. CASE Shutdown
    BY <1>24 DEF Shutdown, TrainerAt, progressVars, producerVars, engineVars
  <1>25. CASE JoinProducer
    BY <1>25 DEF JoinProducer, TrainerAt, managerVars, progressVars, producerVars, engineVars
  <1>26. ASSUME NEW g \in Groups, FinishGroup(g) PROVE TypeOK'
    <2>1. PICK r \in Returned(group[g]) : group' = [group EXCEPT ![g] = r]
      BY <1>26 DEF FinishGroup
    <2>2. r \in GroupRecord
      BY ReturnedType
    <2> QED
      BY <1>26, <2>1, <2>2 DEF FinishGroup, managerVars, progressVars, producerVars,
         trainerVars, engineVars
  <1>27. ASSUME NEW g \in Groups, FailGroup(g) PROVE TypeOK'
    <2>1. PICK r \in Failed : group' = [group EXCEPT ![g] = r]
      BY <1>27 DEF FailGroup
    <2>2. r \in GroupRecord
      BY FailedRecord
    <2> QED
      BY <1>27, <2>1, <2>2 DEF FailGroup, managerVars, progressVars, producerVars,
         trainerVars, engineVars
  <1>28. CASE UNCHANGED vars
    BY <1>28 DEF vars, managerVars, progressVars, producerVars, trainerVars, engineVars
  <1>29. CASE Terminated
    BY <1>29, <1>28 DEF Terminated
  <1>30. CASE ProducerRaises
    BY <1>30, ClaimRaisesType DEF ProducerRaises, ProducerAt, managerVars, progressVars,
       trainerVars, engineVars
  <1>31. CASE DrainRaises
    BY <1>31, ClaimRaisesType DEF DrainRaises, TrainerAt, progressVars, producerVars,
       engineVars
  <1> QED
    BY <1>1, <1>2, <1>3, <1>4, <1>5, <1>6, <1>7, <1>8, <1>9, <1>10, <1>11, <1>12, <1>13,
       <1>14, <1>15, <1>16, <1>17, <1>18, <1>19, <1>20, <1>21, <1>22, <1>23, <1>24, <1>25,
       <1>26, <1>27, <1>28, <1>29, <1>30, <1>31
    DEF Next, ProducerNext, TrainerNext, EngineNext

\* Every reachable state of the two coroutines, the buffer and the engine is
\* well typed, whatever the interleaving.
THEOREM TypeCorrect == Spec => []TypeOK
  <1> QED BY InitType, NextType, PTL DEF Spec

-----------------------------------------------------------------------------
(***************************************************************************)
(* The engine is quiet between the drain and continue_produce.             *)
(***************************************************************************)
\* Every action keeps the engine quiet between the drain and continue_produce:
\* only ScheduleGroups adds pending tasks, and it needs the event clear.
LEMMA QuietStep == TypeOK /\ QuietInv /\ Next => QuietInv'
  <1> SUFFICES ASSUME TypeOK, QuietInv, Next PROVE QuietInv'
    OBVIOUS
  <1> USE DEF QuietInv
  <1>0. /\ Pending = {g \in Groups : group[g].stage \in {"running", "aborting", "finished"}}
        /\ Pending' = {g \in Groups : group'[g].stage \in {"running", "aborting", "finished"}}
    BY DEF Pending, InStage
  <1>1. CASE ExitLoop \/ BeginRound \/ AbortBatch \/ EnoughProduced \/ AdvanceFutureStep
    BY <1>0, <1>1 DEF ExitLoop, BeginRound, AbortBatch, EnoughProduced, AdvanceFutureStep,
       managerVars, trainerVars
  <1>2. CASE RoundExpired \/ RoundStarts
    BY <1>0, <1>2 DEF RoundExpired, RoundStarts, RoundResumes, trainerVars
  <1>3. CASE StartBatch \/ WakeAndPut
    <2>1. PICK step \in Nat : PutClaimed(step)
      BY <1>3 DEF StartBatch, WakeAndPut, TypeOK
    <2>2. \A g \in Groups : group'[g].stage \in {"dataset", "buffer"} \/ group'[g] = group[g]
      BY <2>1, PutStage DEF PutClaimed, TypeOK
    <2> QED
      BY <1>0, <1>3, <2>2 DEF StartBatch, WakeAndPut, managerVars, trainerVars
  <1>4. CASE ScheduleGroups
    BY <1>4 DEF ScheduleGroups, managerVars, trainerVars
  <1>5. CASE BeginConsume \/ TakeBatch \/ TrainOneBatch
    BY <1>5 DEF BeginConsume, TakeBatch, TrainOneBatch, TrainerAt
  <1>6. CASE SkipExpiredStep \/ DrainDone \/ CleanupDone
    BY <1>0, <1>6 DEF SkipExpiredStep, DrainDone, CleanupDone, TrainerAt, managerVars
  <1>7. CASE PauseProduce
    BY <1>0, <1>7 DEF PauseProduce, TrainerAt
  <1>8. CASE DrainPending
    BY <1>8 DEF DrainPending, TrainerAt, managerVars
  <1>9. CASE DrainTimeout
    BY <1>0, <1>9 DEF DrainTimeout, TrainerAt, FromDataset, managerVars, TypeOK
  <1>10. CASE SaveRaises \/ UpdateWeights
    BY <1>0, <1>10 DEF SaveRaises, UpdateWeights, TrainerAt, managerVars
  <1>11. CASE Evaluate
    BY <1>0, <1>11 DEF Evaluate, Interrupted, TrainerAt, managerVars, TypeOK
  <1>12. CASE ContinueProduce \/ Shutdown \/ JoinProducer
    BY <1>12 DEF ContinueProduce, Shutdown, JoinProducer, TrainerAt
  <1>13. CASE \E g \in Groups : FinishGroup(g) \/ FailGroup(g)
    <2>1. PICK g \in Groups : FinishGroup(g) \/ FailGroup(g)
      BY <1>13
    <2>2. g \in Pending /\ trainer' = trainer /\ updateEvent' = updateEvent
      BY <1>0, <2>1 DEF FinishGroup, FailGroup, trainerVars, managerVars
    <2> QED
      BY <2>2
  <1>14. CASE Terminated
    BY <1>0, <1>14 DEF Terminated, vars, trainerVars, managerVars
  <1>15. CASE ProducerRaises
    <2>1. PICK step \in Nat : ClaimRaises(step)
      BY <1>15 DEF ProducerRaises, TypeOK
    <2>2. \A g \in Groups : group'[g].stage \in {"dataset", "buffer"} \/ group'[g] = group[g]
      BY <2>1, ClaimRaisesOutcome, PutStage DEF TypeOK, FromDataset
    <2> QED
      BY <1>0, <1>15, <2>2 DEF ProducerRaises, managerVars, trainerVars
  <1>16. CASE DrainRaises
    BY <1>16 DEF DrainRaises, TrainerAt
  <1> QED
    BY <1>1, <1>2, <1>3, <1>4, <1>5, <1>6, <1>7, <1>8, <1>9, <1>10, <1>11, <1>12, <1>13, <1>14,
       <1>15, <1>16
    DEF Next, ProducerNext, TrainerNext, EngineNext

-----------------------------------------------------------------------------
(***************************************************************************)
(* The versions the coroutines hold follow the engine's weights.           *)
(***************************************************************************)
\* modelStep and a round's captured model_step never pass the weights of the
\* engine, because only continue_produce raises them, after update_weights.
LEMMA VersionStep == TypeOK /\ VersionInv /\ Next => VersionInv'
  <1> SUFFICES ASSUME TypeOK, VersionInv, Next PROVE VersionInv'
    OBVIOUS
  <1> USE DEF VersionInv
  <1>1. CASE ExitLoop \/ BeginRound \/ AbortBatch \/ EnoughProduced \/ AdvanceFutureStep
               \/ ScheduleGroups \/ WakeAndPut \/ ProducerRaises
    BY <1>1 DEF ExitLoop, BeginRound, AbortBatch, EnoughProduced, AdvanceFutureStep,
       ScheduleGroups, WakeAndPut, ProducerRaises, managerVars, trainerVars, engineVars
  <1>2. CASE RoundExpired \/ RoundStarts
    BY <1>2 DEF RoundExpired, RoundStarts, RoundResumes, trainerVars
  <1>3. CASE StartBatch
    <2>1. ctx'.model = ctx.model
      BY <1>3 DEF StartBatch, TypeOK
    <2> QED
      BY <1>3, <2>1 DEF StartBatch, managerVars, trainerVars, engineVars
  <1>4. CASE BeginConsume \/ SkipExpiredStep \/ TakeBatch \/ TrainOneBatch
    BY <1>4 DEF BeginConsume, SkipExpiredStep, TakeBatch, TrainOneBatch, TrainerAt, TypeOK,
       managerVars, producerVars, engineVars
  <1>5. CASE PauseProduce
    BY <1>5 DEF PauseProduce, TrainerAt, producerVars
  <1>6. CASE DrainPending \/ DrainDone \/ DrainTimeout \/ CleanupDone
    BY <1>6 DEF DrainPending, DrainDone, DrainTimeout, CleanupDone, TrainerAt, managerVars,
       producerVars, engineVars
  <1>7. CASE SaveRaises \/ UpdateWeights \/ Evaluate \/ ContinueProduce
    BY <1>7 DEF SaveRaises, UpdateWeights, Evaluate, ContinueProduce, TrainerAt, TypeOK,
       managerVars, producerVars, engineVars
  <1>8. CASE Shutdown \/ JoinProducer \/ DrainRaises
    BY <1>8 DEF Shutdown, JoinProducer, DrainRaises, TrainerAt, managerVars, producerVars,
       engineVars
  <1>9. CASE \E g \in Groups : FinishGroup(g) \/ FailGroup(g)
    BY <1>9 DEF FinishGroup, FailGroup, managerVars, producerVars, trainerVars, engineVars
  <1>10. CASE Terminated
    BY <1>10 DEF Terminated, vars, managerVars, producerVars, trainerVars, engineVars
  <1> QED
    BY <1>1, <1>2, <1>3, <1>4, <1>5, <1>6, <1>7, <1>8, <1>9, <1>10
    DEF Next, ProducerNext, TrainerNext, EngineNext

-----------------------------------------------------------------------------
(***************************************************************************)
(* Labels never overstate.  update_sample_version records a step that is   *)
(* no newer than the weights the pending groups were generated with.       *)
(***************************************************************************)
\* A group without tokens has nothing to label.
LEMMA FreshRecords == LabelOK(FromDataset) /\ LabelOK(ExpiredGroup)
  BY DEF LabelOK, FromDataset, ExpiredGroup, NoTokens

\* update_sample_version keeps a label truthful if the step it records is not
\* newer than the weights.
LEMMA PutLabel ==
  ASSUME weights \in Nat,
         NEW r \in GroupRecord, r.stage = "finished", LabelOK(r),
         NEW step \in Nat, NEW at \in Nat, step <= weights
  PROVE  LabelOK(PutGroup(r, step, at))
  <1> DEFINE v == Versioned(r, step)
  <1>1. v.stage = "buffer" /\ v.gained = FALSE /\ v.act = r.act
    BY DEF Versioned, GroupRecord
  <1>2. v.ver = IF r.gained THEN OldestVersion(r.ver, step) ELSE r.ver
    BY DEF Versioned, GroupRecord
  <1>3. r.ver \in Nat \union {NoTokens} /\ r.act \in Nat \union {NoTokens}
    BY DEF GroupRecord
  <1>4. v.ver <= v.act /\ (v.ver = NoTokens <=> v.act = NoTokens)
    <2>1. CASE r.gained
      <3>1. r.act # NoTokens /\ OldestVersion(r.ver, weights) <= r.act
        BY <2>1 DEF LabelOK
      <3> QED BY <1>1, <1>2, <1>3, <2>1, <3>1 DEF OldestVersion, NoTokens
    <2>2. CASE ~ r.gained
      BY <1>1, <1>2, <2>2 DEF LabelOK
    <2> QED BY <2>1, <2>2
  <1>5. LabelOK(v)
    BY <1>1, <1>4 DEF LabelOK
  <1> QED
    BY <1>5, FreshRecords DEF PutGroup

\* What the engine returns keeps the promise: the kept tokens are as truthful
\* as before, the new ones come from the present weights.
LEMMA ReturnedLabel ==
  ASSUME weights \in Nat,
         NEW r \in GroupRecord, r.stage \in {"running", "aborting"}, LabelOK(r),
         NEW s \in Returned(r)
  PROVE  LabelOK(s)
  <1>1. PICK k \in Kept(r), gained \in BOOLEAN :
          /\ s.stage = "finished" /\ s.ver = k.ver /\ s.gained = gained
          /\ s.act = IF gained THEN OldestVersion(k.act, r.since) ELSE k.act
    BY DEF Returned
  <1>2. r.since = weights /\ r.ver <= r.act /\ (r.ver = NoTokens <=> r.act = NoTokens)
    BY DEF LabelOK
  <1>3. /\ k.ver \in Nat \union {NoTokens} /\ k.act \in Nat \union {NoTokens}
        /\ k.ver <= k.act
        /\ k.ver = NoTokens <=> k.act = NoTokens
    BY <1>2, KeptOrder
  <1>4. /\ OldestVersion(k.act, weights) # NoTokens
        /\ OldestVersion(k.ver, weights) <= OldestVersion(k.act, weights)
    BY <1>3 DEF OldestVersion, NoTokens
  <1>5. CASE gained
    BY <1>1, <1>2, <1>4, <1>5 DEF LabelOK
  <1>6. CASE ~ gained
    BY <1>1, <1>3, <1>6 DEF LabelOK
  <1> QED BY <1>5, <1>6

\* Replacing one group by a truthful one keeps all labels truthful.
LEMMA LabelReplaced ==
  ASSUME LabelInv, NEW g \in Groups, NEW r, LabelOK(r), weights' = weights,
         DOMAIN group = Groups, group' = [group EXCEPT ![g] = r]
  PROVE  LabelInv'
  <1>1. ASSUME NEW h \in Groups PROVE LabelOK(group[h])'
    <2>1. CASE h = g
      <3>1. group'[h] = r
        BY <2>1
      <3> QED BY <3>1, Zenon DEF LabelOK
    <2>2. CASE h # g
      <3>1. group'[h] = group[h]
        BY <2>2
      <3>2. LabelOK(group[h])
        BY DEF LabelInv
      <3> QED BY <3>1, <3>2, Zenon DEF LabelOK
    <2> QED BY <2>1, <2>2
  <1> QED BY <1>1 DEF LabelInv

\* Putting all finished groups into the buffer keeps all labels truthful.
LEMMA PutClaimedLabel ==
  ASSUME TypeOK, LabelInv, NEW step \in Nat, PutClaimed(step), weights' = weights,
         step <= weights \/ Pending = {}
  PROVE  LabelInv'
  <1>1. ASSUME NEW g \in Groups PROVE LabelOK(group[g])'
    <2>1. CASE g \in Finished
      <3>1. g \in Pending /\ group[g].stage = "finished"
        BY <2>1 DEF Finished, Pending, InStage
      <3>2. LabelOK(PutGroup(group[g], step, consumerStep))
        BY <3>1, PutLabel DEF TypeOK, LabelInv
      <3>3. group'[g] = PutGroup(group[g], step, consumerStep)
        BY <2>1 DEF PutClaimed
      <3> QED BY <3>2, <3>3 DEF LabelOK
    <2>2. CASE g \notin Finished
      BY <2>2 DEF PutClaimed, LabelInv, LabelOK
    <2> QED BY <2>1, <2>2
  <1> QED BY <1>1 DEF LabelInv

\* So does losing some of them to an exception.
LEMMA ClaimRaisesLabel ==
  ASSUME TypeOK, LabelInv, NEW step \in Nat, ClaimRaises(step), weights' = weights,
         step <= weights \/ Pending = {}
  PROVE  LabelInv'
  <1>1. ASSUME NEW g \in Groups PROVE LabelOK(group[g])'
    <2>1. CASE g \in Finished /\ group'[g] = PutGroup(group[g], step, consumerStep)
      <3>1. g \in Pending /\ group[g].stage = "finished"
        BY <2>1 DEF Finished, Pending, InStage
      <3>2. LabelOK(PutGroup(group[g], step, consumerStep))
        BY <3>1, PutLabel DEF TypeOK, LabelInv
      <3> QED BY <2>1, <3>2 DEF LabelOK
    <2>2. CASE group'[g] = FromDataset
      BY <2>2, FreshRecords DEF LabelOK
    <2>3. CASE group'[g] = group[g]
      BY <2>3 DEF LabelInv, LabelOK
    <2> QED BY <2>1, <2>2, <2>3, ClaimRaisesOutcome
  <1> QED BY <1>1 DEF LabelInv

\* Every action keeps the labels truthful.
LEMMA LabelStep == TypeOK /\ QuietInv /\ VersionInv /\ LabelInv /\ Next => LabelInv'
  <1> SUFFICES ASSUME TypeOK, QuietInv, VersionInv, LabelInv, Next PROVE LabelInv'
    OBVIOUS
  <1>0. ASSUME group' = group, weights' = weights PROVE LabelInv'
    BY <1>0 DEF LabelInv, LabelOK
  <1>1. CASE ExitLoop \/ BeginRound \/ AbortBatch \/ EnoughProduced \/ AdvanceFutureStep
               \/ RoundExpired \/ RoundStarts
    BY <1>0, <1>1 DEF ExitLoop, BeginRound, AbortBatch, EnoughProduced, AdvanceFutureStep,
       RoundExpired, RoundStarts, RoundResumes, engineVars
  <1>2. CASE StartBatch \/ WakeAndPut
    <2>1. ctx.model \in Nat /\ PutClaimed(ctx.model) /\ weights' = weights
      BY <1>2 DEF StartBatch, WakeAndPut, TypeOK, engineVars
    <2>2. ctx.model <= weights \/ Pending = {}
      BY DEF VersionInv, QuietInv
    <2> QED BY <2>1, <2>2, PutClaimedLabel
  <1>3. CASE ScheduleGroups
    <2>1. PICK S \in SUBSET Groups :
            /\ SampledInOrder(S, ctx.tail)
            /\ group' = [g \in Groups |->
                 IF g \in S THEN Launched(group[g], weights, paused) ELSE group[g]]
      BY <1>3 DEF ScheduleGroups
    <2>2. \A g \in S : group[g].stage \in {"buffer", "dataset"}
      BY <2>1, SampledStage
    <2>3. ASSUME NEW g \in S PROVE LabelOK(group[g])'
      <3>1. LabelOK(group[g]) /\ ~ group[g].gained
        BY <2>2 DEF LabelInv, LabelOK
      <3>2. group'[g] = Launched(group[g], weights, paused) /\ weights' = weights
        BY <1>3, <2>1 DEF ScheduleGroups, engineVars
      <3>3. group[g] \in GroupRecord /\ weights \in Nat /\ paused \in BOOLEAN
        BY DEF TypeOK
      <3>4. /\ group'[g].since = weights
            /\ group'[g].ver = group[g].ver
            /\ group'[g].act = group[g].act
            /\ group'[g].gained = group[g].gained
        BY <3>2, <3>3, LaunchedRecord
      <3> QED
        BY <3>1, <3>2, <3>4 DEF LabelOK
    <2>4. ASSUME NEW g \in Groups \ S PROVE LabelOK(group[g])'
      BY <1>3, <2>1 DEF ScheduleGroups, LabelInv, LabelOK, engineVars
    <2> QED BY <2>3, <2>4 DEF LabelInv
  <1>4. CASE BeginConsume
    <2>1. \A g \in Groups : group'[g] = group[g] \/ group'[g] = ExpiredGroup
      BY <1>4, RefreshStage DEF BeginConsume, Refreshed, TypeOK
    <2> QED
      BY <1>4, <2>1, FreshRecords DEF BeginConsume, LabelInv, LabelOK, engineVars
  <1>5. CASE TakeBatch
    <2>1. PICK S \in SUBSET Buffered("COMPLETED") :
            group' = [g \in Groups |->
              IF g \in S THEN [group[g] EXCEPT !.stage = "batch"]
                         ELSE RefreshGroup(group[g], trainStep + 1)]
      BY <1>5 DEF TakeBatch
    <2>2. \A g \in S : group[g].stage = "buffer"
      BY DEF Buffered, InStage
    <2>3. \A g \in Groups \ S : group'[g] = group[g] \/ group'[g] = ExpiredGroup
      BY <2>1, RefreshStage DEF TypeOK
    <2>4. \A g \in S : LabelOK(group[g])'
      BY <1>5, <2>1, <2>2 DEF TakeBatch, LabelInv, LabelOK, TypeOK, GroupRecord, Buffered,
         InStage, engineVars
    <2> QED
      BY <1>5, <2>3, <2>4, FreshRecords DEF TakeBatch, LabelInv, LabelOK, engineVars
  <1>6. CASE TrainOneBatch \/ DrainTimeout
    <2>1. \A g \in Groups : group'[g] = group[g] \/ group'[g] = FromDataset
      BY <1>6 DEF TrainOneBatch, DrainTimeout
    <2> QED
      BY <1>6, <2>1, FreshRecords DEF TrainOneBatch, DrainTimeout, LabelInv, LabelOK, engineVars
  <1>7. CASE PauseProduce \/ Evaluate
    <2>1. weights' = weights /\ (group' = group \/ group' = Interrupted(group))
      BY <1>7 DEF PauseProduce, Evaluate
    <2> QED
      BY <2>1, <1>0 DEF Interrupted, LabelInv, LabelOK, TypeOK, GroupRecord
  <1>8. CASE DrainPending
    <2>1. modelStep <= weights /\ modelStep \in Nat /\ PutClaimed(modelStep) /\ weights' = weights
      BY <1>8 DEF DrainPending, TrainerAt, VersionInv, TypeOK, engineVars
    <2> QED BY <2>1, PutClaimedLabel
  <1>9. CASE SkipExpiredStep \/ DrainDone \/ CleanupDone \/ SaveRaises \/ ContinueProduce
               \/ Shutdown \/ JoinProducer \/ Terminated
    BY <1>0, <1>9 DEF SkipExpiredStep, DrainDone, CleanupDone, SaveRaises, ContinueProduce,
       Shutdown, JoinProducer, Terminated, vars, engineVars
  <1>10. CASE UpdateWeights
    <2>1. \A g \in Groups : group[g].stage \notin {"running", "aborting", "finished"}
      BY <1>10 DEF UpdateWeights, TrainerAt, QuietInv, Pending, InStage
    <2> QED
      BY <1>10, <2>1 DEF UpdateWeights, LabelInv, LabelOK
  <1>11. ASSUME NEW g \in Groups, FinishGroup(g) PROVE LabelInv'
    <2>1. PICK r \in Returned(group[g]) : group' = [group EXCEPT ![g] = r]
      BY <1>11 DEF FinishGroup
    <2>2. LabelOK(r)
      BY <1>11, ReturnedLabel DEF FinishGroup, LabelInv, TypeOK
    <2>3. weights' = weights /\ DOMAIN group = Groups
      BY <1>11 DEF FinishGroup, TypeOK, engineVars
    <2> QED BY <2>1, <2>2, <2>3, LabelReplaced, Zenon
  <1>12. ASSUME NEW g \in Groups, FailGroup(g) PROVE LabelInv'
    <2>1. PICK r \in Failed : group' = [group EXCEPT ![g] = r]
      BY <1>12 DEF FailGroup
    <2>2. LabelOK(r)
      BY FailedRecord DEF LabelOK
    <2>3. weights' = weights /\ DOMAIN group = Groups
      BY <1>12 DEF FailGroup, TypeOK, engineVars
    <2> QED BY <2>1, <2>2, <2>3, LabelReplaced, Zenon
  <1>13. CASE ProducerRaises
    <2>1. ctx.model \in Nat /\ ClaimRaises(ctx.model) /\ weights' = weights
      BY <1>13 DEF ProducerRaises, TypeOK, engineVars
    <2>2. ctx.model <= weights \/ Pending = {}
      BY DEF VersionInv, QuietInv
    <2> QED BY <2>1, <2>2, ClaimRaisesLabel
  <1>14. CASE DrainRaises
    <2>1. modelStep <= weights /\ modelStep \in Nat /\ ClaimRaises(modelStep) /\ weights' = weights
      BY <1>14 DEF DrainRaises, TrainerAt, VersionInv, TypeOK, engineVars
    <2> QED BY <2>1, ClaimRaisesLabel
  <1> QED
    BY <1>1, <1>2, <1>3, <1>4, <1>5, <1>6, <1>7, <1>8, <1>9, <1>10, <1>11, <1>12, <1>13, <1>14
    DEF Next, ProducerNext, TrainerNext, EngineNext

-----------------------------------------------------------------------------
\* The engine touches one group, and hands it back finished.
LEMMA EngineStep ==
  ASSUME TypeOK, NEW g \in Groups, FinishGroup(g) \/ FailGroup(g)
  PROVE  /\ group'[g].stage = "finished"
         /\ \A h \in Groups \ {g} : group'[h] = group[h]
         /\ UNCHANGED <<managerVars, progressVars, producerVars, trainerVars, engineVars>>
  <1>1. \E r : group' = [group EXCEPT ![g] = r] /\ r.stage = "finished"
    <2>1. CASE FinishGroup(g)
      <3>1. PICK r \in Returned(group[g]) : group' = [group EXCEPT ![g] = r]
        BY <2>1 DEF FinishGroup
      <3>2. r.stage = "finished"
        BY ReturnedType DEF TypeOK
      <3> QED BY <3>1, <3>2, Zenon
    <2>2. CASE FailGroup(g)
      <3>1. PICK r \in Failed : group' = [group EXCEPT ![g] = r]
        BY <2>2 DEF FailGroup
      <3>2. r.stage = "finished"
        BY FailedRecord
      <3> QED BY <3>1, <3>2, Zenon
    <2> QED BY <2>1, <2>2
  <1>2. PICK r : group' = [group EXCEPT ![g] = r] /\ r.stage = "finished"
    BY <1>1
  <1>3. UNCHANGED <<managerVars, progressVars, producerVars, trainerVars, engineVars>>
    BY DEF FinishGroup, FailGroup
  <1> QED BY <1>2, <1>3 DEF TypeOK

-----------------------------------------------------------------------------
(***************************************************************************)
(* Nothing stale is left in the buffer: whoever changes next_consumer_step *)
(* refreshes the buffer in the same step, and put uses its live value.     *)
(***************************************************************************)
FreshAt(r, step) ==
  r.stage = "buffer" /\ r.status \in {"COMPLETED", "ABORTED"} => ~ IsStale(r.ver, step)

\* BufferFresh, group by group.
LEMMA BufferFreshDef ==
  /\ BufferFresh <=> \A g \in Groups : FreshAt(group[g], consumerStep)
  /\ BufferFresh' <=> \A g \in Groups : FreshAt(group'[g], consumerStep')
  BY DEF BufferFresh, Buffered, InStage, FreshAt, IsStale, SeqStaleness

\* refresh_staleness leaves nothing stale for the step it is given.
LEMMA RefreshFresh ==
  ASSUME NEW r \in GroupRecord, NEW step \in Nat
  PROVE  FreshAt(RefreshGroup(r, step), step)
  <1>1. CASE RefreshGroup(r, step) = ExpiredGroup
    BY <1>1, ExpiredStage DEF FreshAt
  <1>2. CASE RefreshGroup(r, step) # ExpiredGroup
    BY <1>2 DEF RefreshGroup, FreshAt
  <1> QED BY <1>1, <1>2

\* put compares with the step the refresh uses, so it lets nothing stale in.
LEMMA PutFresh ==
  ASSUME NEW r \in GroupRecord, NEW step \in Nat, NEW at \in Nat
  PROVE  FreshAt(PutGroup(r, step, at), at)
  <1> DEFINE v == Versioned(r, step)
  <1>1. v.status = r.status
    BY DEF Versioned, GroupRecord
  <1>2. FreshAt(FromDataset, at) /\ FreshAt(ExpiredGroup, at)
    BY ExpiredStage DEF FreshAt, FromDataset
  <1>3. CASE r.status \in {"FAILED", "FILTERED"}
    <2>1. PutGroup(r, step, at) = FromDataset
      BY <1>3 DEF PutGroup
    <2> QED BY <1>2, <2>1
  <1>4. CASE r.status \in {"COMPLETED", "ABORTED"} /\ IsStale(v.ver, at)
    <2>1. PutGroup(r, step, at) = ExpiredGroup
      BY <1>4 DEF PutGroup
    <2> QED BY <1>2, <2>1
  <1>5. CASE /\ r.status \notin {"FAILED", "FILTERED"}
             /\ ~ (r.status \in {"COMPLETED", "ABORTED"} /\ IsStale(v.ver, at))
    <2>1. PutGroup(r, step, at) = v
      BY <1>5, Zenon DEF PutGroup
    <2> QED BY <1>1, <1>5, <2>1 DEF FreshAt
  <1> QED BY <1>3, <1>4, <1>5

\* Every action keeps the buffer fresh for next_consumer_step.
LEMMA FreshStep == TypeOK /\ BufferFresh /\ Next => BufferFresh'
  <1> SUFFICES ASSUME TypeOK, BufferFresh, Next
               PROVE  \A g \in Groups : FreshAt(group'[g], consumerStep')
    BY BufferFreshDef
  <1>0. \A g \in Groups : FreshAt(group[g], consumerStep)
    BY BufferFreshDef
  <1>1. CASE ExitLoop \/ BeginRound \/ AbortBatch \/ EnoughProduced \/ AdvanceFutureStep
               \/ RoundExpired \/ RoundStarts \/ SkipExpiredStep \/ DrainDone \/ CleanupDone
               \/ SaveRaises \/ UpdateWeights \/ ContinueProduce \/ Shutdown
               \/ JoinProducer \/ Terminated
    BY <1>0, <1>1 DEF ExitLoop, BeginRound, AbortBatch, EnoughProduced, AdvanceFutureStep,
       RoundExpired, RoundStarts, RoundResumes, SkipExpiredStep, DrainDone, CleanupDone,
       SaveRaises, UpdateWeights, ContinueProduce, Shutdown, JoinProducer, Terminated, vars,
       progressVars
  <1>2. CASE StartBatch \/ WakeAndPut \/ DrainPending
    <2>1. PICK step \in Nat : PutClaimed(step)
      BY <1>2 DEF StartBatch, WakeAndPut, DrainPending, TypeOK
    <2>2. consumerStep' = consumerStep
      BY <1>2 DEF StartBatch, WakeAndPut, DrainPending, progressVars
    <2>3. ASSUME NEW g \in Finished PROVE FreshAt(PutGroup(group[g], step, consumerStep), consumerStep)
      BY PutFresh DEF Finished, InStage, TypeOK
    <2> QED BY <1>0, <2>1, <2>2, <2>3 DEF PutClaimed
  <1>3. CASE ScheduleGroups
    <2>1. PICK S \in SUBSET Groups :
            group' = [g \in Groups |-> IF g \in S THEN Launched(group[g], weights, paused) ELSE group[g]]
      BY <1>3 DEF ScheduleGroups
    <2>2. \A g \in Groups : FreshAt(Launched(group[g], weights, paused), consumerStep)
      BY LaunchedRecord DEF TypeOK, FreshAt
    <2> QED BY <1>0, <1>3, <2>1, <2>2 DEF ScheduleGroups, progressVars
  <1>4. CASE BeginConsume
    <2>1. \A g \in Groups : group'[g] = RefreshGroup(group[g], trainStep + 1)
      BY <1>4 DEF BeginConsume, Refreshed
    <2>2. consumerStep' = trainStep + 1
      BY <1>4 DEF BeginConsume
    <2> QED BY <2>1, <2>2, RefreshFresh DEF TypeOK
  <1>5. CASE TakeBatch
    <2>1. PICK S \in SUBSET Buffered("COMPLETED") :
            group' = [g \in Groups |->
              IF g \in S THEN [group[g] EXCEPT !.stage = "batch"]
                         ELSE RefreshGroup(group[g], trainStep + 1)]
      BY <1>5 DEF TakeBatch
    <2>2. consumerStep' = trainStep + 1
      BY <1>5 DEF TakeBatch
    <2>3. \A g \in Groups : FreshAt([group[g] EXCEPT !.stage = "batch"], trainStep + 1)
      BY DEF FreshAt, TypeOK, GroupRecord
    <2>4. \A g \in Groups : FreshAt(RefreshGroup(group[g], trainStep + 1), trainStep + 1)
      BY RefreshFresh DEF TypeOK
    <2> QED BY <2>1, <2>2, <2>3, <2>4, Zenon
  <1>6. CASE TrainOneBatch \/ DrainTimeout
    <2>1. consumerStep' = consumerStep
      BY <1>6 DEF TrainOneBatch, DrainTimeout, progressVars
    <2>2. \A g \in Groups : group'[g] = group[g] \/ group'[g] = FromDataset
      BY <1>6 DEF TrainOneBatch, DrainTimeout
    <2>3. FreshAt(FromDataset, consumerStep)
      BY DEF FreshAt, FromDataset
    <2> QED BY <1>0, <2>1, <2>2, <2>3
  <1>7. CASE PauseProduce \/ Evaluate
    <2>1. consumerStep' = consumerStep /\ (group' = group \/ group' = Interrupted(group))
      BY <1>7 DEF PauseProduce, Evaluate, progressVars
    <2>2. \A g \in Groups : FreshAt(Interrupted(group)[g], consumerStep)
      BY <1>0 DEF Interrupted, FreshAt, TypeOK, GroupRecord
    <2> QED BY <1>0, <2>1, <2>2
  <1>8. ASSUME NEW g \in Groups, FinishGroup(g) \/ FailGroup(g)
        PROVE  \A h \in Groups : FreshAt(group'[h], consumerStep')
    <2>1. /\ consumerStep' = consumerStep
          /\ group'[g].stage = "finished"
          /\ \A h \in Groups \ {g} : group'[h] = group[h]
      BY <1>8, EngineStep DEF progressVars
    <2> QED BY <1>0, <2>1 DEF FreshAt
  <1>9. CASE ProducerRaises \/ DrainRaises
    <2>1. PICK step \in Nat : ClaimRaises(step)
      BY <1>9 DEF ProducerRaises, DrainRaises, TypeOK
    <2>2. consumerStep' = consumerStep
      BY <1>9 DEF ProducerRaises, DrainRaises, progressVars
    <2>3. ASSUME NEW g \in Finished PROVE FreshAt(PutGroup(group[g], step, consumerStep), consumerStep)
      BY PutFresh DEF Finished, InStage, TypeOK
    <2>4. FreshAt(FromDataset, consumerStep)
      BY DEF FreshAt, FromDataset
    <2> QED BY <1>0, <2>1, <2>2, <2>3, <2>4, ClaimRaisesOutcome
  <1> QED
    BY <1>1, <1>2, <1>3, <1>4, <1>5, <1>6, <1>7, <1>8, <1>9
    DEF Next, ProducerNext, TrainerNext, EngineNext

-----------------------------------------------------------------------------
(***************************************************************************)
(* The batch in training was fresh for its step when it was taken.         *)
(***************************************************************************)
\* take_batch takes only groups that are fresh for the step at hand, and that
\* step does not change while the optimizer runs.
LEMMA BatchStep == TypeOK /\ BatchInv /\ BufferFresh /\ Next => BatchInv'
  <1> SUFFICES ASSUME TypeOK, BatchInv, BufferFresh, Next PROVE BatchInv'
    OBVIOUS
  <1>0. ASSUME trainer' = trainer, trainStep' = trainStep, consumerStep' = consumerStep,
               \A g \in Groups : group'[g] = group[g] \/ group'[g].stage # "batch"
        PROVE  BatchInv'
    BY <1>0 DEF BatchInv, BatchOK, IsStale, SeqStaleness
  <1>1. CASE ExitLoop \/ BeginRound \/ AbortBatch \/ EnoughProduced \/ AdvanceFutureStep
               \/ RoundExpired \/ RoundStarts \/ Terminated
    BY <1>0, <1>1 DEF ExitLoop, BeginRound, AbortBatch, EnoughProduced, AdvanceFutureStep,
       RoundExpired, RoundStarts, RoundResumes, Terminated, vars, trainerVars, progressVars
  <1>2. CASE StartBatch \/ WakeAndPut \/ DrainPending
    <2>1. PICK step \in Nat : PutClaimed(step)
      BY <1>2 DEF StartBatch, WakeAndPut, DrainPending, TypeOK
    <2>2. \A g \in Groups : group'[g] = group[g] \/ group'[g].stage # "batch"
      BY <2>1, PutStage DEF PutClaimed, TypeOK
    <2>3. trainer' = trainer /\ trainStep' = trainStep /\ consumerStep' = consumerStep
      BY <1>2 DEF StartBatch, WakeAndPut, DrainPending, TrainerAt, trainerVars, progressVars
    <2> QED BY <1>0, <2>2, <2>3
  <1>3. CASE ScheduleGroups
    <2>1. PICK S \in SUBSET Groups :
            group' = [g \in Groups |-> IF g \in S THEN Launched(group[g], weights, paused) ELSE group[g]]
      BY <1>3 DEF ScheduleGroups
    <2>2. \A g \in Groups : group'[g] = group[g] \/ group'[g].stage # "batch"
      BY <2>1, LaunchedRecord DEF TypeOK
    <2> QED BY <1>0, <1>3, <2>2 DEF ScheduleGroups, trainerVars, progressVars
  <1>4. CASE BeginConsume
    <2>1. \A g \in Groups : group[g].stage # "batch"
      BY <1>4 DEF BeginConsume, TrainerAt, BatchInv, BatchOK
    <2>2. \A g \in Groups : group'[g].stage # "batch"
      BY <1>4, <2>1, RefreshStage, ExpiredStage DEF BeginConsume, Refreshed, TypeOK
    <2> QED
      BY <1>4, <2>2 DEF BeginConsume, TrainerAt, BatchInv, BatchOK
  <1>5. CASE TakeBatch
    <2>1. PICK S \in SUBSET Buffered("COMPLETED") :
            group' = [g \in Groups |->
              IF g \in S THEN [group[g] EXCEPT !.stage = "batch"]
                         ELSE RefreshGroup(group[g], trainStep + 1)]
      BY <1>5 DEF TakeBatch
    <2>2. trainer = "poll" /\ trainer' = "train" /\ trainStep' = trainStep
      BY <1>5 DEF TakeBatch, TrainerAt
    <2>3. \A g \in Groups : group[g].stage # "batch"
      BY <2>2 DEF BatchInv, BatchOK
    <2>4. ASSUME NEW g \in S
          PROVE  group'[g].status = "COMPLETED" /\ ~ IsStale(group'[g].ver, trainStep)
      <3>1. group'[g].status = "COMPLETED" /\ group'[g].ver = group[g].ver
        BY <2>1 DEF Buffered, InStage, TypeOK, GroupRecord
      <3>2. ~ IsStale(group[g].ver, trainStep)
        BY <2>2 DEF BufferFresh, BatchInv
      <3> QED BY <3>1, <3>2
    <2>5. \A g \in Groups \ S : group'[g].stage # "batch"
      BY <2>1, <2>3, RefreshStage, ExpiredStage DEF TypeOK
    <2> QED
      BY <2>2, <2>4, <2>5 DEF BatchInv, BatchOK, IsStale, SeqStaleness
  <1>6. CASE TrainOneBatch
    <2>1. \A g \in Groups : group'[g].stage # "batch"
      BY <1>6 DEF TrainOneBatch, FromDataset
    <2> QED BY <1>6, <2>1 DEF TrainOneBatch, TrainerAt, BatchInv, BatchOK
  <1>9. CASE ProducerRaises
    <2>1. PICK step \in Nat : ClaimRaises(step)
      BY <1>9 DEF ProducerRaises, TypeOK
    <2>2. \A g \in Groups : group'[g] = group[g] \/ group'[g].stage # "batch"
      <3> SUFFICES ASSUME NEW g \in Groups
                   PROVE  group'[g] = group[g] \/ group'[g].stage # "batch"
        OBVIOUS
      <3>1. group[g] \in GroupRecord /\ consumerStep \in Nat
        BY DEF TypeOK
      <3>2. PutGroup(group[g], step, consumerStep).stage # "batch"
        BY <3>1, PutStage
      <3> QED
        BY <2>1, <3>2, ClaimRaisesOutcome DEF FromDataset
    <2> QED BY <1>0, <1>9, <2>2 DEF ProducerRaises, trainerVars, progressVars
  <1>10. CASE DrainRaises
    <2>1. trainer = "drain" /\ trainer' = "raised"
      BY <1>10 DEF DrainRaises, TrainerAt
    <2>2. \A g \in Groups : group[g].stage # "batch"
      BY <2>1 DEF BatchInv, BatchOK
    <2>3. \A g \in Groups : group'[g].stage # "batch"
      BY <1>10, <2>2, ClaimRaisesOutcome, PutStage DEF DrainRaises, TypeOK, FromDataset
    <2> QED BY <2>1, <2>3 DEF BatchInv, BatchOK
  <1>7. CASE \/ SkipExpiredStep \/ PauseProduce \/ DrainDone \/ DrainTimeout \/ CleanupDone
             \/ SaveRaises \/ UpdateWeights \/ Evaluate \/ ContinueProduce \/ Shutdown
             \/ JoinProducer
    <2>1. trainer # "train" /\ trainer' \notin {"train", "poll"}
      BY <1>7 DEF SkipExpiredStep, PauseProduce, DrainDone, DrainTimeout, CleanupDone,
         SaveRaises, UpdateWeights, Evaluate, ContinueProduce, Shutdown, JoinProducer,
         TrainerAt
    <2>2. \A g \in Groups : group[g].stage # "batch"
      BY <2>1 DEF BatchInv, BatchOK
    <2>3. \/ group' = group
          \/ group' = Interrupted(group)
          \/ \A g \in Groups : group'[g] = group[g] \/ group'[g] = FromDataset
      BY <1>7 DEF SkipExpiredStep, PauseProduce, DrainDone, DrainTimeout, CleanupDone,
         SaveRaises, UpdateWeights, Evaluate, ContinueProduce, Shutdown, JoinProducer
    <2>4. \A g \in Groups : group'[g].stage # "batch"
      BY <2>2, <2>3 DEF Interrupted, FromDataset, TypeOK, GroupRecord
    <2> QED BY <2>1, <2>4 DEF BatchInv, BatchOK
  <1>8. ASSUME NEW g \in Groups, FinishGroup(g) \/ FailGroup(g) PROVE BatchInv'
    <2>1. /\ trainer' = trainer /\ trainStep' = trainStep /\ consumerStep' = consumerStep
          /\ group'[g].stage = "finished"
          /\ \A h \in Groups \ {g} : group'[h] = group[h]
      BY <1>8, EngineStep DEF progressVars, trainerVars
    <2> QED BY <1>0, <2>1
  <1> QED
    BY <1>1, <1>2, <1>3, <1>4, <1>5, <1>6, <1>7, <1>8, <1>9, <1>10
    DEF Next, ProducerNext, TrainerNext, EngineNext

-----------------------------------------------------------------------------
(***************************************************************************)
(* EXPIRED_BATCH is true while it is said, and the producer never runs     *)
(* ahead of the weights by more than the threshold allows.                 *)
(***************************************************************************)
\* Every action keeps EXPIRED_BATCH true of the step being prepared.
LEMMA ExpiredStep ==
  TypeOK /\ ExpiredStatusIsTrue /\ Next => ExpiredStatusIsTrue'
  <1> SUFFICES ASSUME TypeOK, ExpiredStatusIsTrue, Next PROVE ExpiredStatusIsTrue'
    OBVIOUS
  <1> USE DEF ExpiredStatusIsTrue
  <1>1. CASE ExitLoop \/ BeginRound \/ StartBatch \/ AbortBatch \/ EnoughProduced
               \/ ScheduleGroups \/ WakeAndPut \/ ProducerRaises
    BY <1>1 DEF ExitLoop, BeginRound, StartBatch, AbortBatch, EnoughProduced, ScheduleGroups,
       WakeAndPut, ProducerRaises, managerVars, progressVars, IsModelExpired
  <1>2. CASE RoundExpired \/ RoundStarts
    BY <1>2 DEF RoundExpired, RoundStarts, RoundResumes, IsModelExpired
  <1>3. CASE AdvanceFutureStep
    BY <1>3, ThresholdType DEF AdvanceFutureStep, managerVars, IsModelExpired,
       CalculateSeqStaleness, TypeOK
  <1>4. CASE BeginConsume \/ SkipExpiredStep \/ TakeBatch \/ TrainOneBatch \/ DrainPending
               \/ DrainDone \/ DrainTimeout \/ CleanupDone \/ UpdateWeights \/ Evaluate
               \/ JoinProducer
    BY <1>4 DEF BeginConsume, SkipExpiredStep, TakeBatch, TrainOneBatch, DrainPending,
       DrainDone, DrainTimeout, CleanupDone, UpdateWeights, Evaluate, JoinProducer,
       managerVars, progressVars, IsModelExpired
  <1>5. CASE PauseProduce \/ SaveRaises \/ ContinueProduce \/ Shutdown \/ DrainRaises
    BY <1>5 DEF PauseProduce, SaveRaises, ContinueProduce, Shutdown, DrainRaises
  <1>6. CASE \E g \in Groups : FinishGroup(g) \/ FailGroup(g)
    BY <1>6, EngineStep DEF managerVars, progressVars, IsModelExpired
  <1>7. CASE Terminated
    BY <1>7 DEF Terminated, vars, managerVars, progressVars, IsModelExpired
  <1> QED
    BY <1>1, <1>2, <1>3, <1>4, <1>5, <1>6, <1>7
    DEF Next, ProducerNext, TrainerNext, EngineNext

\* Every action keeps the producer within the threshold of its weights.
LEMMA LookaheadStep ==
  TypeOK /\ VersionInv /\ LookaheadInv /\ BoundedLookahead /\ Next
    => LookaheadInv' /\ BoundedLookahead'
  <1> SUFFICES ASSUME TypeOK, VersionInv, LookaheadInv, BoundedLookahead, Next
               PROVE  LookaheadInv' /\ BoundedLookahead'
    OBVIOUS
  <1> USE ThresholdType DEF LookaheadInv, BoundedLookahead, TypeOK
  <1>0. StaleThreshold' = StaleThreshold
    BY DEF StaleThreshold
  <1>1. CASE ExitLoop \/ BeginRound \/ StartBatch \/ AbortBatch \/ EnoughProduced
               \/ ScheduleGroups \/ WakeAndPut \/ ProducerRaises
    BY <1>0, <1>1 DEF ExitLoop, BeginRound, StartBatch, AbortBatch, EnoughProduced,
       ScheduleGroups, WakeAndPut, ProducerRaises, ProducerAt, managerVars, progressVars
  <1>2. CASE RoundExpired
    BY <1>0, <1>2 DEF RoundExpired, RoundResumes, ProducerAt
  <1>3. CASE RoundStarts
    BY <1>0, <1>3 DEF RoundStarts, RoundResumes, ProducerAt, IsModelExpired,
       CalculateSeqStaleness
  <1>4. CASE AdvanceFutureStep
    BY <1>0, <1>4 DEF AdvanceFutureStep, ProducerAt, managerVars
  <1>5. CASE BeginConsume \/ SkipExpiredStep \/ TakeBatch \/ TrainOneBatch \/ DrainPending
               \/ DrainDone \/ DrainTimeout \/ CleanupDone \/ UpdateWeights \/ Evaluate
               \/ JoinProducer \/ PauseProduce \/ Shutdown \/ DrainRaises
    BY <1>0, <1>5 DEF BeginConsume, SkipExpiredStep, TakeBatch, TrainOneBatch, DrainPending,
       DrainDone, DrainTimeout, CleanupDone, UpdateWeights, Evaluate, JoinProducer,
       PauseProduce, Shutdown, DrainRaises, managerVars, progressVars, producerVars
  <1>6. CASE SaveRaises \/ ContinueProduce
    BY <1>0, <1>6 DEF SaveRaises, ContinueProduce, VersionInv, progressVars, producerVars
  <1>7. CASE \E g \in Groups : FinishGroup(g) \/ FailGroup(g)
    BY <1>0, <1>7, EngineStep DEF managerVars, progressVars, producerVars
  <1>8. CASE Terminated
    BY <1>0, <1>8 DEF Terminated, vars, managerVars, progressVars, producerVars
  <1> QED
    BY <1>1, <1>2, <1>3, <1>4, <1>5, <1>6, <1>7, <1>8
    DEF Next, ProducerNext, TrainerNext, EngineNext

-----------------------------------------------------------------------------
(***************************************************************************)
(* The steps of the trainer, of the buffer and of the engine's weights.    *)
(***************************************************************************)
\* Only get_batch and update_weights move them, each by at most one step, and
\* take_batch takes at least one group.
LEMMA StepStep == TypeOK /\ VersionInv /\ BatchInv /\ StepInv /\ Next => StepInv'
  <1> SUFFICES ASSUME TypeOK, VersionInv, BatchInv, StepInv, Next PROVE StepInv'
    OBVIOUS
  <1>0. ASSUME trainStep' = trainStep, consumerStep' = consumerStep, weights' = weights,
               trainer' \in {"poll", "train", "pause", "drain", "cleanup", "sync"}
                 => trainer \in {"poll", "train", "pause", "drain", "cleanup", "sync"},
               trainer' = "train" =>
                 /\ trainer = "train"
                 /\ \A g \in Groups : group[g].stage = "batch" => group'[g] = group[g]
        PROVE  StepInv'
    BY <1>0 DEF StepInv
  <1>1. CASE ExitLoop \/ BeginRound \/ AbortBatch \/ EnoughProduced \/ AdvanceFutureStep
               \/ RoundExpired \/ RoundStarts \/ Terminated
    BY <1>0, <1>1 DEF ExitLoop, BeginRound, AbortBatch, EnoughProduced, AdvanceFutureStep,
       RoundExpired, RoundStarts, RoundResumes, Terminated, vars, trainerVars, progressVars,
       engineVars
  <1>2. CASE StartBatch \/ WakeAndPut \/ DrainPending
    <2>1. PICK step \in Nat : PutClaimed(step)
      BY <1>2 DEF StartBatch, WakeAndPut, DrainPending, TypeOK
    <2>2. \A g \in Groups : group[g].stage = "batch" => group'[g] = group[g]
      BY <2>1 DEF PutClaimed, Finished, InStage
    <2> QED
      BY <1>0, <1>2, <2>2 DEF StartBatch, WakeAndPut, DrainPending, TrainerAt, trainerVars,
         progressVars, engineVars
  <1>3. CASE ScheduleGroups
    <2>1. PICK S \in SUBSET Groups :
            /\ SampledInOrder(S, ctx.tail)
            /\ group' = [g \in Groups |-> IF g \in S THEN Launched(group[g], weights, paused) ELSE group[g]]
      BY <1>3 DEF ScheduleGroups
    <2>2. \A g \in S : group[g].stage # "batch"
      BY <2>1, SampledStage
    <2>3. \A g \in Groups : group[g].stage = "batch" => group'[g] = group[g]
      BY <2>1, <2>2
    <2> QED BY <1>0, <1>3, <2>3 DEF ScheduleGroups, trainerVars, progressVars, engineVars
  <1>4. CASE BeginConsume
    BY <1>4 DEF BeginConsume, TrainerAt, StepInv, VersionInv, TypeOK, engineVars
  <1>5. CASE TakeBatch
    <2>1. PICK S \in SUBSET Buffered("COMPLETED") :
            /\ Cardinality(S) = BatchSize
            /\ group' = [g \in Groups |->
                 IF g \in S THEN [group[g] EXCEPT !.stage = "batch"]
                            ELSE RefreshGroup(group[g], trainStep + 1)]
      BY <1>5 DEF TakeBatch
    <2>2. PICK g \in S : TRUE
      <3>1. S # {}
        BY <2>1, FS_EmptySet
      <3> QED BY <3>1
    <2>3. g \in Groups /\ group'[g].stage = "batch"
      BY <2>1, <2>2 DEF Buffered, InStage, TypeOK, GroupRecord
    <2> QED
      BY <1>5, <2>3 DEF TakeBatch, TrainerAt, StepInv, TypeOK, engineVars
  <1>6. CASE \/ SkipExpiredStep \/ PauseProduce \/ DrainDone \/ DrainTimeout \/ CleanupDone
             \/ SaveRaises \/ Evaluate \/ ContinueProduce \/ Shutdown \/ JoinProducer
             \/ TrainOneBatch \/ DrainRaises
    BY <1>0, <1>6 DEF SkipExpiredStep, PauseProduce, DrainDone, DrainTimeout, CleanupDone,
       SaveRaises, Evaluate, ContinueProduce, Shutdown, JoinProducer, TrainOneBatch,
       DrainRaises, TrainerAt, progressVars, engineVars
  <1>7. CASE UpdateWeights
    BY <1>7 DEF UpdateWeights, TrainerAt, StepInv, progressVars
  <1>8. ASSUME NEW g \in Groups, FinishGroup(g) \/ FailGroup(g) PROVE StepInv'
    <2>1. /\ UNCHANGED <<trainerVars, progressVars, engineVars>>
          /\ group[g].stage # "batch"
          /\ \A h \in Groups \ {g} : group'[h] = group[h]
      BY <1>8, EngineStep DEF FinishGroup, FailGroup
    <2> QED BY <1>0, <2>1 DEF trainerVars, progressVars, engineVars
  <1>9. CASE ProducerRaises
    <2>1. PICK step \in Nat : ClaimRaises(step)
      BY <1>9 DEF ProducerRaises, TypeOK
    <2>2. \A g \in Groups : group[g].stage = "batch" => group'[g] = group[g]
      BY <2>1 DEF ClaimRaises, Finished, InStage
    <2> QED BY <1>0, <1>9, <2>2 DEF ProducerRaises, trainerVars, progressVars, engineVars
  <1> QED
    BY <1>1, <1>2, <1>3, <1>4, <1>5, <1>6, <1>7, <1>8, <1>9
    DEF Next, ProducerNext, TrainerNext, EngineNext

\* A larger step has a larger target.
LEMMA TargetMonotone ==
  ASSUME NEW a \in Nat, NEW b \in Nat, a <= b
  PROVE  /\ BatchSize * a <= BatchSize * b
         /\ BatchSize * a \in Nat /\ BatchSize * b \in Nat
  <1>1. PICK d \in Nat : b = a + d
    <2>1. b - a \in Nat /\ b = a + (b - a)
      OBVIOUS
    <2> QED BY <2>1
  <1>2. BatchSize * b = BatchSize * a + BatchSize * d
    BY <1>1
  <1>3. \A m, n \in Nat : m * n \in Nat
    OBVIOUS
  <1>4. BatchSize * a \in Nat /\ BatchSize * d \in Nat
    BY <1>1, <1>3
  <1> QED BY <1>2, <1>4

\* The frozen target of a round never exceeds the cumulative one, which only grows.
LEMMA TargetStep == TypeOK /\ TargetInv /\ Next => TargetInv'
  <1> SUFFICES ASSUME TypeOK, TargetInv, Next PROVE TargetInv'
    OBVIOUS
  <1>0. targetUpto \in Nat /\ TargetSamples = BatchSize * targetUpto
    BY DEF TypeOK, TargetSamples
  <1>1. CASE ctx'.target = ctx.target /\ targetUpto' = targetUpto
    BY <1>1 DEF TargetInv, TargetSamples
  <1>2. CASE RoundExpired \/ RoundStarts
    <2>1. targetUpto' \in Nat /\ targetUpto <= targetUpto'
      BY <1>2 DEF RoundExpired, RoundStarts, RoundResumes, TypeOK
    <2>2. ctx'.target \in {0, ctx.target}
      BY <1>2 DEF RoundExpired, RoundStarts
    <2>3. /\ TargetSamples <= BatchSize * targetUpto'
          /\ TargetSamples \in Nat /\ BatchSize * targetUpto' \in Nat
      BY <1>0, <2>1, TargetMonotone
    <2>4. TargetSamples' = BatchSize * targetUpto'
      BY DEF TargetSamples
    <2> QED BY <2>2, <2>3, <2>4 DEF TargetInv, TypeOK
  <1>3. CASE StartBatch
    <2>1. ctx'.target = TargetSamples /\ targetUpto' = targetUpto
      BY <1>3 DEF StartBatch, progressVars, TypeOK
    <2> QED BY <1>0, <2>1, TargetMonotone DEF TargetInv, TargetSamples
  <1>4. CASE \/ ExitLoop \/ BeginRound \/ AbortBatch \/ EnoughProduced \/ ScheduleGroups
             \/ WakeAndPut \/ AdvanceFutureStep \/ ProducerRaises \/ Terminated
    BY <1>1, <1>4 DEF ExitLoop, BeginRound, AbortBatch, EnoughProduced, ScheduleGroups,
       WakeAndPut, AdvanceFutureStep, ProducerRaises, Terminated, vars, progressVars,
       producerVars
  <1>5. CASE TrainerNext
    BY <1>1, <1>5 DEF TrainerNext, BeginConsume, SkipExpiredStep, TakeBatch, TrainOneBatch,
       PauseProduce, DrainPending, DrainDone, DrainTimeout, CleanupDone, DrainRaises,
       SaveRaises, UpdateWeights, Evaluate, ContinueProduce, Shutdown, JoinProducer,
       progressVars, producerVars
  <1>6. CASE EngineNext
    BY <1>1, <1>6 DEF EngineNext, FinishGroup, FailGroup, progressVars, producerVars
  <1> QED
    BY <1>2, <1>3, <1>4, <1>5, <1>6 DEF Next, ProducerNext

-----------------------------------------------------------------------------
(***************************************************************************)
(* The invariant is inductive.                                             *)
(***************************************************************************)
\* The invariant holds before the first step.
LEMMA InitInvariant == Init => IInv
  <1> SUFFICES ASSUME Init PROVE IInv
    OBVIOUS
  <1>1. \A g \in Groups : group[g] = FromDataset
    BY DEF Init
  <1>2. QuietInv /\ VersionInv
    BY DEF Init, QuietInv, VersionInv
  <1>3. LabelInv
    BY <1>1, FreshRecords DEF LabelInv
  <1>5. BatchInv
    BY <1>1 DEF Init, BatchInv, BatchOK, FromDataset
  <1>6. BufferFresh
    BY <1>1 DEF BufferFresh, Buffered, InStage, FromDataset
  <1>7. ExpiredStatusIsTrue
    BY DEF Init, ExpiredStatusIsTrue
  <1>8. LookaheadInv /\ BoundedLookahead
    BY ThresholdType DEF Init, LookaheadInv, BoundedLookahead
  <1>9. StepInv
    BY DEF Init, StepInv
  <1>10. TargetInv
    BY DEF Init, TargetInv, TargetSamples
  <1> QED
    BY <1>2, <1>3, <1>5, <1>6, <1>7, <1>8, <1>9, <1>10, InitType DEF IInv

\* A stuttering step keeps the invariant.
LEMMA StutterInvariant == IInv /\ UNCHANGED vars => IInv'
  BY DEF IInv, TypeOK, QuietInv, VersionInv, LabelInv, LabelOK,
     BatchInv, BatchOK, BufferFresh, Buffered, Pending, InStage, IsStale, SeqStaleness,
     ExpiredStatusIsTrue, IsModelExpired, LookaheadInv, BoundedLookahead, StepInv, TargetInv,
     TargetSamples, vars,
     managerVars, progressVars, producerVars, trainerVars, engineVars

\* Every step of the system keeps the invariant.
LEMMA NextInvariant == IInv /\ [Next]_vars => IInv'
  BY NextType, QuietStep, VersionStep, LabelStep, FreshStep, BatchStep,
     ExpiredStep, LookaheadStep, StepStep, TargetStep, StutterInvariant DEF IInv

\* Every reachable state satisfies the inductive invariant.
THEOREM Invariance == Spec => []IInv
  <1> QED BY InitInvariant, NextInvariant, PTL DEF Spec

-----------------------------------------------------------------------------
(***************************************************************************)
(* What the invariant says of the system.                                  *)
(***************************************************************************)
\* update_weights, save and the evaluation never meet a pending rollout.
THEOREM QuietEngine == Spec => []QuietEngineAtSync
  <1>1. IInv => QuietEngineAtSync
    BY DEF IInv, QuietInv, QuietEngineAtSync
  <1> QED BY <1>1, Invariance, PTL

\* No recorded model_step claims newer weights than those that were used.
THEOREM LabelsTruthful == Spec => []LabelsNeverOverstate
  <1>1. IInv => LabelsNeverOverstate
    <2> SUFFICES ASSUME IInv, NEW g \in InStage({"buffer", "batch"})
                 PROVE  group[g].ver <= group[g].act
      BY DEF LabelsNeverOverstate
    <2>1. g \in Groups /\ group[g].stage # "finished"
      BY DEF InStage
    <2> QED BY <2>1 DEF IInv, LabelInv, LabelOK
  <1> QED BY <1>1, Invariance, PTL

\* The buffer offers no stale group, at any moment between any two steps.
THEOREM BufferStaysFresh == Spec => []BufferFresh
  <1>1. IInv => BufferFresh
    BY DEF IInv
  <1> QED BY <1>1, Invariance, PTL

\* No optimizer step sees a token older than max_staleness + 1 sync periods.
THEOREM BoundedStaleness == Spec => []TrainedBatchIsFresh
  <1>1. IInv => TrainedBatchIsFresh
    <2> SUFFICES ASSUME IInv, trainer = "train", NEW g \in InStage({"batch"})
                 PROVE  /\ group[g].status = "COMPLETED"
                        /\ SeqStaleness(group[g].act, trainStep) < StaleThreshold
      BY DEF TrainedBatchIsFresh
    <2>1. g \in Groups /\ group[g].stage = "batch" /\ group[g] \in GroupRecord
      BY DEF InStage, IInv, TypeOK
    <2>2. group[g].status = "COMPLETED" /\ ~ IsStale(group[g].ver, trainStep)
      BY <2>1 DEF IInv, BatchInv, BatchOK
    <2>3. ~ group[g].gained
      BY <2>1 DEF IInv, LabelInv, LabelOK
    <2>4. /\ group[g].ver <= group[g].act
          /\ group[g].ver = NoTokens <=> group[g].act = NoTokens
      BY <2>1, <2>3 DEF IInv, LabelInv, LabelOK
    <2>5. /\ group[g].ver \in Nat \union {NoTokens}
          /\ group[g].act \in Nat \union {NoTokens}
          /\ trainStep \in Nat
      BY <2>1 DEF GroupRecord, IInv, TypeOK
    <2> QED
      BY <2>2, <2>4, <2>5, StalerWhenOlder
  <1> QED BY <1>1, Invariance, PTL

\* The manager reports an expired model only when it is expired.
THEOREM ExpiredIsTrue == Spec => []ExpiredStatusIsTrue
  <1>1. IInv => ExpiredStatusIsTrue
    BY DEF IInv
  <1> QED BY <1>1, Invariance, PTL

\* The producer's target is bounded by the weights it generates with.
THEOREM LookaheadIsBounded == Spec => []BoundedLookahead
  <1>1. IInv => BoundedLookahead
    BY DEF IInv
  <1> QED BY <1>1, Invariance, PTL

-----------------------------------------------------------------------------
(***************************************************************************)
(* The window of the producer is never overfilled, with any finite number  *)
(* of groups: completed and pending groups are exchanged one for one with  *)
(* consumed_samples, and only ScheduleGroups adds to them, what is missing.*)
(***************************************************************************)
Window == Buffered("COMPLETED") \union Pending

\* Two sets without common groups are counted separately.
LEMMA DisjointSize ==
  ASSUME IsFiniteSet(Groups), NEW A \in SUBSET Groups, NEW B \in SUBSET Groups, A \cap B = {}
  PROVE  /\ IsFiniteSet(A) /\ Cardinality(A) \in Nat
         /\ IsFiniteSet(B) /\ Cardinality(B) \in Nat
         /\ IsFiniteSet(A \union B) /\ Cardinality(A \union B) \in Nat
         /\ Cardinality(A \union B) = Cardinality(A) + Cardinality(B)
  <1>1. IsFiniteSet(A) /\ IsFiniteSet(B)
    BY FS_Subset
  <1>2. IsFiniteSet(A \union B)
    BY <1>1, FS_Union
  <1>3. /\ Cardinality(A) \in Nat /\ Cardinality(B) \in Nat
        /\ Cardinality(A \union B) \in Nat
    BY <1>1, <1>2, FS_CardinalityType
  <1>4. Cardinality(A \union B) = Cardinality(A) + Cardinality(B) - Cardinality(A \cap B)
    BY <1>1, FS_Union
  <1>5. Cardinality(A \cap B) = 0
    BY FS_EmptySet
  <1> QED BY <1>1, <1>2, <1>3, <1>4, <1>5

\* Completed and pending groups are counted once each.
LEMMA WindowSize ==
  ASSUME IsFiniteSet(Groups), TypeOK
  PROVE  /\ IsFiniteSet(Window) /\ Cardinality(Window) \in Nat
         /\ Cardinality(Pending) \in Nat /\ Available \in Nat
         /\ Available + Cardinality(Pending) = consumed + Cardinality(Window)
  <1>1. /\ Buffered("COMPLETED") \in SUBSET Groups /\ Pending \in SUBSET Groups
        /\ Buffered("COMPLETED") \cap Pending = {}
    BY DEF Buffered, Pending, InStage
  <1>2. /\ Cardinality(Buffered("COMPLETED")) \in Nat /\ Cardinality(Pending) \in Nat
        /\ IsFiniteSet(Window) /\ Cardinality(Window) \in Nat
        /\ Cardinality(Window) = Cardinality(Buffered("COMPLETED")) + Cardinality(Pending)
    BY <1>1, DisjointSize, Zenon DEF Window
  <1> QED BY <1>2 DEF Available, TypeOK

\* And so they are after a step.
LEMMA NextWindowSize ==
  ASSUME IsFiniteSet(Groups), TypeOK'
  PROVE  /\ IsFiniteSet(Window') /\ Cardinality(Window') \in Nat
         /\ Available' + Cardinality(Pending') = consumed' + Cardinality(Window')
  <1>1. /\ Buffered("COMPLETED")' \in SUBSET Groups /\ Pending' \in SUBSET Groups
        /\ Buffered("COMPLETED")' \cap Pending' = {}
    BY DEF Buffered, Pending, InStage
  <1>2. /\ Cardinality(Buffered("COMPLETED")') \in Nat /\ Cardinality(Pending') \in Nat
        /\ IsFiniteSet(Window') /\ Cardinality(Window') \in Nat
        /\ Cardinality(Window') = Cardinality(Buffered("COMPLETED")') + Cardinality(Pending')
    BY <1>1, DisjointSize, Zenon DEF Window
  <1> QED BY <1>2 DEF Available, TypeOK

\* The members of the window before and after a step.
LEMMA WindowMembers ==
  /\ Window = {g \in Groups : \/ group[g].stage = "buffer" /\ group[g].status = "COMPLETED"
                              \/ group[g].stage \in {"running", "aborting", "finished"}}
  /\ Window' = {g \in Groups : \/ group'[g].stage = "buffer" /\ group'[g].status = "COMPLETED"
                               \/ group'[g].stage \in {"running", "aborting", "finished"}}
  BY DEF Window, Buffered, Pending, InStage

\* A group outside the window enters it only when it is launched.
Enters(g) ==
  /\ g \notin Window
  /\ g \in Window'

\* put and refresh_staleness bring no group into the window.
LEMMA PutEnters ==
  ASSUME TypeOK, NEW g \in Groups, NEW step \in Nat,
         \/ g \in Finished /\ group'[g] \in {PutGroup(group[g], step, consumerStep), FromDataset}
         \/ group'[g] \in {group[g], FromDataset, RefreshGroup(group[g], step)}
  PROVE  ~ Enters(g)
  <1>1. CASE g \in Finished
    BY <1>1, WindowMembers DEF Enters, Finished, InStage
  <1>2. CASE group'[g] \in {group[g], FromDataset, RefreshGroup(group[g], step)}
    BY <1>2, WindowMembers, RefreshStage, ExpiredStage DEF Enters, FromDataset, TypeOK
  <1> QED BY <1>1, <1>2

\* Every action but the two that schedule and take.
LEMMA EntersNot ==
  ASSUME TypeOK, Next, ~ ScheduleGroups, ~ TakeBatch
  PROVE  \A g \in Groups : ~ Enters(g)
  <1> SUFFICES ASSUME NEW g \in Groups PROVE ~ Enters(g)
    OBVIOUS
  <1>1. CASE group'[g] = group[g]
    BY <1>1, PutEnters
  <1>2. CASE \E step \in Nat : PutClaimed(step) \/ ClaimRaises(step)
    BY <1>1, <1>2, PutEnters, ClaimRaisesOutcome DEF PutClaimed
  <1>3. CASE \/ ExitLoop \/ BeginRound \/ RoundExpired \/ RoundStarts \/ AbortBatch
             \/ EnoughProduced \/ AdvanceFutureStep \/ Terminated
    BY <1>1, <1>3 DEF ExitLoop, BeginRound, RoundExpired, RoundStarts, RoundResumes,
       AbortBatch, EnoughProduced, AdvanceFutureStep, Terminated, vars
  <1>4. CASE StartBatch \/ WakeAndPut \/ ProducerRaises \/ DrainPending \/ DrainRaises
    BY <1>2, <1>4 DEF StartBatch, WakeAndPut, ProducerRaises, DrainPending, DrainRaises, TypeOK
  <1>5. CASE \/ SkipExpiredStep \/ DrainDone \/ CleanupDone \/ SaveRaises \/ UpdateWeights
             \/ ContinueProduce \/ Shutdown \/ JoinProducer
    BY <1>1, <1>5 DEF SkipExpiredStep, DrainDone, CleanupDone, SaveRaises, UpdateWeights,
       ContinueProduce, Shutdown, JoinProducer
  <1>6. CASE BeginConsume
    BY <1>6, PutEnters DEF BeginConsume, Refreshed, TypeOK
  <1>7. CASE TrainOneBatch \/ DrainTimeout
    <2>1. group'[g] \in {group[g], FromDataset}
      BY <1>7 DEF TrainOneBatch, DrainTimeout
    <2> QED BY <2>1, PutEnters
  <1>8. CASE PauseProduce \/ Evaluate
    <2>1. group' = group \/ group' = Interrupted(group)
      BY <1>8 DEF PauseProduce, Evaluate
    <2>2. group'[g] = group[g] \/ group[g].stage = "running"
      BY <2>1 DEF Interrupted
    <2> QED BY <1>1, <2>2, WindowMembers DEF Enters
  <1>9. ASSUME NEW h \in Groups, FinishGroup(h) \/ FailGroup(h) PROVE ~ Enters(g)
    <2>1. group'[g] = group[g] \/ group[g].stage \in {"running", "aborting"}
      BY <1>9 DEF FinishGroup, FailGroup, TypeOK
    <2> QED BY <1>1, <2>1, WindowMembers DEF Enters
  <1> QED
    BY <1>3, <1>4, <1>5, <1>6, <1>7, <1>8, <1>9 DEF Next, ProducerNext, TrainerNext, EngineNext

\* Every step keeps completed and pending groups, with those already consumed,
\* within the target and the oversampling.
LEMMA WindowStep ==
  ASSUME IsFiniteSet(Groups), TypeOK, TypeOK', TargetInv, NoOverproduction, Next
  PROVE  NoOverproduction'
  <1> DEFINE Bound == TargetSamples + OversampleBudget
  <1>1. /\ consumed + Cardinality(Window) <= Bound
        /\ NoOverproduction' <=> consumed' + Cardinality(Window') <= Bound'
    BY WindowSize, NextWindowSize DEF NoOverproduction
  <1>2. /\ consumed \in Nat /\ consumed' \in Nat /\ targetUpto \in Nat /\ targetUpto' \in Nat
        /\ ctx.target \in Nat
    BY DEF TypeOK
  <1>3. IsFiniteSet(Window) /\ Cardinality(Window) \in Nat /\ Cardinality(Window') \in Nat
    BY WindowSize, NextWindowSize
  <1>4. Bound \in Nat /\ Bound' \in Nat /\ (targetUpto <= targetUpto' => Bound <= Bound')
    <2>1. BatchSize * targetUpto \in Nat /\ BatchSize * targetUpto' \in Nat
      <3>1. \A m, n \in Nat : m * n \in Nat
        OBVIOUS
      <3> QED BY <1>2, <3>1
    <2>2. targetUpto <= targetUpto' => BatchSize * targetUpto <= BatchSize * targetUpto'
      BY <1>2, TargetMonotone
    <2>3. /\ TargetSamples = BatchSize * targetUpto
          /\ TargetSamples' = BatchSize * targetUpto'
      BY DEF TargetSamples
    <2> QED BY <2>1, <2>2, <2>3
  <1>5. CASE ScheduleGroups
    <2>1. PICK S \in SUBSET Groups :
            /\ Cardinality(S) = ToSchedule
            /\ group' = [g \in Groups |->
                 IF g \in S THEN Launched(group[g], weights, paused) ELSE group[g]]
      BY <1>5 DEF ScheduleGroups
    <2>2. Window' \in SUBSET (Window \union S)
      BY <2>1, WindowMembers
    <2>3. Cardinality(S) \in Nat /\ IsFiniteSet(S)
      BY FS_Subset, FS_CardinalityType
    <2>4. /\ IsFiniteSet(Window \union S)
          /\ Cardinality(Window \union S)
               = Cardinality(Window) + Cardinality(S) - Cardinality(Window \cap S)
      BY <1>3, <2>3, FS_Union
    <2>5. Cardinality(Window \cap S) \in Nat
      BY <1>3, FS_Subset, FS_CardinalityType
    <2>6. Cardinality(Window') <= Cardinality(Window \union S)
      BY <2>2, <2>4, FS_Subset
    <2>7. Cardinality(Window \union S) \in Nat
      BY <2>4, FS_CardinalityType
    <2>8. Cardinality(Window') <= Cardinality(Window) + ToSchedule
      BY <1>3, <2>1, <2>3, <2>4, <2>5, <2>6, <2>7
    <2>9. consumed' = consumed /\ targetUpto' = targetUpto
      BY <1>5 DEF ScheduleGroups, progressVars
    <2>10. ScheduledTarget \in Nat /\ ScheduledTarget <= Bound
      BY <1>2, <1>4, TargetMonotone DEF ScheduledTarget, TargetInv, TargetSamples
    <2>11. consumed + Cardinality(Window) + ToSchedule <= Bound
      BY <1>1, <1>2, <1>3, <1>4, <2>10, WindowSize DEF ToSchedule
    <2>12. Bound' = Bound
      BY <2>9 DEF TargetSamples
    <2>13. ToSchedule \in Nat
      BY <2>1, <2>3
    <2> HIDE DEF Bound
    <2> QED BY <1>1, <1>2, <1>3, <1>4, <2>8, <2>9, <2>11, <2>12, <2>13
  <1>6. CASE TakeBatch
    <2>1. PICK S \in SUBSET Buffered("COMPLETED") :
            /\ Cardinality(S) = BatchSize
            /\ group' = [g \in Groups |->
                 IF g \in S THEN [group[g] EXCEPT !.stage = "batch"]
                            ELSE RefreshGroup(group[g], trainStep + 1)]
      BY <1>6 DEF TakeBatch
    <2>2. S \in SUBSET Window
      BY DEF Window
    <2>3. Window' \in SUBSET (Window \ S)
      <3> SUFFICES ASSUME NEW g \in Window' PROVE g \in Window \ S
        OBVIOUS
      <3>1. g \in Groups
        BY WindowMembers
      <3>2. g \notin S
        BY <2>1, <3>1, WindowMembers DEF TypeOK, GroupRecord
      <3>3. ~ Enters(g)
        BY <2>1, <3>1, <3>2, PutEnters DEF TypeOK
      <3> QED BY <3>2, <3>3 DEF Enters
    <2>4. IsFiniteSet(Window \ S) /\ Cardinality(Window \ S) = Cardinality(Window) - BatchSize
      <3>1. Window \cap S = S
        BY <2>2
      <3> QED BY <1>3, <2>1, <3>1, FS_Difference
    <2>5. Cardinality(Window') <= Cardinality(Window \ S)
      BY <2>3, <2>4, FS_Subset
    <2>6. consumed' = consumed + BatchSize /\ targetUpto' = targetUpto
      BY <1>6 DEF TakeBatch
    <2> HIDE DEF Bound
    <2> QED BY <1>1, <1>2, <1>3, <1>4, <2>4, <2>5, <2>6
  <1>7. CASE ~ ScheduleGroups /\ ~ TakeBatch
    <2>1. Window' \in SUBSET Window
      <3> SUFFICES ASSUME NEW g \in Window' PROVE g \in Window
        OBVIOUS
      <3>1. g \in Groups
        BY WindowMembers
      <3> QED BY <1>7, <3>1, EntersNot DEF Enters
    <2>2. Cardinality(Window') <= Cardinality(Window)
      BY <1>3, <2>1, FS_Subset
    <2>3. consumed' = consumed /\ targetUpto <= targetUpto'
      <3>1. CASE ProducerNext
        BY <1>2, <1>7, <3>1 DEF ProducerNext, ExitLoop, BeginRound, RoundExpired, RoundStarts,
           RoundResumes, StartBatch, AbortBatch, EnoughProduced, WakeAndPut,
           AdvanceFutureStep, ProducerRaises, progressVars
      <3>2. CASE TrainerNext
        BY <1>2, <1>7, <3>2 DEF TrainerNext, BeginConsume, SkipExpiredStep, TrainOneBatch,
           PauseProduce, DrainPending, DrainDone, DrainTimeout, CleanupDone, DrainRaises,
           SaveRaises, UpdateWeights, Evaluate, ContinueProduce, Shutdown, JoinProducer,
           progressVars
      <3>3. CASE EngineNext
        BY <1>2, <3>3 DEF EngineNext, FinishGroup, FailGroup, progressVars
      <3>4. CASE Terminated
        BY <1>2, <3>4 DEF Terminated, vars, progressVars
      <3> QED BY <3>1, <3>2, <3>3, <3>4 DEF Next
    <2> HIDE DEF Bound
    <2> QED BY <1>1, <1>2, <1>3, <1>4, <2>2, <2>3
  <1> QED BY <1>5, <1>6, <1>7

\* Nothing is produced beyond the cumulative target and its oversampling, however
\* often groups are aborted, expired, refused and scheduled again.
THEOREM WindowKept ==
  ASSUME IsFiniteSet(Groups)
  PROVE  Spec => []NoOverproduction
  <1>1. Init => NoOverproduction
    <2> SUFFICES ASSUME Init PROVE NoOverproduction
      OBVIOUS
    <2>1. Buffered("COMPLETED") = {} /\ Pending = {}
      BY DEF Init, Buffered, Pending, InStage, FromDataset
    <2> QED BY <2>1, FS_EmptySet DEF Init, NoOverproduction, Available, TargetSamples
  <1>2. IInv /\ IInv' /\ NoOverproduction /\ [Next]_vars => NoOverproduction'
    <2>1. CASE Next
      BY <2>1, WindowStep DEF IInv
    <2>2. CASE UNCHANGED vars
      BY <2>2 DEF vars, progressVars, NoOverproduction, Available, Buffered, Pending, InStage,
         TargetSamples
    <2> QED BY <2>1, <2>2
  <1> QED BY <1>1, <1>2, Invariance, PTL DEF Spec
=============================================================================
