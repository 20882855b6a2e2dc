----------------------- MODULE DisaggRefinement_proofs -----------------------
(***************************************************************************)
(* Machine-checked proofs that the manager, the strategy, the buffer and   *)
(* the two coroutines implement what OffPolicyTraining promises of the     *)
(* whole and GroupLifecycle of every single group.                         *)
(***************************************************************************)
EXTENDS DisaggTraining_proofs

USE StalenessAssumption, GroupAssumption, DisaggAssumption

-----------------------------------------------------------------------------
(***************************************************************************)
(* The whole: OffPolicyTraining.                                           *)
(***************************************************************************)
\* What OffPolicyTraining can see of the groups.
Running == InStage({"running", "aborting"})
Batch   == InStage({"batch"})
Oldest  == [g \in Groups |-> group[g].act]

\* The view in terms of single groups, before and after a step.
LEMMA View ==
  /\ Running = {g \in Groups : group[g].stage \in {"running", "aborting"}}
  /\ Running' = {g \in Groups : group'[g].stage \in {"running", "aborting"}}
  /\ Batch = {g \in Groups : group[g].stage = "batch"}
  /\ Batch' = {g \in Groups : group'[g].stage = "batch"}
  /\ Oldest = [g \in Groups |-> group[g].act]
  /\ Oldest' = [g \in Groups |-> group'[g].act]
  BY DEF Running, Batch, Oldest, InStage

\* The arithmetic of the two specifications is the same.
LEMMA SameArithmetic ==
  /\ OffPolicy!NoTokens = NoTokens
  /\ OffPolicy!StaleThreshold = StaleThreshold
  /\ \A v, s : OffPolicy!SeqStaleness(v, s) = SeqStaleness(v, s)
  /\ \A a, b : OffPolicy!OldestVersion(a, b) = OldestVersion(a, b)
  BY DEF OffPolicy!NoTokens, NoTokens, OffPolicy!StaleThreshold, StaleThreshold,
     OffPolicy!SeqStaleness, SeqStaleness, OffPolicy!CalculateSeqStaleness,
     CalculateSeqStaleness, OffPolicy!OldestVersion, OldestVersion

\* And so is the size of a batch.
LEMMA SameCardinality == \A S : OffPolicy!Cardinality(S) = Cardinality(S)
  BY Zenon DEF OffPolicy!Cardinality, Cardinality

\* Before the first step nothing is generated and nothing is trained.
LEMMA InitOffPolicy == Init => OffPolicy!Init
  BY DEF Init, OffPolicy!Init, InStage, FromDataset, NoTokens, OffPolicy!NoTokens

\* A step in which every group looks as before, or is given up outside the
\* batch, discards groups, possibly none.
SameView(g) ==
  /\ group'[g].stage \in {"running", "aborting"} <=> group[g].stage \in {"running", "aborting"}
  /\ group'[g].stage = "batch" <=> group[g].stage = "batch"
  /\ group'[g].act = group[g].act

GivenUp(g) ==
  /\ group[g].stage # "batch"
  /\ group'[g].stage \notin {"running", "aborting", "batch"}
  /\ group'[g].act = NoTokens

LEMMA DiscardStep ==
  ASSUME trainStep' = trainStep, weights' = weights,
         \A g \in Groups : SameView(g) \/ GivenUp(g)
  PROVE  OffPolicy!Discard
  <1> DEFINE S == {g \in Groups : GivenUp(g)}
  <1>1. S \in SUBSET (Groups \ Batch)
    BY View DEF GivenUp
  <1>2. Running' = Running \ S
    BY View DEF SameView, GivenUp
  <1>3. Batch' = Batch
    BY View DEF SameView, GivenUp
  <1>4. Oldest' = [g \in Groups |-> IF g \in S THEN NoTokens ELSE Oldest[g]]
    BY View DEF SameView, GivenUp
  <1> HIDE DEF S
  <1> QED
    BY <1>1, <1>2, <1>3, <1>4, SameArithmetic DEF OffPolicy!Discard, Running, Batch, Oldest

\* Put leaves a finished group with its tokens or without any.
LEMMA PutAct ==
  ASSUME NEW r \in GroupRecord, NEW step \in Nat, NEW at \in Nat
  PROVE  PutGroup(r, step, at).act \in {r.act, NoTokens}
  BY DEF PutGroup, Versioned, ExpiredGroup, FromDataset, GroupRecord

\* A finished group that is put.
LEMMA PutView ==
  ASSUME TypeOK, NEW step \in Nat, NEW g \in Finished,
         group'[g] = PutGroup(group[g], step, consumerStep)
  PROVE  SameView(g) \/ GivenUp(g)
  <1>1. group[g] \in GroupRecord /\ group[g].stage = "finished" /\ consumerStep \in Nat
    BY DEF TypeOK, Finished, InStage
  <1> QED BY <1>1, PutAct, PutStage DEF SameView, GivenUp

\* Claimed groups are put; nothing else changes.
LEMMA PutClaimedView ==
  ASSUME TypeOK, NEW step \in Nat, PutClaimed(step)
  PROVE  \A g \in Groups : SameView(g) \/ GivenUp(g)
  <1> TAKE g \in Groups
  <1>1. CASE g \in Finished
    BY <1>1, PutView DEF PutClaimed
  <1>2. CASE g \notin Finished
    BY <1>2 DEF PutClaimed, SameView
  <1> QED BY <1>1, <1>2

\* When a task raises, other claimed groups are put or lost.
LEMMA ClaimRaisesView ==
  ASSUME TypeOK, NEW step \in Nat, ClaimRaises(step)
  PROVE  \A g \in Groups : SameView(g) \/ GivenUp(g)
  <1> SUFFICES ASSUME NEW g \in Groups PROVE SameView(g) \/ GivenUp(g)
    OBVIOUS
  <1>1. PICK put \in SUBSET (Finished \ Raised) :
          group' = [h \in Groups |->
            IF h \in put THEN PutGroup(group[h], step, consumerStep)
            ELSE IF h \in Finished THEN FromDataset ELSE group[h]]
    BY DEF ClaimRaises
  <1>2. CASE g \in put
    BY <1>1, <1>2, PutView
  <1>3. CASE g \in Finished \ put
    <2>1. group'[g] = FromDataset /\ group[g].stage = "finished"
      BY <1>1, <1>3 DEF Finished, InStage
    <2> QED BY <2>1 DEF GivenUp, FromDataset
  <1>4. CASE g \notin Finished
    BY <1>1, <1>4 DEF SameView
  <1> QED BY <1>2, <1>3, <1>4

\* An interrupted group is still being generated.
LEMMA InterruptedView ==
  ASSUME TypeOK, group' = Interrupted(group)
  PROVE  \A g \in Groups : SameView(g)
  BY DEF Interrupted, SameView, TypeOK, GroupRecord

\* Refreshing a group keeps it or takes its tokens, in the buffer.
LEMMA RefreshView ==
  ASSUME TypeOK, NEW g \in Groups, NEW step \in Nat,
         group'[g] = RefreshGroup(group[g], step)
  PROVE  SameView(g) \/ (GivenUp(g) /\ group[g].stage = "buffer")
  BY RefreshStage, ExpiredStage DEF SameView, GivenUp, TypeOK

\* Every step of the producer, the trainer and the engine is a step of
\* OffPolicyTraining.
LEMMA NextOffPolicy ==
  ASSUME IInv, Next
  PROVE  OffPolicy!Next
  <1> USE DEF IInv
  <1>0. TypeOK /\ \A g \in Groups : group[g] \in GroupRecord
    BY DEF TypeOK
  <1>1. ASSUME trainStep' = trainStep, weights' = weights,
               \A g \in Groups : SameView(g) \/ GivenUp(g)
        PROVE  OffPolicy!Next
    BY <1>1, DiscardStep DEF OffPolicy!Next
  <1>2. ASSUME group' = group PROVE \A g \in Groups : SameView(g) \/ GivenUp(g)
    BY <1>2 DEF SameView
  <1>3. CASE \/ ExitLoop \/ BeginRound \/ RoundExpired \/ RoundStarts \/ AbortBatch
             \/ EnoughProduced \/ AdvanceFutureStep
    BY <1>1, <1>2, <1>3 DEF ExitLoop, BeginRound, RoundExpired, RoundStarts, RoundResumes,
       AbortBatch, EnoughProduced, AdvanceFutureStep, trainerVars, engineVars
  <1>4. CASE \/ SkipExpiredStep \/ DrainDone \/ CleanupDone \/ SaveRaises \/ ContinueProduce
             \/ Shutdown \/ JoinProducer \/ Terminated
    BY <1>1, <1>2, <1>4 DEF SkipExpiredStep, DrainDone, CleanupDone, SaveRaises,
       ContinueProduce, Shutdown, JoinProducer, Terminated, vars, trainerVars, engineVars
  <1>5. CASE StartBatch \/ WakeAndPut \/ DrainPending
    <2>1. PICK step \in Nat : PutClaimed(step)
      BY <1>5 DEF StartBatch, WakeAndPut, DrainPending, TypeOK
    <2>2. trainStep' = trainStep /\ weights' = weights
      BY <1>5 DEF StartBatch, WakeAndPut, DrainPending, trainerVars, engineVars
    <2> QED BY <1>1, <2>1, <2>2, PutClaimedView
  <1>6. CASE ProducerRaises \/ DrainRaises
    <2>1. PICK step \in Nat : ClaimRaises(step)
      BY <1>6 DEF ProducerRaises, DrainRaises, TypeOK
    <2>2. trainStep' = trainStep /\ weights' = weights
      BY <1>6 DEF ProducerRaises, DrainRaises, trainerVars, engineVars
    <2> QED BY <1>1, <2>1, <2>2, ClaimRaisesView
  <1>7. CASE ScheduleGroups
    <2>1. PICK S \in SUBSET Groups :
            /\ SampledInOrder(S, ctx.tail)
            /\ group' = [g \in Groups |->
                 IF g \in S THEN Launched(group[g], weights, paused) ELSE group[g]]
      BY <1>7 DEF ScheduleGroups
    <2>2. \A g \in S : group[g].stage \in {"buffer", "dataset"}
      BY <2>1, SampledStage
    <2>3. \A g \in S : /\ group'[g].stage \in {"running", "aborting"}
                       /\ group'[g].act = group[g].act
      BY <1>0, <2>1, LaunchedRecord DEF TypeOK
    <2>4. \A g \in Groups \ S : group'[g] = group[g]
      BY <2>1
    <2>5. S \in SUBSET (Groups \ (Running \union Batch)) /\ Running' = Running \union S
      BY <2>2, <2>3, <2>4, View
    <2>6. Oldest' = Oldest /\ Batch' = Batch
      BY <2>2, <2>3, <2>4, View
    <2>7. trainStep' = trainStep /\ weights' = weights
      BY <1>7 DEF ScheduleGroups, trainerVars, engineVars
    <2>8. OffPolicy!Launch
      BY <2>5, <2>6, <2>7 DEF OffPolicy!Launch, Running, Batch, Oldest
    <2> QED BY <2>8 DEF OffPolicy!Next
  <1>8. CASE BeginConsume
    <2> DEFINE S == {g \in Groups : ~ SameView(g)}
    <2>1. \A g \in Groups : SameView(g) \/ (GivenUp(g) /\ group[g].stage = "buffer")
      BY <1>0, <1>8, RefreshView DEF BeginConsume, Refreshed, TypeOK
    <2>2. \A g \in S : g \notin Running /\ Oldest'[g] = NoTokens
      BY <2>1, View DEF GivenUp
    <2>3. Oldest' = [g \in Groups |-> IF g \in S \ Running THEN NoTokens ELSE Oldest[g]]
      BY <2>2, View DEF SameView
    <2>4. Running' = Running /\ Batch' = Batch
      BY <2>1, View DEF SameView, GivenUp
    <2>5. Batch = {}
      BY <1>8, View DEF BeginConsume, TrainerAt, BatchInv, BatchOK
    <2>6. trainStep < TotalSteps /\ trainStep' = trainStep + 1 /\ weights' = weights
      BY <1>8 DEF BeginConsume, engineVars
    <2>7. S \in SUBSET Groups
      OBVIOUS
    <2> HIDE DEF S
    <2>8. OffPolicy!NextStep
      BY <2>3, <2>4, <2>5, <2>6, <2>7, SameArithmetic
      DEF OffPolicy!NextStep, Running, Batch, Oldest
    <2> QED BY <2>8 DEF OffPolicy!Next
  <1>9. CASE TakeBatch
    <2>1. PICK S \in SUBSET Buffered("COMPLETED") :
            /\ Cardinality(S) = BatchSize
            /\ group' = [g \in Groups |->
                 IF g \in S THEN [group[g] EXCEPT !.stage = "batch"]
                            ELSE RefreshGroup(group[g], trainStep + 1)]
      BY <1>9 DEF TakeBatch
    <2> DEFINE X == {g \in Groups \ S : ~ SameView(g)}
    <2>2. \A g \in S : g \in Groups /\ group[g].stage = "buffer"
      BY DEF Buffered, InStage
    <2>3. \A g \in S : group'[g].stage = "batch" /\ group'[g].act = group[g].act
      BY <1>0, <2>1, <2>2 DEF GroupRecord
    <2>4. \A g \in Groups \ S :
            SameView(g) \/ (GivenUp(g) /\ group[g].stage = "buffer")
      BY <1>0, <2>1, RefreshView DEF TypeOK
    <2>5. Batch = {}
      BY <1>9, View DEF TakeBatch, TrainerAt, BatchInv, BatchOK
    <2>6. Running' = Running /\ Batch' = S
      BY <2>2, <2>3, <2>4, <2>5, View DEF SameView, GivenUp
    <2>7. Oldest' = [g \in Groups |-> IF g \in X \ S THEN NoTokens ELSE Oldest[g]]
      BY <2>3, <2>4, View DEF SameView, GivenUp
    <2>8. S \in SUBSET (Groups \ Running) /\ X \in SUBSET (Groups \ Running)
      BY <2>2, <2>4, View DEF GivenUp
    <2>9. \A g \in S : SeqStaleness(Oldest[g], trainStep) < StaleThreshold
      <3> SUFFICES ASSUME NEW g \in S
                   PROVE  SeqStaleness(group[g].act, trainStep) < StaleThreshold
        BY <2>2 DEF Oldest
      <3>1. ~ IsStale(group[g].ver, trainStep)
        BY <1>9 DEF TakeBatch, TrainerAt, BatchInv, BufferFresh
      <3>2. /\ group[g].ver <= group[g].act
            /\ group[g].ver = NoTokens <=> group[g].act = NoTokens
        BY <2>2 DEF LabelInv, LabelOK
      <3>3. /\ group[g].ver \in Nat \union {NoTokens}
            /\ group[g].act \in Nat \union {NoTokens}
            /\ trainStep \in Nat
        BY <1>0, <2>2 DEF GroupRecord, TypeOK
      <3> QED BY <3>1, <3>2, <3>3, StalerWhenOlder
    <2>10. trainStep' = trainStep /\ weights' = weights
      BY <1>9 DEF TakeBatch, engineVars
    <2> HIDE DEF X
    <2>11. OffPolicy!Take
      <3>1. OffPolicy!Cardinality(S) = BatchSize
        BY <2>1, SameCardinality
      <3>2. \A g \in S : OffPolicy!SeqStaleness(Oldest[g], trainStep) < OffPolicy!StaleThreshold
        BY <2>9, SameArithmetic
      <3>3. Oldest' = [g \in Groups |-> IF g \in X \ S THEN OffPolicy!NoTokens ELSE Oldest[g]]
        BY <2>7, SameArithmetic
      <3>4. UNCHANGED <<Running, trainStep, weights>>
        BY <2>6, <2>10
      <3> QED
        BY <2>5, <2>6, <2>8, <3>1, <3>2, <3>3, <3>4, Zenon
        DEF OffPolicy!Take, Running, Batch, Oldest
    <2> QED BY <2>11 DEF OffPolicy!Next
  <1>10. CASE TrainOneBatch
    <2>1. group' = [g \in Groups |-> IF group[g].stage = "batch" THEN FromDataset ELSE group[g]]
      BY <1>10 DEF TrainOneBatch
    <2>2. Batch # {}
      BY <1>10, View DEF TrainOneBatch, TrainerAt, StepInv
    <2>3. Batch' = {} /\ Running' = Running
      BY <2>1, View DEF FromDataset
    <2>4. Oldest' = [g \in Groups |-> IF g \in Batch THEN NoTokens ELSE Oldest[g]]
      BY <2>1, View DEF FromDataset
    <2>5. trainStep' = trainStep /\ weights' = weights
      BY <1>10 DEF TrainOneBatch, engineVars
    <2>6. OffPolicy!Train
      BY <2>2, <2>3, <2>4, <2>5, SameArithmetic DEF OffPolicy!Train, Running, Batch, Oldest
    <2> QED BY <2>6 DEF OffPolicy!Next
  <1>11. CASE PauseProduce \/ Evaluate
    <2>1. group' = group \/ group' = Interrupted(group)
      BY <1>11 DEF PauseProduce, Evaluate
    <2>2. trainStep' = trainStep /\ weights' = weights
      BY <1>11 DEF PauseProduce, Evaluate
    <2> QED BY <1>0, <1>1, <1>2, <2>1, <2>2, InterruptedView
  <1>12. CASE DrainTimeout
    <2>1. group' = [g \in Groups |-> IF g \in Pending THEN FromDataset ELSE group[g]]
      BY <1>12 DEF DrainTimeout
    <2>2. \A g \in Groups : SameView(g) \/ GivenUp(g)
      BY <2>1 DEF SameView, GivenUp, Pending, InStage, FromDataset
    <2>3. trainStep' = trainStep /\ weights' = weights
      BY <1>12 DEF DrainTimeout, engineVars
    <2> QED BY <1>1, <2>2, <2>3
  <1>13. CASE UpdateWeights
    <2>1. Running = {} /\ Batch = {}
      BY <1>13, View DEF UpdateWeights, TrainerAt, QuietInv, Pending, InStage, BatchInv, BatchOK
    <2>2. weights < trainStep /\ weights' = trainStep /\ trainStep' = trainStep
      BY <1>13 DEF UpdateWeights, TrainerAt, StepInv
    <2>3. Running' = Running /\ Batch' = Batch /\ Oldest' = Oldest
      BY <1>13, View DEF UpdateWeights
    <2>4. OffPolicy!UpdateWeights
      BY <2>1, <2>2, <2>3 DEF OffPolicy!UpdateWeights, Running, Batch, Oldest
    <2> QED BY <2>4 DEF OffPolicy!Next
  <1>14. ASSUME NEW g \in Groups, FinishGroup(g) PROVE OffPolicy!Next
    <2>1. PICK r \in Returned(group[g]) : group' = [group EXCEPT ![g] = r]
      BY <1>14 DEF FinishGroup
    <2>2. PICK k \in Kept(group[g]), gained \in BOOLEAN :
            /\ r.stage = "finished"
            /\ r.act = IF gained THEN OldestVersion(k.act, group[g].since) ELSE k.act
      BY <2>1 DEF Returned
    <2>3. group[g].stage \in {"running", "aborting"} /\ group[g].since = weights
      BY <1>14 DEF FinishGroup, LabelInv, LabelOK
    <2> DEFINE new == IF gained THEN weights ELSE NoTokens
    <2>4. r.act = OldestVersion(k.act, new)
      BY <2>2, <2>3 DEF OldestVersion
    <2>5. k.act \in {group[g].act, NoTokens} \union (group[g].act .. weights)
      BY <2>3 DEF Kept
    <2>6. g \in Running /\ Running' = Running \ {g} /\ Batch' = Batch
      BY <1>0, <2>1, <2>2, <2>3, View DEF TypeOK
    <2>7. Oldest' = [Oldest EXCEPT ![g] = OldestVersion(k.act, new)]
      BY <1>0, <2>1, <2>4, View DEF TypeOK
    <2>8. trainStep' = trainStep /\ weights' = weights
      BY <1>14 DEF FinishGroup, trainerVars, engineVars
    <2>9. new \in {weights, NoTokens} /\ Oldest[g] = group[g].act
      BY DEF Oldest
    <2> HIDE DEF new
    <2>10. OffPolicy!Return(g)
      BY <2>5, <2>6, <2>7, <2>8, <2>9, SameArithmetic
      DEF OffPolicy!Return, Running, Batch, Oldest
    <2> QED BY <2>10 DEF OffPolicy!Next
  <1>15. ASSUME NEW g \in Groups, FailGroup(g) PROVE OffPolicy!Next
    <2>1. PICK r \in Failed : group' = [group EXCEPT ![g] = r]
      BY <1>15 DEF FailGroup
    <2>2. r.stage = "finished" /\ r.act = NoTokens /\ group[g].stage \in {"running", "aborting"}
      BY <1>15, FailedRecord DEF FailGroup
    <2>3. \A h \in Groups : SameView(h) \/ GivenUp(h)
      BY <1>0, <2>1, <2>2 DEF SameView, GivenUp, TypeOK
    <2>4. trainStep' = trainStep /\ weights' = weights
      BY <1>15 DEF FailGroup, trainerVars, engineVars
    <2> QED BY <1>1, <2>3, <2>4
  <1> QED
    BY <1>3, <1>4, <1>5, <1>6, <1>7, <1>8, <1>9, <1>10, <1>11, <1>12, <1>13, <1>14, <1>15
    DEF Next, ProducerNext, TrainerNext, EngineNext

\* A step that changes nothing is one there as well.
LEMMA StutterOffPolicy == UNCHANGED vars => UNCHANGED OffPolicy!vars
  BY DEF vars, OffPolicy!vars, InStage, trainerVars, engineVars

\* The two coroutines, with their buffer, events and time-outs, implement
\* OffPolicyTraining: every optimizer step takes one full batch of fresh groups and
\* the engine's weights change only while it generates nothing.
THEOREM OffPolicyImplemented == Spec => ImplementsOffPolicy
  <1>1. IInv /\ [Next]_vars => [OffPolicy!Next]_OffPolicy!vars
    BY NextOffPolicy, StutterOffPolicy
  <1> QED
    BY <1>1, InitOffPolicy, Invariance, PTL DEF Spec, ImplementsOffPolicy, OffPolicy!Spec

-----------------------------------------------------------------------------
(***************************************************************************)
(* Every group: GroupLifecycle.                                            *)
(***************************************************************************)
\* The two specifications read one record in the same way.
LEMMA SameRecords ==
  ASSUME NEW g \in Groups
  PROVE  /\ Life(g)!FromDataset = FromDataset
         /\ \A r, w, p : Life(g)!Launched(r, w, p) = Launched(r, w, p)
         /\ \A r, s : Life(g)!RefreshGroup(r, s) = RefreshGroup(r, s)
         /\ \A r, m, s : Life(g)!PutGroup(r, m, s) = PutGroup(r, m, s)
  <1>1. Life(g)!FromDataset = FromDataset
    BY DEF Life!FromDataset, FromDataset, Life!NoTokens, NoTokens
  <1>2. Life(g)!ExpiredGroup = ExpiredGroup
    BY <1>1 DEF Life!ExpiredGroup, ExpiredGroup
  <1>3. \A v, s : Life(g)!IsStale(v, s) = IsStale(v, s)
    BY DEF Life!IsStale, IsStale, Life!SeqStaleness, SeqStaleness, Life!StaleThreshold,
       StaleThreshold, Life!CalculateSeqStaleness, CalculateSeqStaleness, Life!NoTokens,
       NoTokens
  <1>4. \A r, m : Life(g)!Versioned(r, m) = Versioned(r, m)
    BY DEF Life!Versioned, Versioned, Life!OldestVersion, OldestVersion, Life!NoTokens,
       NoTokens
  <1>5. \A r, w, p : Life(g)!Launched(r, w, p) = Launched(r, w, p)
    BY DEF Life!Launched, Launched
  <1>6. \A r, s : Life(g)!RefreshGroup(r, s) = RefreshGroup(r, s)
    BY <1>2, <1>3 DEF Life!RefreshGroup, RefreshGroup
  <1>7. \A r, m, s : Life(g)!PutGroup(r, m, s) = PutGroup(r, m, s)
    BY <1>1, <1>2, <1>3, <1>4 DEF Life!PutGroup, PutGroup
  <1> QED BY <1>1, <1>5, <1>6, <1>7

\* What the engine may return is the same, too.
LEMMA SameReturns ==
  ASSUME NEW g \in Groups
  PROVE  /\ \A r : Life(g)!Returned(r) = Returned(r)
         /\ Life(g)!Failed = Failed
  <1>1. \A r : Life(g)!Kept(r) = Kept(r)
    BY DEF Life!Kept, Kept, Life!NoTokens, NoTokens
  <1>2. \A a, b : Life(g)!OldestVersion(a, b) = OldestVersion(a, b)
    BY DEF Life!OldestVersion, OldestVersion, Life!NoTokens, NoTokens
  <1>3. Life(g)!NoTokens = NoTokens
    BY DEF Life!NoTokens, NoTokens
  <1>4. ASSUME NEW r PROVE Life(g)!Returned(r) = Returned(r)
    BY <1>1, <1>2, <1>3 DEF Life!Returned, Returned
  <1>5. Life(g)!Failed = Failed
    BY SameRecords, Zenon DEF Life!Failed, Failed
  <1> QED BY <1>4, <1>5

\* Every group begins in the dataset.
LEMMA InitLives == Init => \A g \in Groups : Life(g)!Init
  BY DEF Init, Life!Init, FromDataset, NoTokens, Life!NoTokens, Life!FromDataset

\* A step of one group.
Lives(g) == Life(g)!Next \/ UNCHANGED <<group[g], weights, paused, consumerStep>>

\* A finished group is put with a version that is not newer than the weights.
LEMMA PutLives ==
  ASSUME NEW g \in Finished, NEW step \in 0 .. weights,
         group'[g] = PutGroup(group[g], step, consumerStep),
         UNCHANGED <<weights, paused, consumerStep>>
  PROVE  Lives(g)
  <1>1. g \in Groups /\ group[g].stage = "finished"
    BY DEF Finished, InStage
  <1>2. Life(g)!Put
    BY <1>1, SameRecords DEF Life!Put
  <1> QED BY <1>2 DEF Lives, Life!Next

\* A group whose task is pending is cancelled, or lost when another task raises.
LEMMA CancelLives ==
  ASSUME NEW g \in Pending, group'[g] = FromDataset, UNCHANGED <<weights, paused, consumerStep>>
  PROVE  Lives(g)
  <1>1. g \in Groups /\ group[g].stage \in {"running", "aborting", "finished"}
    BY DEF Pending, InStage
  <1>2. Life(g)!Cancel
    BY <1>1, SameRecords DEF Life!Cancel, Life!InFlight
  <1> QED BY <1>2 DEF Lives, Life!Next

\* Nobody touches the group.
LEMMA IdleLives ==
  ASSUME NEW g \in Groups, group'[g] = group[g], UNCHANGED <<weights, paused, consumerStep>>
  PROVE  Lives(g)
  BY DEF Lives

\* The engine aborts what it generates.
LEMMA PauseLives ==
  ASSUME TypeOK, NEW g \in Groups, group' = Interrupted(group), paused' = TRUE,
         UNCHANGED <<weights, consumerStep>>
  PROVE  Lives(g)
  <1> USE DEF Life!InFlight
  <1>1. group[g] \in GroupRecord
    BY DEF TypeOK
  <1>2. group'[g] = IF group[g].stage = "running" THEN [group[g] EXCEPT !.stage = "aborting"]
                                                  ELSE group[g]
    BY DEF Interrupted
  <1>3. group[g].stage = "aborting" => [group[g] EXCEPT !.stage = "aborting"] = group[g]
    BY <1>1 DEF GroupRecord
  <1>4. group'[g] = IF Life(g)!InFlight THEN [group[g] EXCEPT !.stage = "aborting"]
                                        ELSE group[g]
    BY <1>2, <1>3
  <1>5. Life(g)!Pause
    BY <1>4, Zenon DEF Life!Pause
  <1> QED BY <1>5 DEF Lives, Life!Next

\* Refreshing for the next step; for the present one it changes nothing.
LEMMA RefreshLives ==
  ASSUME IInv, NEW g \in Groups,
         consumerStep' = trainStep + 1, consumerStep' \in {consumerStep, consumerStep + 1},
         group'[g] = RefreshGroup(group[g], consumerStep'), UNCHANGED <<weights, paused>>
  PROVE  Lives(g)
  <1>1. CASE consumerStep' = consumerStep
    <2>1. g \in Buffered("COMPLETED") \union Buffered("ABORTED")
            => ~ IsStale(group[g].ver, consumerStep)
      BY DEF IInv, BufferFresh
    <2>2. group'[g] = group[g]
      BY <1>1, <2>1 DEF RefreshGroup, Buffered, InStage
    <2> QED BY <1>1, <2>2, IdleLives
  <1>2. CASE consumerStep' = consumerStep + 1
    <2>1. consumerStep <= TotalSteps
      BY <1>2 DEF IInv, StepInv, TypeOK
    <2>2. Life(g)!NextStep
      BY <1>2, <2>1, SameRecords DEF Life!NextStep
    <2> QED BY <2>2 DEF Lives, Life!Next
  <1> QED BY <1>1, <1>2

\* Every step of the system is a step in the life of each group, or none.
LEMMA NextLives ==
  ASSUME IInv, Next, NEW g \in Groups
  PROVE  Lives(g)
  <1> USE DEF IInv
  <1>0. TypeOK /\ group[g] \in GroupRecord
    BY DEF TypeOK
  <1>1. CASE \/ ExitLoop \/ BeginRound \/ AbortBatch \/ EnoughProduced \/ AdvanceFutureStep
    BY <1>1, IdleLives DEF ExitLoop, BeginRound, AbortBatch, EnoughProduced,
       AdvanceFutureStep, progressVars, engineVars
  <1>2. CASE \/ SkipExpiredStep \/ DrainDone \/ CleanupDone \/ SaveRaises \/ ContinueProduce
             \/ Shutdown \/ JoinProducer \/ Terminated
    BY <1>2, IdleLives DEF SkipExpiredStep, DrainDone, CleanupDone, SaveRaises,
       ContinueProduce, Shutdown, JoinProducer, Terminated, vars, progressVars, engineVars
  <1>3. CASE RoundExpired \/ RoundStarts
    <2>1. Life(g)!Continue
      BY <1>3 DEF RoundExpired, RoundStarts, RoundResumes, Life!Continue
    <2> QED BY <2>1 DEF Lives, Life!Next
  <1>4. CASE StartBatch \/ WakeAndPut \/ DrainPending
    <2>1. PICK step \in {ctx.model, modelStep} : PutClaimed(step)
      BY <1>4 DEF StartBatch, WakeAndPut, DrainPending
    <2>2. UNCHANGED <<weights, paused, consumerStep>>
      BY <1>4 DEF StartBatch, WakeAndPut, DrainPending, progressVars, engineVars
    <2>3. CASE g \in Finished
      <3>1. trainer # "failed"
        BY <2>3 DEF QuietInv, Pending, Finished, InStage
      <3>2. step \in 0 .. weights
        BY <3>1 DEF VersionInv, TypeOK
      <3> QED BY <2>1, <2>2, <2>3, <3>2, PutLives DEF PutClaimed
    <2>4. CASE g \notin Finished
      BY <2>1, <2>2, <2>4, IdleLives DEF PutClaimed
    <2> QED BY <2>3, <2>4
  <1>5. CASE ProducerRaises \/ DrainRaises
    <2>1. PICK step \in {ctx.model, modelStep} : ClaimRaises(step)
      BY <1>5 DEF ProducerRaises, DrainRaises
    <2>2. UNCHANGED <<weights, paused, consumerStep>>
      BY <1>5 DEF ProducerRaises, DrainRaises, progressVars, engineVars
    <2>3. PICK put \in SUBSET (Finished \ Raised) :
            group' = [h \in Groups |->
              IF h \in put THEN PutGroup(group[h], step, consumerStep)
              ELSE IF h \in Finished THEN FromDataset ELSE group[h]]
      BY <2>1 DEF ClaimRaises
    <2>4. CASE g \in put
      <3>1. g \in Finished /\ trainer # "failed"
        BY <2>4 DEF QuietInv, Pending, Finished, InStage
      <3>2. step \in 0 .. weights
        BY <3>1 DEF VersionInv, TypeOK
      <3> QED BY <2>2, <2>3, <2>4, <3>1, <3>2, PutLives
    <2>5. CASE g \in Finished \ put
      <3>1. g \in Pending /\ group'[g] = FromDataset
        BY <2>3, <2>5 DEF Pending, Finished, InStage
      <3> QED BY <2>2, <3>1, CancelLives
    <2>6. CASE g \notin Finished
      BY <2>2, <2>3, <2>6, IdleLives
    <2> QED BY <2>4, <2>5, <2>6
  <1>6. CASE ScheduleGroups
    <2>1. PICK S \in SUBSET Groups :
            /\ SampledInOrder(S, ctx.tail)
            /\ group' = [h \in Groups |->
                 IF h \in S THEN Launched(group[h], weights, paused) ELSE group[h]]
      BY <1>6 DEF ScheduleGroups
    <2>2. UNCHANGED <<weights, paused, consumerStep>>
      BY <1>6 DEF ScheduleGroups, progressVars, engineVars
    <2>3. CASE g \in S
      <3>1. Life(g)!Launch
        BY <2>1, <2>2, <2>3, SampledPool, SameRecords DEF Life!Launch
      <3> QED BY <3>1 DEF Lives, Life!Next
    <2>4. CASE g \notin S
      BY <2>1, <2>2, <2>4, IdleLives
    <2> QED BY <2>3, <2>4
  <1>7. CASE BeginConsume
    BY <1>7, RefreshLives DEF BeginConsume, Refreshed, StepInv, TypeOK, engineVars
  <1>8. CASE TakeBatch
    <2>1. PICK S \in SUBSET Buffered("COMPLETED") :
            group' = [h \in Groups |->
              IF h \in S THEN [group[h] EXCEPT !.stage = "batch"]
                         ELSE RefreshGroup(group[h], trainStep + 1)]
      BY <1>8 DEF TakeBatch
    <2>2. /\ consumerStep = trainStep /\ consumerStep' = trainStep + 1
          /\ UNCHANGED <<weights, paused>>
      BY <1>8 DEF TakeBatch, TrainerAt, BatchInv, engineVars
    <2>3. CASE g \in S
      <3>1. group[g].stage = "buffer" /\ group[g].status = "COMPLETED"
        BY <2>3 DEF Buffered, InStage
      <3>2. Life(g)!Take
        BY <2>1, <2>2, <2>3, <3>1 DEF Life!Take
      <3> QED BY <3>2 DEF Lives, Life!Next
    <2>4. CASE g \notin S
      BY <2>1, <2>2, <2>4, RefreshLives DEF StepInv, TypeOK
    <2> QED BY <2>3, <2>4
  <1>9. CASE TrainOneBatch
    <2>1. UNCHANGED <<weights, paused, consumerStep>>
      BY <1>9 DEF TrainOneBatch, progressVars, engineVars
    <2>2. CASE group[g].stage = "batch"
      <3>1. group'[g] = FromDataset
        BY <1>9, <2>2 DEF TrainOneBatch
      <3>2. Life(g)!Train
        BY <2>1, <2>2, <3>1, SameRecords DEF Life!Train
      <3> QED BY <3>2 DEF Lives, Life!Next
    <2>3. CASE group[g].stage # "batch"
      BY <1>9, <2>1, <2>3, IdleLives DEF TrainOneBatch
    <2> QED BY <2>2, <2>3
  <1>10. CASE PauseProduce \/ Evaluate
    <2>1. UNCHANGED <<weights, consumerStep>>
      BY <1>10 DEF PauseProduce, Evaluate, progressVars
    <2>2. CASE group' = Interrupted(group) /\ paused' = TRUE
      BY <1>0, <2>1, <2>2, PauseLives
    <2>3. CASE UNCHANGED <<group, paused>>
      BY <2>1, <2>3, IdleLives
    <2> QED BY <1>10, <2>2, <2>3 DEF PauseProduce, Evaluate
  <1>11. CASE DrainTimeout
    <2>1. UNCHANGED <<weights, paused, consumerStep>>
      BY <1>11 DEF DrainTimeout, progressVars, engineVars
    <2> QED BY <1>11, <2>1, CancelLives, IdleLives DEF DrainTimeout
  <1>12. CASE UpdateWeights
    <2>1. group[g].stage \notin {"running", "aborting", "finished"}
      BY <1>12 DEF UpdateWeights, TrainerAt, QuietInv, Pending, InStage
    <2>2. /\ weights' = trainStep /\ paused' = FALSE
          /\ UNCHANGED <<group, consumerStep>>
      BY <1>12 DEF UpdateWeights, progressVars
    <2>3. weights' \in (weights + 1) .. consumerStep
      BY <1>12, <2>2 DEF UpdateWeights, TrainerAt, StepInv, TypeOK
    <2>4. Life(g)!UpdateWeights
      BY <2>1, <2>2, <2>3 DEF Life!UpdateWeights, Life!InFlight
    <2> QED BY <2>4 DEF Lives, Life!Next
  <1>13. ASSUME NEW h \in Groups, FinishGroup(h) \/ FailGroup(h) PROVE Lives(g)
    <2>1. UNCHANGED <<weights, paused, consumerStep>>
      BY <1>13 DEF FinishGroup, FailGroup, progressVars, engineVars
    <2>2. /\ group[h].stage \in {"running", "aborting"}
          /\ \E r \in Returned(group[h]) \union Failed : group' = [group EXCEPT ![h] = r]
      BY <1>13 DEF FinishGroup, FailGroup
    <2>3. CASE g = h
      <3>1. group'[g] \in Returned(group[g]) \union Failed
        BY <2>2, <2>3 DEF TypeOK
      <3>2. Life(g)!Return
        BY <2>1, <2>2, <2>3, <3>1, SameReturns DEF Life!Return, Life!InFlight
      <3> QED BY <3>2 DEF Lives, Life!Next
    <2>4. CASE g # h
      BY <2>1, <2>2, <2>4, IdleLives DEF TypeOK
    <2> QED BY <2>3, <2>4
  <1> QED
    BY <1>1, <1>2, <1>3, <1>4, <1>5, <1>6, <1>7, <1>8, <1>9, <1>10, <1>11, <1>12, <1>13
    DEF Next, ProducerNext, TrainerNext, EngineNext

\* Whatever the coroutines do to the others, every group lives the life that
\* GroupLifecycle describes.
THEOREM LifecycleKept == Spec => EveryGroupLives
  <1>1. IInv /\ [Next]_vars
          => [\A g \in Groups :
                Life(g)!Next \/ UNCHANGED <<group[g], weights, paused, consumerStep>>]_vars
    BY NextLives DEF Lives
  <1> QED
    BY <1>1, InitLives, Invariance, PTL DEF Spec, EveryGroupLives
=============================================================================
