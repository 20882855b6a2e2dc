---------------------- MODULE ColocatedTraining_proofs ----------------------
(***************************************************************************)
(* Machine-checked proofs that a restart always finds a whole checkpoint   *)
(* and that groups are labelled with the weights that generate them, for   *)
(* every number of tasks and steps, every interval and every moment the    *)
(* process may stop.                                                       *)
(***************************************************************************)
EXTENDS FairShare_proofs, SequenceTheorems

USE ColocateAssumption

-----------------------------------------------------------------------------
(***************************************************************************)
(* Intervals.                                                              *)
(***************************************************************************)
\* The remainder is the only one of its kind.
LEMMA RemainderUnique ==
  ASSUME NEW d \in Nat \ {0}, NEW q \in Nat, NEW r \in 0 .. d - 1
  PROVE  (d * q + r) % d = r
  <1> DEFINE n == d * q + r
             p == n \div d
  <1>1. n \in Nat
    <2>1. d * q \in Nat
      OBVIOUS
    <2> QED BY <2>1
  <1>2. p \in Nat /\ n % d \in 0 .. d - 1 /\ n = d * p + (n % d)
    BY <1>1, Division
  <1> HIDE DEF p
  <1>3. d * (p - q) = r - (n % d)
    <2>1. d * p - d * q = r - (n % d)
      BY <1>2
    <2>2. d * (p - q) = d * p - d * q
      BY <1>2
    <2> QED BY <2>1, <2>2
  <1>4. p - q < 1
    <2> SUFFICES ASSUME p - q >= 1 PROVE FALSE
      BY <1>2
    <2>1. d * (p - q) >= d
      BY <1>2
    <2> QED BY <1>3, <1>2, <2>1
  <1>5. p - q > -1
    <2> SUFFICES ASSUME p - q <= -1 PROVE FALSE
      BY <1>2
    <2>1. d * (p - q) <= -d
      BY <1>2
    <2> QED BY <1>3, <1>2, <2>1
  <1>6. p = q
    BY <1>2, <1>4, <1>5
  <1> QED BY <1>3, <1>2, <1>6

\* Between two multiples of the interval the last multiple stays the same.
LEMMA SameMultiple ==
  ASSUME NEW n \in Nat, NEW d \in Nat \ {0}, (n + 1) % d # 0
  PROVE  (n + 1) - ((n + 1) % d) = n - (n % d)
  <1> DEFINE q == n \div d
             r == n % d
  <1>1. q \in Nat /\ r \in 0 .. d - 1 /\ n = d * q + r
    BY Division
  <1> HIDE DEF q, r
  <1>2. CASE r + 1 = d
    <2>1. d * (q + 1) = d * q + d
      BY <1>1
    <2>2. n + 1 = d * (q + 1) + 0
      BY <1>1, <1>2, <2>1
    <2>3. (d * (q + 1) + 0) % d = 0
      BY <1>1, RemainderUnique
    <2> QED BY <2>2, <2>3
  <1>3. CASE r + 1 # d
    <2>1. r + 1 \in 0 .. d - 1 /\ n + 1 = d * q + (r + 1)
      BY <1>1, <1>3
    <2>2. (d * q + (r + 1)) % d = r + 1
      BY <1>1, <2>1, RemainderUnique
    <2>3. (n + 1) % d = r + 1
      BY <2>1, <2>2
    <2> QED BY <1>1, <2>3 DEF r
  <1> QED BY <1>2, <1>3

\* A step that saves a checkpoint is a step that synchronises the weights:
\* checkpoint_interval is a multiple of sync_weights_interval.
LEMMA SaveSynchronises ==
  ASSUME NEW n \in Nat, CheckpointInterval # 0, n % CheckpointInterval = 0
  PROVE  n % SyncInterval = 0
  <1> DEFINE a == n \div CheckpointInterval
             b == CheckpointInterval \div SyncInterval
  <1>1. a \in Nat /\ n = CheckpointInterval * a
    BY Division
  <1>2. b \in Nat /\ CheckpointInterval = SyncInterval * b
    BY Division
  <1> HIDE DEF a, b
  <1>3. b * a \in Nat /\ (SyncInterval * b) * a = SyncInterval * (b * a)
    BY <1>1, <1>2
  <1>4. n = SyncInterval * (b * a) + 0
    BY <1>1, <1>2, <1>3
  <1>5. (SyncInterval * (b * a) + 0) % SyncInterval = 0
    BY <1>3, RemainderUnique
  <1> QED BY <1>4, <1>5

-----------------------------------------------------------------------------
(***************************************************************************)
(* Lists of checkpoints.                                                   *)
(***************************************************************************)
\* Listing a newer checkpoint.
LEMMA ListedOrder ==
  ASSUME NEW l \in Seq(Steps), Ordered(l), NEW s \in Steps, s % SyncInterval = 0,
         \A i \in 1 .. Len(l) : l[i] < s
  PROVE  /\ Append(l, s) \in Seq(Steps) /\ Ordered(Append(l, s))
         /\ Append(l, s) # <<>> /\ Last(Append(l, s)) = s
         /\ Len(Append(l, s)) = Len(l) + 1
         /\ \A i \in 1 .. Len(l) : Append(l, s)[i] = l[i]
  <1> DEFINE all == Append(l, s)
  <1>1. /\ all \in Seq(Steps) /\ Len(all) = Len(l) + 1 /\ Len(l) \in Nat
        /\ \A i \in 1 .. Len(l) : all[i] = l[i]
        /\ all[Len(l) + 1] = s
    OBVIOUS
  <1> HIDE DEF all
  <1>2. all # <<>>
    BY <1>1
  <1>3. Ordered(all)
    BY <1>1 DEF Ordered
  <1> QED BY <1>1, <1>2, <1>3 DEF all, Last

\* What the list keeps is ordered and ends with the same checkpoint.
LEMMA KeptOrder ==
  ASSUME NEW l \in Seq(Steps), Ordered(l), l # <<>>
  PROVE  /\ KeptOf(l) \in Seq(Steps) /\ Ordered(KeptOf(l))
         /\ KeptOf(l) # <<>> /\ Last(KeptOf(l)) = Last(l)
  <1>1. CASE ~ (MaxKeep > 0 /\ Len(l) > MaxKeep)
    BY <1>1 DEF KeptOf
  <1>2. CASE MaxKeep > 0 /\ Len(l) > MaxKeep
    <2> DEFINE m == Len(l) - MaxKeep + 1
               k == SubSeq(l, m, Len(l))
    <2>1. KeptOf(l) = k
      BY <1>2 DEF KeptOf
    <2>2. /\ Len(l) \in Nat /\ m \in 1 .. Len(l)
          /\ \A i \in m .. Len(l) : l[i] \in Steps
      BY <1>2
    <2>3. /\ k \in Seq(Steps) /\ Len(k) = MaxKeep
          /\ \A i \in 1 .. MaxKeep : k[i] = l[m + i - 1]
      <3> HIDE DEF m
      <3>1. /\ k \in Seq(Steps) /\ Len(k) = IF m <= Len(l) THEN Len(l) - m + 1 ELSE 0
            /\ \A i \in 1 .. Len(l) - m + 1 : k[i] = l[m + i - 1]
        BY <2>2, SubSeqProperties
      <3> QED BY <2>2, <3>1 DEF m
    <2> HIDE DEF k
    <2>4. Ordered(k)
      <3>1. \A i \in 1 .. MaxKeep : m + i - 1 \in 1 .. Len(l)
        BY <1>2, <2>2
      <3>2. \A i, j \in 1 .. MaxKeep : i < j => k[i] < k[j]
        <4> SUFFICES ASSUME NEW i \in 1 .. MaxKeep, NEW j \in 1 .. MaxKeep, i < j
                     PROVE  k[i] < k[j]
          OBVIOUS
        <4>1. m + i - 1 < m + j - 1
          BY <2>2
        <4> HIDE DEF m
        <4> QED BY <2>3, <3>1, <4>1 DEF Ordered
      <3>3. \A i \in 1 .. MaxKeep : k[i] % SyncInterval = 0
        <4> TAKE i \in 1 .. MaxKeep
        <4>1. k[i] = l[m + i - 1] /\ m + i - 1 \in 1 .. Len(l)
          BY <2>3, <3>1
        <4> HIDE DEF m
        <4> QED BY <4>1 DEF Ordered
      <3> QED BY <2>3, <3>2, <3>3 DEF Ordered
    <2>5. k # <<>> /\ Last(k) = Last(l)
      BY <1>2, <2>2, <2>3 DEF Last
    <2> QED BY <2>1, <2>3, <2>4, <2>5
  <1> QED BY <1>1, <1>2

\* The last of the list stays, and with a checkpoint_maxkeep other than 1 the
\* last two.
LEMMA LastTwoStay ==
  ASSUME NEW l \in Seq(Steps), Ordered(l), NEW i \in 1 .. Len(l),
         i = Len(l) \/ (MaxKeep # 1 /\ i >= Len(l) - 1)
  PROVE  l[i] \notin PrunedOf(l)
  <1> SUFFICES ASSUME NEW j \in 1 .. Len(l) - MaxKeep, MaxKeep > 0, Len(l) > MaxKeep,
                      l[i] = l[j]
               PROVE  FALSE
    BY DEF PrunedOf
  <1>1. Len(l) \in Nat /\ j \in 1 .. Len(l) /\ j < i
    OBVIOUS
  <1>2. l[j] < l[i]
    BY <1>1 DEF Ordered
  <1>3. l[i] \in Nat
    BY DEF Steps
  <1> QED BY <1>2, <1>3

-----------------------------------------------------------------------------
(***************************************************************************)
(* The checkpoint protocol.                                                *)
(***************************************************************************)
\* Nothing is listed at the start.
LEMMA InitCheckpoint == Init => CheckpointInv
  <1> SUFFICES ASSUME Init PROVE CheckpointInv
    OBVIOUS
  <1> USE DEF Init
  <1>1. <<>> \in Seq(Steps) /\ Len(<<>>) = 0
    OBVIOUS
  <1>2. CheckpointTypes
    BY <1>1 DEF CheckpointTypes, Steps, Locations, Saving
  <1>3. Ordered(<<>>)
    BY <1>1 DEF Ordered
  <1>4. ListsAgree
    BY <1>1, <1>3 DEF ListsAgree, Saving
  <1>5. LabelsAgree
    <2>1. 0 % SyncInterval = 0
      BY Division
    <2> QED BY <2>1 DEF LabelsAgree, Saving
  <1>6. FilesInTurn /\ RestartsWhole
    BY DEF FilesInTurn, RestartsWhole, LatestIsWhole, Latest
  <1> QED BY <1>2, <1>4, <1>5, <1>6 DEF CheckpointInv

\* The variables the invariant speaks of, apart from the location.
protocolVars == <<step, modelStep, engine, ckptList, files, metaList>>

\* Producing, training and stopping only move the location.
LEMMA MovesKeep ==
  ASSUME CheckpointInv, UNCHANGED protocolVars,
         \/ pc' = pc
         \/ pc = "start" /\ pc' = "produce" /\ step \in Steps
         \/ pc = "produce" /\ pc' = "train"
         \/ pc = "train" /\ pc' = "sync"
         \/ pc = "train" /\ pc' = "save_loaders" /\ step % SyncInterval = 0
         \/ pc = "start" /\ pc' = "done"
  PROVE  CheckpointInv'
  <1> USE DEF CheckpointInv, protocolVars
  <1>1. CheckpointTypes'
    BY DEF CheckpointTypes, Locations, Saving
  <1>2. ListsAgree'
    <2>1. \A i \in 1 .. Len(metaList) : metaList[i] \in Nat
      BY DEF CheckpointTypes, Steps
    <2>2. (Ordered(ckptList) /\ Ordered(metaList))'
      BY DEF ListsAgree, Ordered
    <2> QED BY <2>1, <2>2 DEF ListsAgree, CheckpointTypes, Saving
  <1>3. FilesInTurn'
    BY DEF FilesInTurn
  <1>4. LabelsAgree'
    BY DEF LabelsAgree, Saving
  <1>5. RestartsWhole'
    BY DEF RestartsWhole, LatestIsWhole, Latest, Last
  <1> QED BY <1>1, <1>2, <1>3, <1>4, <1>5

\* Writing one file in its turn.
LEMMA WritesKeep ==
  ASSUME CheckpointInv, NEW file \in Files, NEW at \in Saving, NEW next \in Saving,
         Writes(at, file, next),
         \/ at = "save_loaders" /\ file = "dataloader" /\ next = "save_buffer"
         \/ at = "save_buffer" /\ file = "replay_buffer" /\ next = "save_manager"
         \/ at = "save_manager" /\ file = "manager_state" /\ next = "save_weights"
         \/ at = "save_weights" /\ file = "weights" /\ next = "save_state"
         \/ at = "save_state" /\ file = "train_state" /\ next = "list"
  PROVE  CheckpointInv'
  <1> USE DEF CheckpointInv
  <1>1. /\ pc = at /\ pc' = next
        /\ files' = [files EXCEPT ![step] = @ \cup {file}]
        /\ UNCHANGED <<step, modelStep, engine, ckptList, metaList>>
    BY DEF Writes, loopVars, metaVars
  <1>2. step \in Steps /\ files \in [Steps -> SUBSET Files]
    BY <1>1 DEF CheckpointTypes
  <1>3. /\ files' \in [Steps -> SUBSET Files]
        /\ files'[step] = files[step] \cup {file}
        /\ \A s \in Steps : files[s] \subseteq files'[s]
    BY <1>1, <1>2
  <1>4. CheckpointTypes'
    BY <1>1, <1>3 DEF CheckpointTypes, Locations
  <1>5. ListsAgree'
    <2>1. (Ordered(ckptList) /\ Ordered(metaList))'
      BY <1>1 DEF ListsAgree, Ordered
    <2> QED BY <1>1, <2>1 DEF ListsAgree, Saving
  <1>6. FilesInTurn'
    BY <1>1, <1>3 DEF FilesInTurn
  <1>7. LabelsAgree'
    BY <1>1 DEF LabelsAgree, Saving
  <1>8. RestartsWhole'
    <2> SUFFICES ASSUME MaxKeep # 1, metaList # <<>> PROVE files'[Last(metaList)] = Files
      BY <1>1 DEF RestartsWhole, LatestIsWhole, Latest, Last
    <2>1. Last(metaList) \in Steps
      BY DEF CheckpointTypes, Last
    <2>2. files[Last(metaList)] = Files
      BY <2>1 DEF RestartsWhole, LatestIsWhole, Latest, Steps
    <2> QED BY <1>3, <2>1, <2>2
  <1> QED BY <1>4, <1>5, <1>6, <1>7, <1>8

\* The new checkpoint is listed and what falls out of the list is deleted: the
\* one a restart would read, still the one before, is not.
LEMMA ListKeeps == CheckpointInv /\ ListAndPrune => CheckpointInv'
  <1> SUFFICES ASSUME CheckpointInv, ListAndPrune PROVE CheckpointInv'
    OBVIOUS
  <1> USE DEF CheckpointInv
  <1> DEFINE all == Append(ckptList, step)
  <1>1. /\ pc = "list" /\ pc' = "open_meta"
        /\ ckptList' = KeptOf(all)
        /\ files' = [s \in Steps |-> IF s \in PrunedOf(all) THEN {} ELSE files[s]]
        /\ UNCHANGED <<step, modelStep, engine, metaList>>
    BY DEF ListAndPrune, loopVars, metaVars
  <1>2. /\ step \in Steps /\ ckptList \in Seq(Steps) /\ Ordered(ckptList)
        /\ metaList = ckptList /\ step % SyncInterval = 0
        /\ \A i \in 1 .. Len(ckptList) : ckptList[i] < step
    BY <1>1 DEF CheckpointTypes, ListsAgree, LabelsAgree, Saving
  <1>3. /\ all \in Seq(Steps) /\ Ordered(all) /\ all # <<>> /\ Last(all) = step
        /\ Len(all) = Len(ckptList) + 1
        /\ \A i \in 1 .. Len(ckptList) : all[i] = ckptList[i]
    BY <1>2, ListedOrder
  <1> HIDE DEF all
  <1>4. Len(ckptList) \in Nat
    BY <1>2
  <1>5. /\ KeptOf(all) \in Seq(Steps) /\ Ordered(KeptOf(all))
        /\ KeptOf(all) # <<>> /\ Last(KeptOf(all)) = step
    BY <1>3, KeptOrder
  <1>6. files' \in [Steps -> SUBSET Files] /\ files'[step] = Files
    <2>1. step \notin PrunedOf(all)
      <3>1. Len(all) \in 1 .. Len(all)
        BY <1>3, <1>4
      <3>2. all[Len(all)] = step
        BY <1>3 DEF Last
      <3>3. all[Len(all)] \notin PrunedOf(all)
        BY <1>3, <1>4, <3>1, LastTwoStay
      <3> QED BY <3>2, <3>3
    <2>2. files[step] = Files
      BY <1>1, <1>2 DEF FilesInTurn, CheckpointTypes, Files
    <2>3. \A s \in Steps : files'[s] = IF s \in PrunedOf(all) THEN {} ELSE files[s]
      BY <1>1
    <2>4. files' \in [Steps -> SUBSET Files]
      BY <1>1 DEF CheckpointTypes
    <2> QED BY <1>2, <2>1, <2>2, <2>3, <2>4
  <1>7. CheckpointTypes'
    BY <1>1, <1>5, <1>6 DEF CheckpointTypes, Locations, Saving
  <1>8. ListsAgree'
    <2>1. (Ordered(ckptList) /\ Ordered(metaList))'
      BY <1>1, <1>2, <1>5 DEF Ordered
    <2>2. Last(ckptList') = step
      BY <1>1, <1>5
    <2>3. (Last(ckptList))' = step
      BY <2>2 DEF Last
    <2> QED BY <1>1, <1>5, <1>6, <2>1, <2>3 DEF ListsAgree, Saving
  <1>9. FilesInTurn' /\ LabelsAgree'
    BY <1>1 DEF FilesInTurn, LabelsAgree, Saving
  <1>10. RestartsWhole'
    <2> SUFFICES ASSUME MaxKeep # 1, metaList # <<>> PROVE files'[Last(metaList)] = Files
      BY <1>1 DEF RestartsWhole, LatestIsWhole, Latest, Last
    <2> DEFINE n == Len(ckptList)
    <2>1. n \in 1 .. Len(all) /\ n >= Len(all) - 1 /\ n \in 1 .. Len(ckptList)
      BY <1>2, <1>3, <1>4
    <2>2. all[n] = Last(metaList) /\ Last(metaList) \in Steps
      BY <1>2, <1>3, <2>1 DEF Last
    <2>3. Last(metaList) \notin PrunedOf(all)
      BY <1>3, <2>1, <2>2, LastTwoStay
    <2>4. files[Last(metaList)] = Files
      BY <2>2 DEF RestartsWhole, LatestIsWhole, Latest, Steps
    <2> QED BY <1>1, <2>2, <2>3, <2>4
  <1> QED BY <1>7, <1>8, <1>9, <1>10

\* Opening the meta file changes nothing that the invariant speaks of but the
\* location.
LEMMA OpenKeeps == CheckpointInv /\ OpenMeta => CheckpointInv'
  <1> SUFFICES ASSUME CheckpointInv, OpenMeta PROVE CheckpointInv'
    OBVIOUS
  <1> USE DEF CheckpointInv
  <1>1. /\ pc = "open_meta" /\ pc' = "write_meta"
        /\ UNCHANGED <<step, modelStep, engine, ckptList, files, metaList>>
    BY DEF OpenMeta, loopVars, dirVars
  <1>2. CheckpointTypes'
    BY <1>1 DEF CheckpointTypes, Locations, Saving
  <1>3. ListsAgree'
    BY <1>1 DEF ListsAgree, Ordered, Saving, Last
  <1>4. FilesInTurn' /\ LabelsAgree'
    BY <1>1 DEF FilesInTurn, LabelsAgree, Saving
  <1>5. RestartsWhole'
    BY <1>1 DEF RestartsWhole, LatestIsWhole, Latest, Last
  <1> QED BY <1>2, <1>3, <1>4, <1>5

\* From here on a restart reads the new checkpoint, and its files are there.
LEMMA WriteKeeps == CheckpointInv /\ WriteMeta => CheckpointInv'
  <1> SUFFICES ASSUME CheckpointInv, WriteMeta PROVE CheckpointInv'
    OBVIOUS
  <1> USE DEF CheckpointInv
  <1>1. /\ pc = "write_meta" /\ pc' = "sync" /\ metaList' = ckptList
        /\ UNCHANGED <<step, modelStep, engine, ckptList, files>>
    BY DEF WriteMeta, loopVars, dirVars
  <1>2. /\ step \in Steps /\ ckptList \in Seq(Steps) /\ Ordered(ckptList)
        /\ ckptList # <<>> /\ Last(ckptList) = step /\ files[step] = Files
    BY <1>1 DEF CheckpointTypes, ListsAgree, Saving
  <1>3. CheckpointTypes'
    BY <1>1, <1>2 DEF CheckpointTypes, Locations, Saving
  <1>4. \A i \in 1 .. Len(ckptList) : ckptList[i] <= step
    <2> TAKE i \in 1 .. Len(ckptList)
    <2>1. Len(ckptList) \in 1 .. Len(ckptList) /\ ckptList[Len(ckptList)] = step
      BY <1>2 DEF Last
    <2>2. i < Len(ckptList) => ckptList[i] < step
      BY <1>2, <2>1 DEF Ordered
    <2>3. i = Len(ckptList) \/ i < Len(ckptList)
      BY <2>1
    <2> QED BY <1>2, <2>1, <2>2, <2>3 DEF Steps
  <1>5. ListsAgree'
    <2>1. (Ordered(ckptList) /\ Ordered(metaList))'
      BY <1>1, <1>2 DEF Ordered
    <2> QED BY <1>1, <1>4, <2>1 DEF ListsAgree, Saving
  <1>6. FilesInTurn' /\ LabelsAgree'
    BY <1>1 DEF FilesInTurn, LabelsAgree, Saving
  <1>7. RestartsWhole'
    BY <1>1, <1>2 DEF RestartsWhole, LatestIsWhole, Latest, Last
  <1> QED BY <1>3, <1>5, <1>6, <1>7

\* The weights are synchronised on the multiples of the interval, and there the
\* label and the engine move together.
LEMMA SyncKeeps == CheckpointInv /\ SyncWeights => CheckpointInv'
  <1> SUFFICES ASSUME CheckpointInv, SyncWeights PROVE CheckpointInv'
    OBVIOUS
  <1> USE DEF CheckpointInv
  <1>1. /\ pc = "sync" /\ pc' = "start" /\ step' = step + 1
        /\ UNCHANGED <<ckptList, files, metaList>>
        /\ IF step % SyncInterval = 0
           THEN engine' = step /\ modelStep' = step
           ELSE engine' = engine /\ modelStep' = modelStep
    BY DEF SyncWeights, dirVars, metaVars
  <1>2. /\ step \in Steps /\ step \in Nat \ {0}
        /\ modelStep = engine /\ engine = (step - 1) - ((step - 1) % SyncInterval)
        /\ modelStep \in 0 .. TotalSteps
    BY <1>1 DEF CheckpointTypes, LabelsAgree, Steps
  <1>3. CheckpointTypes'
    <2>1. step' \in 1 .. TotalSteps + 1 /\ step \in 0 .. TotalSteps
      BY <1>1, <1>2 DEF Steps
    <2>2. modelStep' \in 0 .. TotalSteps /\ engine' \in 0 .. TotalSteps
      BY <1>1, <1>2, <2>1
    <2> QED BY <1>1, <2>1, <2>2 DEF CheckpointTypes, Locations, Saving
  <1>4. ListsAgree'
    <2>1. \A i \in 1 .. Len(metaList) : metaList[i] \in Nat
      BY DEF CheckpointTypes, Steps
    <2>2. (Ordered(ckptList) /\ Ordered(metaList))'
      BY <1>1 DEF ListsAgree, Ordered
    <2> QED BY <1>1, <1>2, <2>1, <2>2 DEF ListsAgree, Saving
  <1>5. FilesInTurn'
    BY <1>1 DEF FilesInTurn
  <1>6. LabelsAgree'
    <2>1. modelStep' = engine' /\ engine' = step - (step % SyncInterval)
      <3>1. CASE step % SyncInterval = 0
        BY <1>1, <1>2, <3>1
      <3>2. CASE step % SyncInterval # 0
        <4>1. step - 1 \in Nat /\ (step - 1) + 1 = step
          BY <1>2
        <4>2. step - (step % SyncInterval) = (step - 1) - ((step - 1) % SyncInterval)
          BY <3>2, <4>1, SameMultiple
        <4> QED BY <1>1, <1>2, <3>2, <4>2
      <3> QED BY <3>1, <3>2
    <2>2. step' - 1 = step
      BY <1>1, <1>2
    <2> QED BY <1>1, <2>1, <2>2 DEF LabelsAgree, Saving
  <1>7. RestartsWhole'
    BY <1>1 DEF RestartsWhole, LatestIsWhole, Latest, Last
  <1> QED BY <1>3, <1>4, <1>5, <1>6, <1>7

\* Whatever a crash interrupts, the disk is as it was and the memory is gone.
LEMMA CrashKeeps == CheckpointInv /\ Crash => CheckpointInv'
  <1> SUFFICES ASSUME CheckpointInv, Crash PROVE CheckpointInv'
    OBVIOUS
  <1> USE DEF CheckpointInv
  <1>1. /\ pc' = "crashed" /\ step' = 1 /\ modelStep' = 0 /\ engine' = 0
        /\ ckptList' = <<>>
        /\ UNCHANGED <<files, metaList>>
    BY DEF Crash, dirVars, metaVars
  <1>2. <<>> \in Seq(Steps) /\ Len(<<>>) = 0
    OBVIOUS
  <1>3. CheckpointTypes'
    BY <1>1, <1>2 DEF CheckpointTypes, Locations, Saving, Steps
  <1>4. ListsAgree'
    BY <1>1, <1>2 DEF ListsAgree, Ordered, Saving
  <1>5. FilesInTurn' /\ LabelsAgree'
    BY <1>1 DEF FilesInTurn, LabelsAgree, Saving
  <1>6. RestartsWhole'
    BY <1>1 DEF RestartsWhole, LatestIsWhole, Latest, Last
  <1> QED BY <1>3, <1>4, <1>5, <1>6

\* A run that starts over starts as Init does.
LEMMA StartOverKeeps == CheckpointInv /\ StartOver => CheckpointInv'
  <1> SUFFICES ASSUME CheckpointInv, StartOver PROVE CheckpointInv'
    OBVIOUS
  <1> USE DEF CheckpointInv
  <1>1. /\ pc = "crashed" /\ pc' = "start" /\ metaList = <<>>
        /\ files' = [s \in Steps |-> {}]
        /\ UNCHANGED <<step, modelStep, engine, ckptList, metaList>>
    <2>1. \A i \in 1 .. Len(metaList) : metaList[i] # 0
      BY DEF CheckpointTypes, Steps
    <2>2. metaList # <<>> => Last(metaList) # 0
      BY <2>1 DEF CheckpointTypes, Last
    <2> QED BY <2>2 DEF StartOver, Latest, loopVars, metaVars
  <1>2. step = 1 /\ modelStep = 0 /\ engine = 0 /\ ckptList = <<>> /\ Len(<<>>) = 0
    BY <1>1 DEF LabelsAgree, ListsAgree
  <1>3. CheckpointTypes'
    BY <1>1, <1>2 DEF CheckpointTypes, Locations, Saving
  <1>4. ListsAgree'
    BY <1>1, <1>2 DEF ListsAgree, Ordered, Saving
  <1>5. FilesInTurn'
    BY <1>1 DEF FilesInTurn
  <1>6. LabelsAgree'
    <2>1. 0 % SyncInterval = 0
      BY Division
    <2> QED BY <1>1, <1>2, <2>1 DEF LabelsAgree, Saving
  <1>7. RestartsWhole'
    BY <1>1 DEF RestartsWhole, LatestIsWhole, Latest
  <1> QED BY <1>3, <1>4, <1>5, <1>6, <1>7

\* A resumed run continues with the step after the checkpoint, whose weights the
\* engine gets and whose step, a multiple of the interval, is the label.
LEMMA ResumeKeeps == CheckpointInv /\ Resume => CheckpointInv'
  <1> SUFFICES ASSUME CheckpointInv, Resume PROVE CheckpointInv'
    OBVIOUS
  <1> USE DEF CheckpointInv
  <1>1. /\ pc = "crashed" /\ pc' = "start" /\ Latest # 0
        /\ step' = Latest + 1 /\ modelStep' = Latest - (Latest % SyncInterval)
        /\ engine' = Latest /\ ckptList' = metaList
        /\ UNCHANGED <<files, metaList>>
    BY DEF Resume, dirVars, metaVars
  <1>2. /\ metaList \in Seq(Steps) /\ metaList # <<>> /\ Ordered(metaList)
        /\ Latest = metaList[Len(metaList)]
    BY <1>1 DEF Latest, Last, CheckpointTypes, ListsAgree
  <1>3. Len(metaList) \in 1 .. Len(metaList) /\ Latest \in Steps
    BY <1>2
  <1>4. Latest % SyncInterval = 0
    BY <1>2, <1>3 DEF Ordered
  <1>5. Latest \in 0 .. TotalSteps /\ Latest \in Nat
    BY <1>3 DEF Steps
  <1>6. CheckpointTypes'
    <2>1. step' \in 1 .. TotalSteps + 1
      BY <1>1, <1>5
    <2>2. modelStep' \in 0 .. TotalSteps /\ engine' \in 0 .. TotalSteps
      BY <1>1, <1>4, <1>5
    <2> QED BY <1>1, <1>2, <2>1, <2>2 DEF CheckpointTypes, Locations, Saving
  <1>7. ListsAgree'
    <2>1. \A i \in 1 .. Len(metaList) : metaList[i] < Latest + 1
      <3> TAKE i \in 1 .. Len(metaList)
      <3>1. i < Len(metaList) => metaList[i] < Latest
        BY <1>2, <1>3 DEF Ordered
      <3>2. i = Len(metaList) \/ i < Len(metaList)
        BY <1>3
      <3>3. metaList[i] \in Nat
        BY <1>2 DEF Steps
      <3> QED BY <1>2, <1>5, <3>1, <3>2, <3>3
    <2>2. (Ordered(ckptList) /\ Ordered(metaList))'
      BY <1>1, <1>2 DEF Ordered
    <2> QED BY <1>1, <2>1, <2>2 DEF ListsAgree, Saving
  <1>8. FilesInTurn'
    BY <1>1 DEF FilesInTurn
  <1>9. LabelsAgree'
    <2>1. step' - 1 = Latest
      BY <1>1, <1>5
    <2> QED BY <1>1, <1>4, <1>5, <2>1 DEF LabelsAgree, Saving
  <1>10. RestartsWhole'
    BY <1>1 DEF RestartsWhole, LatestIsWhole, Latest, Last
  <1> QED BY <1>6, <1>7, <1>8, <1>9, <1>10

\* Every step of the program keeps the invariant.
LEMMA NextCheckpoint == CheckpointInv /\ [Next]_vars => CheckpointInv'
  <1> SUFFICES ASSUME CheckpointInv, [Next]_vars PROVE CheckpointInv'
    OBVIOUS
  <1> USE DEF protocolVars
  <1>1. CASE StartBatch
    <2>1. step \in Steps
      BY <1>1 DEF StartBatch, CheckpointInv, CheckpointTypes, Steps
    <2> QED BY <1>1, <2>1, MovesKeep DEF StartBatch, dirVars, metaVars
  <1>2. ASSUME NEW t \in Tasks, CollectResults(t) PROVE CheckpointInv'
    <2>1. UNCHANGED <<step, modelStep, engine, ckptList, pc, files, metaList>>
      BY <1>2 DEF CollectResults, dirVars, metaVars
    <2> QED BY <2>1, MovesKeep
  <1>3. CASE TakeBatch
    BY <1>3, MovesKeep DEF TakeBatch, dirVars, metaVars
  <1>4. CASE StopTraining
    BY <1>4, MovesKeep DEF StopTraining, loopVars, dirVars, metaVars
  <1>5. CASE TrainOneBatch
    <2>1. SaveDue => step % SyncInterval = 0
      <3>1. step \in Nat
        BY DEF CheckpointInv, CheckpointTypes
      <3> QED BY <3>1, SaveSynchronises DEF SaveDue
    <2>2. /\ pc = "train" /\ pc' = IF SaveDue THEN "save_loaders" ELSE "sync"
          /\ UNCHANGED protocolVars
      BY <1>5 DEF TrainOneBatch, dirVars, metaVars
    <2> QED BY <2>1, <2>2, MovesKeep
  <1>6. CASE SaveLoaders
    BY <1>6, WritesKeep DEF SaveLoaders, Files, Saving
  <1>7. CASE SaveBuffer
    BY <1>7, WritesKeep DEF SaveBuffer, Files, Saving
  <1>8. CASE SaveManagerState
    BY <1>8, WritesKeep DEF SaveManagerState, Files, Saving
  <1>9. CASE SaveWeights
    BY <1>9, WritesKeep DEF SaveWeights, Files, Saving
  <1>10. CASE SaveTrainState
    BY <1>10, WritesKeep DEF SaveTrainState, Files, Saving
  <1>11. CASE UNCHANGED vars
    BY <1>11, MovesKeep DEF vars, loopVars, dirVars, metaVars
  <1>12. CASE Terminated
    BY <1>12, <1>11 DEF Terminated
  <1> QED
    BY <1>1, <1>2, <1>3, <1>4, <1>5, <1>6, <1>7, <1>8, <1>9, <1>10, <1>11, <1>12,
       ListKeeps, OpenKeeps, WriteKeeps, SyncKeeps, CrashKeeps, StartOverKeeps, ResumeKeeps
    DEF Next, Progress, Produce, Save, Restart

-----------------------------------------------------------------------------
(***************************************************************************)
(* The theorems.                                                           *)
(***************************************************************************)
\* What a save that is interrupted anywhere leaves behind.
THEOREM CheckpointProtocol == Spec => []CheckpointInv
  <1> QED BY InitCheckpoint, NextCheckpoint, PTL DEF Spec

\* A restart finds the checkpoint that the meta file names, with all its files.
THEOREM RestartsAreWhole == ASSUME MaxKeep # 1 PROVE Spec => []LatestIsWhole
  <1>1. CheckpointInv => LatestIsWhole
    BY DEF CheckpointInv, RestartsWhole
  <1> QED BY <1>1, CheckpointProtocol, PTL

\* Groups are labelled with the step of the weights that generate them, and
\* those are the last synchronised ones, also right after a restart.
THEOREM LabelsAreExact == Spec => []LabelIsEngine
  <1>1. CheckpointInv => LabelIsEngine
    BY DEF CheckpointInv, LabelsAgree, LabelIsEngine
  <1> QED BY <1>1, CheckpointProtocol, PTL
-----------------------------------------------------------------------------
(***************************************************************************)
(* The directories on disk.  An experiment always works towards the        *)
(* checkpoint one interval after the listed one, so what an interrupted    *)
(* save leaves behind is written again by the next.  As long as nothing is *)
(* listed that checkpoint is the only one there is, and it is what a stop  *)
(* leaves behind for ever, since the restart opens another experiment.     *)
(***************************************************************************)
Listed(l) == {l[i] : i \in 1 .. Len(l)}

\* Where the run stands between the listed checkpoint and the next one.
DueInv ==
  IF CheckpointInterval = 0
  THEN pc \notin Saving /\ metaList = <<>> /\ Directories = {}
  ELSE /\ Latest % CheckpointInterval = 0
       /\ pc \in {"start", "produce", "train"} =>
            Latest < step /\ step <= Latest + CheckpointInterval
       /\ pc \in Saving => step = Latest + CheckpointInterval
       /\ pc = "sync" => Latest <= step /\ step < Latest + CheckpointInterval

DiskInv ==
  /\ MaxKeep > 0 => Len(metaList) <= MaxKeep /\ Len(ckptList) <= MaxKeep
  /\ Directories \subseteq Listed(metaList) \cup {Latest + CheckpointInterval}
  /\ pc \in {"open_meta", "write_meta"} => Directories \subseteq Listed(ckptList)

\* Every directory that a new experiment leaves behind is paid for by the stop
\* before it; while the process is down, that stop has not been used yet.
AbandonedInv ==
  /\ abandoned \in Nat /\ crashes \in Nat
  /\ IF pc = "crashed" THEN abandoned < crashes ELSE abandoned <= crashes

\* The next multiple of the interval.
LEMMA NextMultiple ==
  ASSUME NEW d \in Nat \ {0}, NEW a \in Nat, a % d = 0
  PROVE  /\ (a + d) % d = 0
         /\ \A b \in Nat : b % d = 0 /\ a < b /\ b <= a + d => b = a + d
  <1> DEFINE p == a \div d
  <1>1. p \in Nat /\ a = d * p
    BY Division
  <1> HIDE DEF p
  <1>2. a + d = d * (p + 1) + 0
    BY <1>1
  <1>3. (d * (p + 1) + 0) % d = 0
    BY <1>1, RemainderUnique
  <1>4. ASSUME NEW b \in Nat, b % d = 0, a < b, b <= a + d
        PROVE  b = a + d
    <2> DEFINE q == b \div d
    <2>1. q \in Nat /\ b = d * q
      BY <1>4, Division
    <2> HIDE DEF q
    <2>2. q >= p + 1
      <3> SUFFICES ASSUME q <= p PROVE FALSE
        BY <1>1, <2>1
      <3>1. d * (p - q) \in Nat /\ d * q \in Nat /\ d * p = d * q + d * (p - q)
        BY <1>1, <2>1
      <3> QED
        BY <1>1, <1>4, <2>1, <3>1
    <2>3. d * (q - p - 1) \in Nat /\ d * (p + 1) \in Nat
      BY <1>1, <2>1, <2>2
    <2>4. d * q = d * (p + 1) + d * (q - p - 1)
      BY <1>1, <2>1
    <2> QED
      BY <1>2, <1>4, <2>1, <2>3, <2>4
  <1> QED
    BY <1>2, <1>3, <1>4

LEMMA ListedSize ==
  ASSUME NEW l \in Seq(Steps)
  PROVE  /\ Listed(l) \subseteq Steps /\ IsFiniteSet(Listed(l))
         /\ Cardinality(Listed(l)) <= Len(l)
  <1> DEFINE I == 1 .. Len(l)
             f == [i \in I |-> l[i]]
  <1>1. Len(l) \in Nat /\ \A i \in I : l[i] \in Steps
    OBVIOUS
  <1>2. IsFiniteSet(I) /\ Cardinality(I) = Len(l)
    <2>1. \A n \in Nat : IsFiniteSet(1 .. n) /\ Cardinality(1 .. n) = n
      BY FS_Interval
    <2> QED
      BY <1>1, <2>1
  <1>3. f \in Surjection(I, Listed(l))
    <2>1. f \in [I -> Listed(l)] /\ \A x \in Listed(l) : \E i \in I : f[i] = x
      BY DEF Listed
    <2> HIDE DEF f, I
    <2> QED
      BY <2>1 DEF Surjection
  <1>4. Listed(l) \subseteq Steps
    BY <1>1 DEF Listed
  <1> HIDE DEF I, f
  <1> QED
    BY <1>2, <1>3, <1>4, FS_Surjection

\* What a list keeps and what it drops.
LEMMA KeptListed ==
  ASSUME NEW l \in Seq(Steps)
  PROVE  /\ Listed(KeptOf(l)) \subseteq Listed(l)
         /\ Listed(l) \subseteq Listed(KeptOf(l)) \cup PrunedOf(l)
         /\ MaxKeep > 0 => Len(KeptOf(l)) <= MaxKeep
  <1>1. Len(l) \in Nat
    OBVIOUS
  <1>2. CASE ~ (MaxKeep > 0 /\ Len(l) > MaxKeep)
    BY <1>1, <1>2 DEF KeptOf
  <1>3. CASE MaxKeep > 0 /\ Len(l) > MaxKeep
    <2> DEFINE m == Len(l) - MaxKeep + 1
               k == SubSeq(l, m, Len(l))
    <2>1. KeptOf(l) = k /\ PrunedOf(l) = {l[i] : i \in 1 .. m - 1} /\ m \in 1 .. Len(l)
      <3>1. m - 1 = Len(l) - MaxKeep /\ m \in 1 .. Len(l)
        BY <1>1, <1>3
      <3>2. KeptOf(l) = k /\ PrunedOf(l) = {l[i] : i \in 1 .. Len(l) - MaxKeep}
        BY <1>3 DEF KeptOf, PrunedOf
      <3> HIDE DEF m
      <3> QED
        BY <3>1, <3>2
    <2>2. Len(k) = MaxKeep /\ \A i \in 1 .. MaxKeep : k[i] = l[m + i - 1]
      <3>1. \A i \in m .. Len(l) : l[i] \in Steps
        BY <2>1
      <3> HIDE DEF m
      <3>2. /\ Len(k) = IF m <= Len(l) THEN Len(l) - m + 1 ELSE 0
            /\ \A i \in 1 .. Len(l) - m + 1 : k[i] = l[m + i - 1]
        BY <1>1, <2>1, <3>1, SubSeqProperties
      <3> QED
        BY <1>1, <2>1, <3>2 DEF m
    <2> HIDE DEF k
    <2>3. Listed(k) \subseteq Listed(l)
      <3>1. \A i \in 1 .. MaxKeep : m + i - 1 \in 1 .. Len(l)
        BY <1>1, <1>3
      <3>2. \A i \in 1 .. Len(k) : k[i] = l[m + i - 1] /\ m + i - 1 \in 1 .. Len(l)
        BY <2>2, <3>1
      <3> HIDE DEF m
      <3> SUFFICES ASSUME NEW i \in 1 .. Len(k) PROVE k[i] \in Listed(l)
        BY DEF Listed
      <3>3. m + i - 1 \in 1 .. Len(l) /\ k[i] = l[m + i - 1]
        BY <3>2
      <3> QED
        BY <3>3 DEF Listed
    <2>4. Listed(l) \subseteq Listed(k) \cup PrunedOf(l)
      <3> SUFFICES ASSUME NEW i \in 1 .. Len(l)
                   PROVE  l[i] \in Listed(k) \cup PrunedOf(l)
        BY DEF Listed
      <3>1. CASE i < m
        BY <1>1, <2>1, <3>1
      <3>2. CASE i >= m
        <4>1. i - m + 1 \in 1 .. MaxKeep /\ m + (i - m + 1) - 1 = i
          BY <1>1, <1>3, <2>1, <3>2
        <4>2. k[i - m + 1] = l[i]
          BY <2>2, <4>1
        <4> QED
          BY <2>2, <4>1, <4>2 DEF Listed
      <3> QED
        BY <1>1, <2>1, <3>1, <3>2
    <2> QED
      BY <2>1, <2>2, <2>3, <2>4
  <1> QED
    BY <1>2, <1>3

LEMMA LatestType ==
  ASSUME CheckpointInv
  PROVE  Latest \in 0 .. TotalSteps /\ step \in Nat
  <1>1. metaList \in Seq(Steps) /\ step \in Nat
    BY DEF CheckpointInv, CheckpointTypes
  <1>2. metaList # <<>> => Latest = metaList[Len(metaList)] /\ Len(metaList) \in 1 .. Len(metaList)
    BY <1>1 DEF Latest, Last
  <1> QED
    BY <1>1, <1>2 DEF Latest, Steps

\* What moves the run between two checkpoints.
LEMMA DueMoves ==
  ASSUME CheckpointInv, DueInv, DiskInv, UNCHANGED <<files, metaList, ckptList>>,
         \/ step' = step /\ pc' = pc
         \/ step' = step /\ pc = "start" /\ pc' = "produce"
         \/ step' = step /\ pc = "produce" /\ pc' = "train"
         \/ step' = step /\ pc = "train" /\ SaveDue /\ pc' = "save_loaders"
         \/ step' = step /\ pc = "train" /\ ~SaveDue /\ pc' = "sync"
         \/ step' = step /\ pc = "open_meta" /\ pc' = "write_meta"
         \/ step' = step + 1 /\ pc = "sync" /\ pc' = "start"
         \/ pc' = "done"
  PROVE  DueInv' /\ DiskInv'
  <1>1. /\ Directories' = Directories /\ Latest' = Latest
        /\ Listed(metaList)' = Listed(metaList) /\ Listed(ckptList)' = Listed(ckptList)
    BY DEF Directories, Latest, Last, Listed
  <1>2. /\ Latest \in Nat /\ step \in Nat
    BY LatestType
  <1>3. DueInv'
    <2>1. CASE CheckpointInterval = 0
      BY <1>1, <2>1 DEF DueInv, Saving, SaveDue
    <2>2. CASE CheckpointInterval # 0
      <3>1. /\ Latest % CheckpointInterval = 0
            /\ pc \in {"start", "produce", "train"} =>
                 Latest < step /\ step <= Latest + CheckpointInterval
            /\ pc \in Saving => step = Latest + CheckpointInterval
            /\ pc = "sync" => Latest <= step /\ step < Latest + CheckpointInterval
        BY <2>2 DEF DueInv
      <3>2. pc = "train" => IF SaveDue THEN step = Latest + CheckpointInterval
                                       ELSE step < Latest + CheckpointInterval
        <4> SUFFICES ASSUME pc = "train"
                     PROVE  IF SaveDue THEN step = Latest + CheckpointInterval
                                       ELSE step < Latest + CheckpointInterval
          OBVIOUS
        <4>1. Latest < step /\ step <= Latest + CheckpointInterval
          BY <3>1
        <4>2. /\ (Latest + CheckpointInterval) % CheckpointInterval = 0
              /\ step % CheckpointInterval = 0 => step = Latest + CheckpointInterval
          BY <1>2, <2>2, <3>1, <4>1, NextMultiple
        <4>3. step # Latest + CheckpointInterval => step < Latest + CheckpointInterval
          BY <1>2, <4>1
        <4> QED
          BY <2>2, <4>2, <4>3 DEF SaveDue
      <3> QED
        BY <1>1, <1>2, <2>2, <3>1, <3>2 DEF DueInv, Saving
    <2> QED
      BY <2>1, <2>2
  <1>4. DiskInv'
    BY <1>1 DEF DiskInv
  <1> QED
    BY <1>3, <1>4

\* One file more in the directory of the step.
LEMMA DueWrites ==
  ASSUME CheckpointInv, DueInv, DiskInv, NEW file, NEW at \in Saving \ {"open_meta", "write_meta"},
         NEW next \in Saving \ {"open_meta", "write_meta"}, Writes(at, file, next)
  PROVE  DueInv' /\ DiskInv'
  <1>1. /\ pc = at /\ pc' = next /\ step' = step /\ step \in Steps
        /\ files \in [Steps -> SUBSET Files]
        /\ files' = [files EXCEPT ![step] = @ \cup {file}]
        /\ UNCHANGED <<metaList, ckptList>>
    BY DEF Writes, loopVars, metaVars, CheckpointInv, CheckpointTypes
  <1>2. CheckpointInterval # 0 /\ step = Latest + CheckpointInterval
    BY <1>1 DEF DueInv
  <1>3. Latest' = Latest /\ Listed(metaList)' = Listed(metaList) /\ pc' \in Saving
    BY <1>1 DEF Latest, Last, Listed
  <1>4. Directories' \subseteq Directories \cup {step}
    BY <1>1 DEF Directories
  <1>5. DueInv'
    BY <1>1, <1>2, <1>3 DEF DueInv, Saving
  <1>6. DiskInv'
    BY <1>1, <1>2, <1>3, <1>4 DEF DiskInv
  <1> QED
    BY <1>5, <1>6

LEMMA DueLists ==
  ASSUME CheckpointInv, DueInv, DiskInv, ListAndPrune
  PROVE  DueInv' /\ DiskInv'
  <1> DEFINE all == Append(ckptList, step)
  <1>1. /\ pc = "list" /\ pc' = "open_meta" /\ step' = step /\ metaList' = metaList
        /\ ckptList' = KeptOf(all)
        /\ files' = [s \in Steps |-> IF s \in PrunedOf(all) THEN {} ELSE files[s]]
    BY DEF ListAndPrune, loopVars, metaVars
  <1>2. /\ ckptList \in Seq(Steps) /\ step \in Steps /\ metaList = ckptList
    BY <1>1 DEF CheckpointInv, CheckpointTypes, ListsAgree, Saving
  <1>3. CheckpointInterval # 0 /\ step = Latest + CheckpointInterval
    BY <1>1 DEF DueInv, Saving
  <1>4. /\ all \in Seq(Steps) /\ Listed(all) = Listed(ckptList) \cup {step}
    <2>1. /\ all \in Seq(Steps) /\ Len(all) = Len(ckptList) + 1 /\ Len(ckptList) \in Nat
          /\ \A i \in 1 .. Len(ckptList) : all[i] = ckptList[i]
          /\ all[Len(ckptList) + 1] = step
      BY <1>2
    <2> HIDE DEF all
    <2>2. 1 .. Len(all) = (1 .. Len(ckptList)) \cup {Len(ckptList) + 1}
      BY <2>1
    <2> QED
      BY <2>1, <2>2 DEF Listed
  <1> HIDE DEF all
  <1>5. /\ Listed(KeptOf(all)) \subseteq Listed(all)
        /\ Listed(all) \subseteq Listed(KeptOf(all)) \cup PrunedOf(all)
        /\ MaxKeep > 0 => Len(KeptOf(all)) <= MaxKeep
    BY <1>4, KeptListed
  <1>6. Directories' \subseteq Directories \ PrunedOf(all)
    BY <1>1 DEF Directories
  <1>7. Directories \subseteq Listed(all)
    BY <1>2, <1>3, <1>4 DEF DiskInv
  <1>8. /\ Latest' = Latest /\ Listed(metaList)' = Listed(metaList)
        /\ Listed(ckptList)' = Listed(KeptOf(all))
    BY <1>1 DEF Latest, Last, Listed
  <1>9. DueInv'
    BY <1>1, <1>3, <1>8 DEF DueInv, Saving
  <1>10. DiskInv'
    <2>1. Directories' \subseteq Listed(ckptList)'
      BY <1>5, <1>6, <1>7, <1>8
    <2>2. Directories' \subseteq Listed(metaList)' \cup {Latest' + CheckpointInterval}
      BY <1>2, <1>3, <1>4, <1>6, <1>7, <1>8
    <2> QED
      BY <1>1, <1>5, <2>1, <2>2 DEF DiskInv
  <1> QED
    BY <1>9, <1>10

LEMMA DuePersists ==
  ASSUME CheckpointInv, DueInv, DiskInv, WriteMeta
  PROVE  DueInv' /\ DiskInv'
  <1>1. /\ pc = "write_meta" /\ pc' = "sync" /\ metaList' = ckptList
        /\ UNCHANGED <<step, files, ckptList>>
    BY DEF WriteMeta, loopVars, dirVars
  <1>2. /\ CheckpointInterval # 0 /\ step = Latest + CheckpointInterval
        /\ Latest % CheckpointInterval = 0 /\ Latest \in Nat
        /\ step % CheckpointInterval = 0
    <2>1. /\ CheckpointInterval # 0 /\ step = Latest + CheckpointInterval
          /\ Latest % CheckpointInterval = 0 /\ Latest \in Nat
      BY <1>1, LatestType DEF DueInv, Saving
    <2>2. (Latest + CheckpointInterval) % CheckpointInterval = 0
      BY <2>1, NextMultiple
    <2> QED
      BY <2>1, <2>2
  <1>3. Latest' = step
    BY <1>1 DEF Latest, Last, CheckpointInv, ListsAgree
  <1>4. DueInv'
    BY <1>1, <1>2, <1>3, LatestType DEF DueInv, Saving
  <1>5. DiskInv'
    BY <1>1 DEF DiskInv, Directories, Listed
  <1> QED
    BY <1>4, <1>5

LEMMA DueRestarts ==
  ASSUME CheckpointInv, DueInv, DiskInv, Crash \/ StartOver \/ Resume
  PROVE  DueInv' /\ DiskInv'
  <1>1. CASE Crash
    <2>1. /\ pc' = "crashed" /\ UNCHANGED <<files, metaList>> /\ ckptList' = <<>>
      BY <1>1 DEF Crash, dirVars, metaVars
    <2>2. /\ Directories' = Directories /\ Latest' = Latest
          /\ Listed(metaList)' = Listed(metaList) /\ Len(<<>>) = 0
      BY <2>1 DEF Directories, Latest, Last, Listed
    <2> QED
      BY <2>1, <2>2 DEF DueInv, DiskInv, Saving
  <1>2. CASE StartOver
    <2>1. /\ pc = "crashed" /\ pc' = "start" /\ UNCHANGED <<metaList, ckptList, step>>
          /\ files' = [s \in Steps |-> {}] /\ Latest = 0
      BY <1>2 DEF StartOver, loopVars, metaVars
    <2>2. /\ Directories' = {} /\ Latest' = 0
      BY <2>1 DEF Directories, Latest, Last
    <2>3. step = 1
      BY <2>1 DEF CheckpointInv, LabelsAgree
    <2> QED
      BY <2>1, <2>2, <2>3 DEF DueInv, DiskInv, Saving
  <1>3. CASE Resume
    <2>1. /\ pc = "crashed" /\ pc' = "start" /\ UNCHANGED <<metaList, files>>
          /\ ckptList' = metaList /\ step' = Latest + 1
      BY <1>3 DEF Resume, dirVars, metaVars
    <2>2. /\ Directories' = Directories /\ Latest' = Latest
          /\ Listed(metaList)' = Listed(metaList)
      BY <2>1 DEF Directories, Latest, Last, Listed
    <2> QED
      BY <2>1, <2>2, LatestType DEF DueInv, DiskInv, Saving
  <1> QED
    BY <1>1, <1>2, <1>3

LEMMA NextDue == CheckpointInv /\ DueInv /\ DiskInv /\ [Next]_vars => DueInv' /\ DiskInv'
  <1> SUFFICES ASSUME CheckpointInv, DueInv, DiskInv, [Next]_vars PROVE DueInv' /\ DiskInv'
    OBVIOUS
  <1>1. CASE \/ StartBatch \/ (\E t \in Tasks : CollectResults(t)) \/ TakeBatch \/ StopTraining
             \/ TrainOneBatch \/ OpenMeta \/ SyncWeights \/ Terminated \/ UNCHANGED vars
    <2>1. UNCHANGED <<files, metaList, ckptList>>
      BY <1>1 DEF StartBatch, CollectResults, TakeBatch, StopTraining, TrainOneBatch, OpenMeta,
                  SyncWeights, Terminated, vars, dirVars, metaVars
    <2>2. \/ step' = step /\ pc' = pc
          \/ step' = step /\ pc = "start" /\ pc' = "produce"
          \/ step' = step /\ pc = "produce" /\ pc' = "train"
          \/ step' = step /\ pc = "train" /\ SaveDue /\ pc' = "save_loaders"
          \/ step' = step /\ pc = "train" /\ ~SaveDue /\ pc' = "sync"
          \/ step' = step /\ pc = "open_meta" /\ pc' = "write_meta"
          \/ step' = step + 1 /\ pc = "sync" /\ pc' = "start"
          \/ pc' = "done"
      BY <1>1 DEF StartBatch, CollectResults, TakeBatch, StopTraining, TrainOneBatch, OpenMeta,
                  SyncWeights, Terminated, vars, loopVars
    <2> QED
      BY <2>1, <2>2, DueMoves
  <1>2. CASE SaveLoaders \/ SaveBuffer \/ SaveManagerState \/ SaveWeights \/ SaveTrainState
    BY <1>2, DueWrites DEF SaveLoaders, SaveBuffer, SaveManagerState, SaveWeights,
                           SaveTrainState, Saving
  <1> QED
    BY <1>1, <1>2, DueLists, DuePersists, DueRestarts
    DEF Next, Progress, Produce, Save, Restart

\* Before the first checkpoint is listed there is at most one directory.
LEMMA UnlistedIsOne ==
  ASSUME CheckpointInv, DueInv, DiskInv, Latest = 0
  PROVE  IsFiniteSet(Directories) /\ Cardinality(Directories) \in 0 .. 1
  <1>1. metaList = <<>>
    <2> SUFFICES ASSUME metaList # <<>> PROVE FALSE
      OBVIOUS
    <2>1. metaList \in Seq(Steps) /\ Latest = metaList[Len(metaList)]
      BY DEF CheckpointInv, CheckpointTypes, Latest, Last
    <2>2. Len(metaList) \in 1 .. Len(metaList)
      BY <2>1
    <2>3. Latest \in Steps
      BY <2>1, <2>2
    <2> QED
      BY <2>3 DEF Steps
  <1>2. Directories \subseteq {Latest + CheckpointInterval}
    <2>1. Listed(metaList) = {}
      BY <1>1 DEF Listed
    <2> QED
      BY <2>1 DEF DiskInv
  <1> DEFINE n == Latest + CheckpointInterval
  <1> HIDE DEF n
  <1>3. Directories = {} \/ Directories = {n}
    BY <1>2 DEF n
  <1>4. /\ IsFiniteSet({}) /\ Cardinality({}) = 0
        /\ IsFiniteSet({n}) /\ Cardinality({n}) = 1
    BY FS_EmptySet, FS_Singleton
  <1> QED
    BY <1>3, <1>4

\* Only a restart with nothing listed adds to what is abandoned.
LEMMA NextAbandoned ==
  CheckpointInv /\ DueInv /\ DiskInv /\ AbandonedInv /\ [Next]_vars => AbandonedInv'
  <1> SUFFICES ASSUME CheckpointInv, DueInv, DiskInv, AbandonedInv, [Next]_vars
               PROVE  AbandonedInv'
    OBVIOUS
  <1>1. CASE Crash
    <2>1. /\ pc # "crashed" /\ pc' = "crashed" /\ crashes' = crashes + 1
          /\ abandoned' = abandoned
      BY <1>1 DEF Crash, dirVars
    <2> QED
      BY <2>1 DEF AbandonedInv
  <1>2. CASE StartOver
    <2>1. /\ pc = "crashed" /\ pc' = "start" /\ Latest = 0 /\ crashes' = crashes
          /\ abandoned' = abandoned + Cardinality(Directories)
      BY <1>2 DEF StartOver, budgetVars
    <2>2. Cardinality(Directories) \in 0 .. 1
      BY <2>1, UnlistedIsOne
    <2> QED
      BY <2>1, <2>2 DEF AbandonedInv
  <1>3. CASE Resume
    <2>1. pc = "crashed" /\ pc' = "start" /\ UNCHANGED <<abandoned, crashes>>
      BY <1>3 DEF Resume, dirVars, budgetVars
    <2> QED
      BY <2>1 DEF AbandonedInv
  <1>4. CASE \/ Produce \/ TrainOneBatch \/ OpenMeta \/ WriteMeta \/ SyncWeights
             \/ StopTraining \/ Terminated \/ UNCHANGED vars
    <2>1. UNCHANGED <<abandoned, crashes>> /\ (pc' = pc \/ (pc # "crashed" /\ pc' # "crashed"))
      BY <1>4 DEF Produce, StartBatch, CollectResults, TakeBatch, TrainOneBatch, OpenMeta,
                  WriteMeta, SyncWeights, StopTraining, Terminated, vars, dirVars, budgetVars
    <2> QED
      BY <2>1 DEF AbandonedInv
  <1>5. CASE \/ SaveLoaders \/ SaveBuffer \/ SaveManagerState \/ SaveWeights
             \/ SaveTrainState \/ ListAndPrune
    <2>1. UNCHANGED <<abandoned, crashes>> /\ pc # "crashed" /\ pc' # "crashed"
      BY <1>5 DEF SaveLoaders, SaveBuffer, SaveManagerState, SaveWeights, SaveTrainState,
                  ListAndPrune, Writes, budgetVars
    <2> QED
      BY <2>1 DEF AbandonedInv
  <1> QED
    BY <1>1, <1>2, <1>3, <1>4, <1>5 DEF Next, Progress, Save, Restart

\* The three invariants of the disk together.
THEOREM DirectoriesKept == Spec => [](DueInv /\ DiskInv /\ AbandonedInv)
  <1>1. Init => DueInv /\ DiskInv /\ AbandonedInv
    <2> SUFFICES ASSUME Init PROVE DueInv /\ DiskInv /\ AbandonedInv
      OBVIOUS
    <2>1. /\ Directories = {} /\ Latest = 0 /\ Len(<<>>) = 0
          /\ metaList = <<>> /\ ckptList = <<>> /\ pc = "start" /\ step = 1
      BY DEF Init, Directories, Latest
    <2>2. CheckpointInterval # 0 => 0 % CheckpointInterval = 0
      BY Division
    <2>3. AbandonedInv
      BY DEF Init, AbandonedInv
    <2> QED
      BY <2>1, <2>2, <2>3 DEF DueInv, DiskInv, Saving
  <1> QED
    BY <1>1, NextDue, NextAbandoned, CheckpointProtocol, PTL DEF Spec

\* What is on disk is bounded, for every interval, number of checkpoints kept and
\* moment of the stops: one directory more than are kept within an experiment,
\* and one for each stop before the first checkpoint was listed.
THEOREM DiskIsBounded == Spec => []DiskBounded
  <1>1. CheckpointInv /\ DueInv /\ DiskInv /\ AbandonedInv => DiskBounded
    <2> SUFFICES ASSUME CheckpointInv, DueInv, DiskInv, AbandonedInv PROVE DiskBounded
      OBVIOUS
    <2>1. ASSUME MaxKeep > 0 PROVE Cardinality(Directories) <= MaxKeep + 1
      <3> DEFINE L == Listed(metaList)
                 n == Latest + CheckpointInterval
      <3>1. metaList \in Seq(Steps) /\ Len(metaList) <= MaxKeep /\ Len(metaList) \in Nat
        BY <2>1 DEF CheckpointInv, CheckpointTypes, DiskInv
      <3>2. IsFiniteSet(L) /\ Cardinality(L) <= Len(metaList) /\ Cardinality(L) \in Nat
        BY <3>1, ListedSize, FS_CardinalityType
      <3>3. Directories \subseteq L \cup {n}
        BY DEF DiskInv
      <3> HIDE DEF L, n
      <3>4. IsFiniteSet(L \cup {n}) /\ Cardinality(L \cup {n}) <= Cardinality(L) + 1
        <4>1. /\ IsFiniteSet(L \cup {n})
              /\ \/ Cardinality(L \cup {n}) = Cardinality(L)
                 \/ Cardinality(L \cup {n}) = Cardinality(L) + 1
          BY <3>2, FS_AddElement
        <4> QED
          BY <3>2, <4>1
      <3>5. /\ Cardinality(Directories) <= Cardinality(L \cup {n})
            /\ Cardinality(Directories) \in Nat /\ Cardinality(L \cup {n}) \in Nat
        BY <3>3, <3>4, FS_Subset, FS_CardinalityType
      <3> QED
        BY <3>1, <3>2, <3>4, <3>5
    <2>2. ASSUME Latest = 0 PROVE Cardinality(Directories) <= 1
      <3>1. Cardinality(Directories) \in 0 .. 1
        BY <2>2, UnlistedIsOne
      <3> QED
        BY <3>1
    <2>3. abandoned <= crashes
      BY DEF AbandonedInv
    <2> QED
      BY <2>1, <2>2, <2>3 DEF DiskBounded
  <1> QED
    BY <1>1, DirectoriesKept, CheckpointProtocol, PTL
=============================================================================
