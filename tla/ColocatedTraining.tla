------------------------- MODULE ColocatedTraining -------------------------
(***************************************************************************)
(* Colocated reinforcement learning (RLColocateTrainer.fit): training and  *)
(* rollout share the devices and take turns.  A step produces one batch    *)
(* with SyncProduceStrategy, split over the tasks by weight, trains on it, *)
(* writes a checkpoint when one is due and gives the new weights to the    *)
(* rollout engine.  The process may stop between any two of these; it is   *)
(* started again with auto_resume.                                         *)
(*                                                                         *)
(* A prompt group is named by the draw that took it from the dataset: the  *)
(* epoch of the data loader's permutation and the position in it.          *)
(***************************************************************************)
EXTENDS Integers, Sequences, FiniteSets, Functions

CONSTANTS
  NumTasks,           \* length of task_runners; a task is its order, from 1
  Weights,            \* the weights a configuration may give to a task
  BatchSize,          \* train_batch_size, in groups
  DatasetSize,        \* len of the dataset of a task
  TotalSteps,         \* total_train_steps
  SyncInterval,       \* sync_weights_interval
  CheckpointInterval, \* checkpoint_interval, 0 when it is None or -1
  MaxKeep,            \* checkpoint_maxkeep, 0 when it is None or -1
  MaxFaults,          \* bound of the model: groups that fail or are filtered
  MaxCrashes          \* bound of the model: times the process stops

\* _validate_sync_intervals and the pydantic fields.
ASSUME ColocateAssumption ==
  /\ NumTasks \in Nat \ {0}
  /\ Weights \subseteq Nat
  /\ BatchSize \in Nat \ {0}
  /\ DatasetSize \in Nat \ {0}
  /\ TotalSteps \in Nat \ {0}
  /\ SyncInterval \in Nat \ {0}
  /\ CheckpointInterval \in Nat
  /\ CheckpointInterval % SyncInterval = 0
  /\ MaxKeep \in Nat
  /\ MaxFaults \in Nat
  /\ MaxCrashes \in Nat

Tasks == 1 .. NumTasks
Steps == 1 .. TotalSteps

\* What a checkpoint directory holds when it is whole.
Files == {"dataloader", "replay_buffer", "manager_state", "weights", "train_state"}

VARIABLES
  weight,     \* the weights of the configuration, never changed
  loader,     \* per task: epoch, position in it, _init + _local samples
  pending,    \* per task: groups that are being generated
  completed,  \* per task: COMPLETED groups in the replay buffer
  rejected,   \* per task: FAILED and FILTERED groups in the replay buffer
  batch,      \* per task: the batch that produce_batch returned
  trained,    \* per task: the groups the train workers' weights come from
  step,       \* train_step of the loop; total_train_steps + 1 when it is over
  modelStep,  \* model_step, the label given to what is generated
  engine,     \* the train step whose weights the rollout workers hold
  ckptList,   \* checkpoint_list of the experiment, in memory
  pc,         \* where fit() stands
  \* on disk
  files,      \* per step: the files in exp_dir/checkpoints/ckpt-step-<step>
  saved,      \* per step: what they hold
  abandoned,  \* checkpoint directories in earlier directories of the run, which
              \* no list names; they are never written, read or deleted again
  metaList,   \* checkpoint_list in the meta file
  metaTorn,   \* the meta file was opened for writing and is empty
  faults, crashes

loopVars   == <<loader, pending, completed, rejected, batch, trained, step,
                modelStep, engine>>
dirVars    == <<files, saved, abandoned>>
metaVars   == <<metaList, metaTorn>>
budgetVars == <<weight, crashes>>
vars == <<loopVars, ckptList, pc, dirVars, metaVars, faults, budgetVars>>

-----------------------------------------------------------------------------
(***************************************************************************)
(* get_task_batch_sizes: the floor of each quota, and one more for the     *)
(* largest remainders, ties by task order.  Remainders are compared        *)
(* exactly; the code compares floats.                                      *)
(***************************************************************************)
TotalWeight   == FoldFunction(+, 0, weight)
Floor(t)      == (BatchSize * weight[t]) \div TotalWeight
Remainder(t)  == (BatchSize * weight[t]) % TotalWeight
Remaining     == BatchSize - FoldFunction(+, 0, [t \in Tasks |-> Floor(t)])
\* Mutant: ties are not broken.
RankedUntied(t) == {u \in Tasks : Remainder(u) > Remainder(t)}

RankedBefore(t) ==
  {u \in Tasks : \/ Remainder(u) > Remainder(t)
                 \/ Remainder(u) = Remainder(t) /\ u < t}

TaskBatchSize(t) ==
  IF NumTasks = 1 THEN BatchSize
  ELSE Floor(t) + IF Cardinality(RankedBefore(t)) < Remaining THEN 1 ELSE 0

-----------------------------------------------------------------------------
(***************************************************************************)
(* The data loader of a task under sample_from_dataloader.  An epoch ends  *)
(* only when the next draw finds the permutation exhausted.                *)
(***************************************************************************)
FreshLoader == [epoch |-> 0, pos |-> 0, total |-> 0]

\* The next n draws, and the loader after them.
Draws(l, n) ==
  {<<l.epoch + (l.pos + i) \div DatasetSize, (l.pos + i) % DatasetSize>> : i \in 0 .. n - 1}

\* Mutant: the position is not wrapped at the end of an epoch.
AfterDrawsUnwrapped(l, n) == [l EXCEPT !.pos = @ + n, !.total = @ + n]

AfterDraws(l, n) ==
  IF n = 0 THEN l
  ELSE [epoch |-> l.epoch + (l.pos + n - 1) \div DatasetSize,
        pos   |-> ((l.pos + n - 1) % DatasetSize) + 1,
        total |-> l.total + n]

\* Dataloader.get_state_dict and load_state_dict: the position is the number
\* of samples ever consumed, modulo the size of the dataset.
LoaderState(l) == [epoch |-> l.epoch, step |-> l.total % DatasetSize, total |-> l.total]

\* Mutant: the epoch starts over.
LoadedAtStart(s) == [epoch |-> s.epoch, pos |-> 0, total |-> s.total]

LoadedFrom(s) == [epoch |-> s.epoch, pos |-> s.step, total |-> s.total]

NoGroups == [t \in Tasks |-> {}]
NoContent == [loaders |-> [t \in Tasks |-> LoaderState(FreshLoader)],
              buffer  |-> [completed |-> NoGroups, rejected |-> NoGroups],
              weights |-> NoGroups]
Last(s)  == s[Len(s)]

Init ==
  /\ weight \in {w \in [Tasks -> Weights] : \E t \in Tasks : w[t] > 0}
  /\ loader = [t \in Tasks |-> FreshLoader]
  /\ pending = NoGroups /\ completed = NoGroups /\ rejected = NoGroups
  /\ batch = NoGroups /\ trained = NoGroups
  /\ step = 1 /\ modelStep = 0 /\ engine = 0
  /\ ckptList = <<>>
  /\ pc = "start"
  /\ files = [s \in Steps |-> {}] /\ saved = [s \in Steps |-> NoContent]
  /\ abandoned = 0
  /\ metaList = <<>> /\ metaTorn = FALSE
  /\ faults = 0 /\ crashes = 0

-----------------------------------------------------------------------------
(***************************************************************************)
(* produce_batch.                                                          *)
(***************************************************************************)
\* How many groups the strategy starts with; the mutant starts one more.
OneMore(t)   == TaskBatchSize(t) + 1
ToStart(t)   == TaskBatchSize(t)

\* SyncProduceStrategy.produce_batch of every active task draws its batch and
\* starts it.  The pending set is a local variable of the call.
StartBatch ==
  /\ pc = "start" /\ step <= TotalSteps
  /\ pending' = [t \in Tasks |-> Draws(loader[t], ToStart(t))]
  /\ loader'  = [t \in Tasks |-> AfterDraws(loader[t], ToStart(t))]
  /\ pc' = "produce"
  /\ UNCHANGED <<completed, rejected, batch, trained, step, modelStep, engine,
                 ckptList, dirVars, metaVars, faults, budgetVars>>

StopTraining ==
  /\ pc = "start" /\ step > TotalSteps
  /\ pc' = "done"
  /\ UNCHANGED <<loopVars, ckptList, dirVars, metaVars, faults, budgetVars>>

Enough(t) == Cardinality(completed[t]) >= TaskBatchSize(t)

\* The groups that are drawn in place of rejected ones; the mutant draws none.
NoRefill(t, waiting, got) == 0
Refill(t, waiting, got) ==
  IF waiting + got < TaskBatchSize(t) THEN TaskBatchSize(t) - waiting - got ELSE 0

\* One round of the strategy's loop: asyncio.wait returns the groups `finished',
\* those in `good' are completed and valid, and the others are replaced.
CollectResults(t) ==
  /\ pc = "produce" /\ ~Enough(t)
  /\ \E finished \in (SUBSET pending[t]) \ {{}} : \E good \in SUBSET finished :
       LET bad     == finished \ good
           missing == Refill(t, Cardinality(pending[t] \ finished),
                                Cardinality(completed[t] \cup good))
       IN /\ faults + Cardinality(bad) <= MaxFaults
          /\ faults' = faults + Cardinality(bad)
          /\ completed' = [completed EXCEPT ![t] = @ \cup good]
          /\ rejected' = [rejected EXCEPT ![t] = @ \cup bad]
          /\ pending' = [pending EXCEPT ![t] = (@ \ finished) \cup Draws(loader[t], missing)]
          /\ loader' = [loader EXCEPT ![t] = AfterDraws(@, missing)]
  /\ UNCHANGED <<batch, trained, step, modelStep, engine, ckptList, pc, dirVars,
                 metaVars, budgetVars>>

\* _get_batch_from_buffer, once every strategy has returned.
TakeBatch ==
  /\ pc = "produce" /\ \A t \in Tasks : Enough(t)
  /\ \E taken \in [Tasks -> SUBSET UNION {completed[t] : t \in Tasks}] :
       /\ \A t \in Tasks : /\ taken[t] \subseteq completed[t]
                           /\ Cardinality(taken[t]) = TaskBatchSize(t)
       /\ batch' = taken
       /\ completed' = [t \in Tasks |-> completed[t] \ taken[t]]
  /\ pc' = "train"
  /\ UNCHANGED <<loader, pending, rejected, trained, step, modelStep, engine,
                 ckptList, dirVars, metaVars, faults, budgetVars>>

-----------------------------------------------------------------------------
(***************************************************************************)
(* Training, and _maybe_save_checkpoint one file at a time.                *)
(***************************************************************************)
SaveDue == CheckpointInterval # 0 /\ step % CheckpointInterval = 0

TrainOneBatch ==
  /\ pc = "train"
  /\ trained' = [t \in Tasks |-> trained[t] \cup batch[t]]
  /\ batch' = NoGroups
  /\ pc' = IF SaveDue THEN "save_loaders" ELSE "sync"
  /\ UNCHANGED <<loader, pending, completed, rejected, step, modelStep, engine,
                 ckptList, dirVars, metaVars, faults, budgetVars>>

\* Writing one file of the checkpoint of this step.
Writes(at, file, next) ==
  /\ pc = at
  /\ files' = [files EXCEPT ![step] = @ \cup {file}]
  /\ saved' = [saved EXCEPT ![step] =
       CASE file = "dataloader"    ->
              [@ EXCEPT !.loaders = [t \in Tasks |-> LoaderState(loader[t])]]
         [] file = "replay_buffer" ->
              [@ EXCEPT !.buffer = [completed |-> completed, rejected |-> rejected]]
         [] file = "weights"       -> [@ EXCEPT !.weights = trained]
         [] OTHER                  -> @]
  /\ pc' = next
  /\ UNCHANGED <<loopVars, ckptList, abandoned, metaVars, faults, budgetVars>>

SaveLoaders      == Writes("save_loaders", "dataloader", "save_buffer")
SaveBuffer       == Writes("save_buffer", "replay_buffer", "save_manager")
SaveManagerState == Writes("save_manager", "manager_state", "save_weights")
SaveWeights      == Writes("save_weights", "weights", "save_state")
SaveTrainState   == Writes("save_state", "train_state", "list")

\* What the list keeps of l, and the directories that go.
KeptOf(l) == IF MaxKeep > 0 /\ Len(l) > MaxKeep
             THEN SubSeq(l, Len(l) - MaxKeep + 1, Len(l)) ELSE l

\* Mutants: one directory too many goes; none does.
PrunedTooMany(l) == IF MaxKeep > 0 /\ Len(l) > MaxKeep
                    THEN {l[i] : i \in 1 .. Len(l) - MaxKeep + 1} ELSE {}
PrunedNone(l) == {}

PrunedOf(l) == IF MaxKeep > 0 /\ Len(l) > MaxKeep
               THEN {l[i] : i \in 1 .. Len(l) - MaxKeep} ELSE {}

ListAndPrune ==
  /\ pc = "list"
  /\ LET all == Append(ckptList, step)
     IN /\ ckptList' = KeptOf(all)
        /\ files' = [s \in Steps |-> IF s \in PrunedOf(all) THEN {} ELSE files[s]]
        /\ saved' = [s \in Steps |-> IF s \in PrunedOf(all) THEN NoContent ELSE saved[s]]
  /\ pc' = "open_meta"
  /\ UNCHANGED <<loopVars, abandoned, metaVars, faults, budgetVars>>

\* meta_path.open("w") truncates the file; what is written reaches it later.
OpenMeta ==
  /\ pc = "open_meta"
  /\ metaTorn' = TRUE
  /\ pc' = "write_meta"
  /\ UNCHANGED <<loopVars, ckptList, dirVars, metaList, faults, budgetVars>>

WriteMeta ==
  /\ pc = "write_meta"
  /\ metaList' = ckptList /\ metaTorn' = FALSE
  /\ pc' = "sync"
  /\ UNCHANGED <<loopVars, ckptList, dirVars, faults, budgetVars>>

\* Mutant: the label moves on without the weights.
SyncLabelAlways ==
  /\ pc = "sync"
  /\ engine' = IF step % SyncInterval = 0 THEN step ELSE engine
  /\ modelStep' = step
  /\ step' = step + 1
  /\ pc' = "start"
  /\ UNCHANGED <<loader, pending, completed, rejected, batch, trained,
                 ckptList, dirVars, metaVars, faults, budgetVars>>

\* The end of _sync_weights_and_save, and the loop's next iteration.
SyncWeights ==
  /\ pc = "sync"
  /\ IF step % SyncInterval = 0
     THEN engine' = step /\ modelStep' = step
     ELSE UNCHANGED <<engine, modelStep>>
  /\ step' = step + 1
  /\ pc' = "start"
  /\ UNCHANGED <<loader, pending, completed, rejected, batch, trained,
                 ckptList, dirVars, metaVars, faults, budgetVars>>

-----------------------------------------------------------------------------
(***************************************************************************)
(* The process stops, for example because a rollout worker raised, and is  *)
(* started again with auto_resume.                                         *)
(***************************************************************************)
\* XTunerMeta.latest_checkpoint, as a step; 0 when there is none.
Latest == IF metaList = <<>> THEN 0 ELSE Last(metaList)

\* Everything in memory is gone.
Crash ==
  /\ pc \notin {"crashed", "done"} /\ crashes < MaxCrashes
  /\ crashes' = crashes + 1
  /\ loader' = [t \in Tasks |-> FreshLoader]
  /\ pending' = NoGroups /\ completed' = NoGroups /\ rejected' = NoGroups
  /\ batch' = NoGroups /\ trained' = NoGroups
  /\ step' = 1 /\ modelStep' = 0 /\ engine' = 0
  /\ ckptList' = <<>>
  /\ pc' = "crashed"
  /\ UNCHANGED <<dirVars, metaVars, faults, weight>>

\* The checkpoints of the current experiment that are on disk, whole or not.
\* A directory with nothing in it yet is not counted.
Directories == {s \in Steps : files[s] # {}}

\* No checkpoint is listed, so the meta file lists no experiment either: the
\* run starts over in a new exp_dir.  What the old one holds stays on disk, in
\* no list, and nothing looks at it again.
StartOver ==
  /\ pc = "crashed" /\ ~metaTorn /\ Latest = 0
  /\ abandoned' = abandoned + Cardinality(Directories)
  /\ files' = [s \in Steps |-> {}] /\ saved' = [s \in Steps |-> NoContent]
  /\ pc' = "start"
  /\ UNCHANGED <<loopVars, ckptList, metaVars, faults, budgetVars>>

\* What ReplayBuffer.resume brings back; the mutant leaves the buffer empty.
EmptyBuffer(content)    == [completed |-> NoGroups, rejected |-> NoGroups]
RestoredBuffer(content) == content.buffer

\* Train workers, train_state, samplers and buffer from the latest checkpoint;
\* a missing file raises (a missing data loader state is only warned about,
\* which LatestIsWhole makes a case that cannot happen).  The rollout workers
\* skip their own weights and get those of the train workers.
Resume ==
  /\ pc = "crashed" /\ ~metaTorn /\ Latest # 0 /\ files[Latest] = Files
  /\ LET from == saved[Latest]
     IN /\ loader' = [t \in Tasks |-> LoadedFrom(from.loaders[t])]
        /\ completed' = RestoredBuffer(from).completed
        /\ rejected' = RestoredBuffer(from).rejected
        /\ trained' = from.weights
  /\ step' = Latest + 1
  /\ modelStep' = Latest - (Latest % SyncInterval)
  /\ engine' = Latest
  /\ ckptList' = metaList
  /\ pc' = "start"
  /\ UNCHANGED <<pending, batch, dirVars, metaVars, faults, budgetVars>>

\* The loop is over, or the process is down and every start of it raises.
Unstartable == metaTorn \/ (Latest # 0 /\ files[Latest] # Files)

Terminated ==
  /\ pc = "done" \/ (pc = "crashed" /\ Unstartable)
  /\ UNCHANGED vars

Produce == StartBatch \/ (\E t \in Tasks : CollectResults(t)) \/ TakeBatch
Save    == \/ SaveLoaders \/ SaveBuffer \/ SaveManagerState \/ SaveWeights
           \/ SaveTrainState \/ ListAndPrune \/ OpenMeta \/ WriteMeta
Restart == StartOver \/ Resume
Progress == Produce \/ TrainOneBatch \/ Save \/ SyncWeights \/ Restart \/ StopTraining

Next == Progress \/ Crash \/ Terminated

Spec == Init /\ [][Next]_vars

\* The loop is one thread of control that is always scheduled, and a group
\* that is being generated returns (GroupSamples shows it for one group).
FairSpec == Spec /\ WF_vars(Progress)

-----------------------------------------------------------------------------
(***************************************************************************)
(* Properties.                                                             *)
(***************************************************************************)
Groups == (0 .. TotalSteps * (BatchSize + MaxFaults)) \X (0 .. DatasetSize - 1)

TypeOK ==
  /\ weight \in [Tasks -> Weights]
  /\ loader \in [Tasks -> [epoch : Nat, pos : 0 .. DatasetSize, total : Nat]]
  /\ pending \in [Tasks -> SUBSET Groups]
  /\ completed \in [Tasks -> SUBSET Groups]
  /\ rejected \in [Tasks -> SUBSET Groups]
  /\ batch \in [Tasks -> SUBSET Groups]
  /\ trained \in [Tasks -> SUBSET Groups]
  /\ step \in 1 .. TotalSteps + 1
  /\ modelStep \in 0 .. TotalSteps /\ engine \in 0 .. TotalSteps
  /\ ckptList \in Seq(Steps) /\ metaList \in Seq(Steps)
  /\ pc \in {"start", "produce", "train", "save_loaders", "save_buffer",
             "save_manager", "save_weights", "save_state", "list",
             "open_meta", "write_meta", "sync", "crashed", "done"}
  /\ files \in [Steps -> SUBSET Files]
  /\ metaTorn \in BOOLEAN /\ abandoned \in Nat
  /\ faults \in 0 .. MaxFaults /\ crashes \in 0 .. MaxCrashes

\* A restart never finds the checkpoint it is told to resume from incomplete
\* or deleted: the meta file is written after the files and after the pruning,
\* whatever moment the process stops at (_maybe_save_checkpoint, steps 1 to 6).
\* It takes a checkpoint_maxkeep other than 1, with which the old checkpoint is
\* deleted before the list that names the new one is on disk.
LatestIsWhole == Latest # 0 => files[Latest] = Files

\* Every group the sampler ever handed out is in exactly one place: being
\* generated, in the buffer, in the batch or in the weights.  A restart puts
\* the data position, the buffer and the weights back together, so no prompt
\* of an epoch is trained on twice or skipped.
EveryDrawAccounted ==
  \A t \in Tasks :
    LET held == <<pending[t], completed[t], rejected[t], batch[t], trained[t]>>
    IN /\ \A i, j \in 1 .. 5 : i # j => held[i] \cap held[j] = {}
       /\ Cardinality(UNION {held[i] : i \in 1 .. 5}) = loader[t].total

\* SyncProduceStrategy assumes no completed samples at the start (the assertion
\* commented out in its produce_batch): nothing completed is left in the buffer
\* and no task of the local pending set is left running when a batch has been
\* taken, after a restart as well.
NothingLeftOver ==
  pc # "produce" => completed = NoGroups /\ pending = NoGroups

\* The tasks' batches sum to the global batch, each is within one group of its
\* quota, a task of weight zero gets none, and a heavier task never gets less
\* (get_task_batch_sizes and _validate_task_batch_sizes).
FairShare ==
  NumTasks > 1 =>
    /\ FoldFunction(+, 0, [t \in Tasks |-> TaskBatchSize(t)]) = BatchSize
    /\ \A t \in Tasks :
         /\ TaskBatchSize(t) * TotalWeight > BatchSize * weight[t] - TotalWeight
         /\ TaskBatchSize(t) * TotalWeight < BatchSize * weight[t] + TotalWeight
         /\ weight[t] = 0 => TaskBatchSize(t) = 0
         /\ \A u \in Tasks : weight[u] > weight[t] => TaskBatchSize(u) >= TaskBatchSize(t)

\* While groups are generated the label they get is the step of the weights the
\* rollout workers hold, and that is the last synchronised one, also in the
\* first batch after a restart (_get_colocate_rollout_model_step).
LabelIsEngine ==
  pc = "produce" =>
    modelStep = engine /\ engine = (step - 1) - ((step - 1) % SyncInterval)

\* What a stop may leave on disk.  Within an experiment, checkpoint_maxkeep and
\* one more, whatever moment the process stops at: what an interrupted save
\* leaves is written again by the next.  Before the first checkpoint is listed
\* there is at most one directory, but a stop then leaves it for ever, since
\* the restart opens another experiment (XTunerMeta.build): one for each such
\* stop, never more.
DiskBounded ==
  /\ MaxKeep > 0 => Cardinality(Directories) <= MaxKeep + 1
  /\ Latest = 0 => Cardinality(Directories) <= 1
  /\ abandoned <= crashes

\* While a checkpoint is written.
Saving == {"save_loaders", "save_buffer", "save_manager", "save_weights",
           "save_state", "list", "open_meta", "write_meta"}

\* Every epoch has an order of its own (set_epoch of the dataset sampler): a
\* prompt that is handed out was not trained on at that place of that epoch.
\* It does not hold when a checkpoint falls on the last draw of an epoch: the
\* position wraps to 0 and the epoch has not been advanced yet.
EpochsReshuffled == \A t \in Tasks : pending[t] \cap trained[t] = {}

\* The condition under which it does: no checkpoint is taken between the last
\* draw of an epoch and the first of the next one.
EpochOpen == pc \in Saving => \A t \in Tasks : loader[t].pos # DatasetSize

\* The run ends, or the meta file was caught between being truncated and being
\* written and no restart can read it.
TrainingEnds == <>(pc = "done" \/ (pc = "crashed" /\ metaTorn))

-----------------------------------------------------------------------------
(***************************************************************************)
(* Why LatestIsWhole and LabelIsEngine hold, as an inductive invariant.    *)
(***************************************************************************)
Locations == {"start", "produce", "train", "sync", "crashed", "done"} \cup Saving

CheckpointTypes ==
  /\ step \in 1 .. TotalSteps + 1
  /\ pc \in {"produce", "train", "sync"} \cup Saving => step \in Steps
  /\ modelStep \in 0 .. TotalSteps /\ engine \in 0 .. TotalSteps
  /\ ckptList \in Seq(Steps) /\ metaList \in Seq(Steps)
  /\ pc \in Locations
  /\ files \in [Steps -> SUBSET Files]

\* Checkpoints are listed in the order of their steps, each on a step that
\* synchronises the weights.
Ordered(l) ==
  /\ \A i, j \in 1 .. Len(l) : i < j => l[i] < l[j]
  /\ \A i \in 1 .. Len(l) : l[i] % SyncInterval = 0

\* The list in memory and the one on disk differ only while a checkpoint is
\* being listed, and what is listed is older than what is being written.
ListsAgree ==
  /\ Ordered(ckptList) /\ Ordered(metaList)
  /\ pc \notin {"open_meta", "write_meta", "crashed"} => ckptList = metaList
  /\ pc \in {"start", "produce", "train"} \cup (Saving \ {"open_meta", "write_meta"})
       => \A i \in 1 .. Len(metaList) : metaList[i] < step
  /\ pc = "sync" => \A i \in 1 .. Len(metaList) : metaList[i] <= step
  /\ pc = "crashed" => ckptList = <<>>
  /\ pc \in {"open_meta", "write_meta"} =>
       ckptList # <<>> /\ Last(ckptList) = step /\ files[step] = Files

\* The files that are there when the next one is about to be written.
FilesInTurn ==
  /\ pc \in {"save_buffer", "save_manager", "save_weights", "save_state", "list"}
       => "dataloader" \in files[step]
  /\ pc \in {"save_manager", "save_weights", "save_state", "list"}
       => "replay_buffer" \in files[step]
  /\ pc \in {"save_weights", "save_state", "list"} => "manager_state" \in files[step]
  /\ pc \in {"save_state", "list"} => "weights" \in files[step]
  /\ pc = "list" => "train_state" \in files[step]

\* Between two synchronisations the engine and the label stay at the last one.
LabelsAgree ==
  /\ pc \in {"start", "produce", "train", "sync"} \cup Saving =>
       modelStep = engine /\ engine = (step - 1) - ((step - 1) % SyncInterval)
  /\ pc \in Saving => step % SyncInterval = 0
  /\ pc = "crashed" => step = 1 /\ modelStep = 0 /\ engine = 0

\* The inductive invariant of the checkpoint protocol: typing, LatestIsWhole and
\* what a save that was interrupted anywhere leaves behind.
RestartsWhole == MaxKeep # 1 => LatestIsWhole

CheckpointInv ==
  CheckpointTypes /\ ListsAgree /\ FilesInTurn /\ LabelsAgree /\ RestartsWhole

-----------------------------------------------------------------------------
(***************************************************************************)
(* The checkpoints of several files implement checkpoints taken at once.   *)
(***************************************************************************)
FreshRun == [steps |-> 0, weights |-> NoGroups, loaders |-> NoContent.loaders,
             buffer |-> NoContent.buffer, inHand |-> NoGroups]

SavedRun ==
  IF Latest = 0 THEN FreshRun
  ELSE [steps |-> Latest, weights |-> saved[Latest].weights,
        loaders |-> saved[Latest].loaders, buffer |-> saved[Latest].buffer,
        inHand |-> NoGroups]

LiveRun ==
  IF pc = "crashed" THEN SavedRun
  ELSE [steps |-> IF pc \in {"start", "produce", "train", "done"} THEN step - 1 ELSE step,
        weights |-> trained,
        loaders |-> [t \in Tasks |-> LoaderState(loader[t])],
        buffer |-> [completed |-> completed, rejected |-> rejected],
        inHand |-> [t \in Tasks |-> pending[t] \cup batch[t]]]

GroupsIn(f) == FoldFunction(+, 0, [t \in Tasks |-> Cardinality(f[t])])

\* A step of the run trains on one whole batch or leaves the weights alone, the
\* data position never moves back and a rejected group stays in the buffer.
RunAdvances(a, b) ==
  /\ \/ b.steps = a.steps /\ b.weights = a.weights
     \/ /\ b.steps = a.steps + 1
        /\ \A t \in Tasks : a.weights[t] \subseteq b.weights[t]
        /\ GroupsIn(b.weights) = GroupsIn(a.weights) + BatchSize
  /\ \A t \in Tasks : /\ a.loaders[t].total <= b.loaders[t].total
                      /\ a.buffer.rejected[t] \subseteq b.buffer.rejected[t]

Durable == INSTANCE DurableTraining
             WITH Fresh <- FreshRun, Advances <- RunAdvances,
                  live <- LiveRun, durable <- SavedRun

\* A checkpoint written file by file, listed, pruned and persisted in steps is
\* one atomic commit, and a restart is one roll back to it.
ImplementsDurable == Durable!Spec
=============================================================================
