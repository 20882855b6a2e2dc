# gcltuner / XTuner V1: a verification of the rollout pipeline

This directory holds TLA+ models of the part of the repository whose correctness
depends on order: the reinforcement-learning pipeline of `xtuner/v1/rl` and
`xtuner/v1/train/rl_trainer.py`, where a rollout engine generates samples, a trainer
consumes them and replaces the engine's weights, and checkpoints, restarts and
failing workers come in between. All paths below are relative to `src/`, and to
`src/xtuner/v1/` where they start with `rl/`, `train/`, `data_proto/`, `datasets/` or
`_writer/`.

## 1. Inventory

The repository is a fine-tuning toolkit in four layers: `xtuner/v1` (the current
engine: supervised training and RL), the legacy `xtuner/*` packages (configuration
driven fine-tuning on mmengine), `gcltuner` (continual tuning on top of the legacy
packages) and a vendored `peft`. `projects`, `examples`, `autotest` and `ci` are
experiments, configurations and test tooling. The legacy layer and `gcltuner` are
sequential scripts around tensor computation; the concurrent core is the RL pipeline.

| Component | State it keeps | Operations | Talks to |
|---|---|---|---|
| `AgentLoopManager` (`rl/agent_loop_manager/agent_loop_manager.py`) | `_status`, `_update_event`, `_finish_event`, `_model_step`, `ProduceProgress`; batch sizes of the tasks | `produce_loop`, `get_batch`, `pause_produce`, `continue_produce`, `shutdown`, `produce_batch`, `save`, `resume` | trainer (calls), strategies, replay buffer |
| `AsyncProduceStrategy`, `SyncProduceStrategy` (`.../producer.py`) | `_PendingTasks`; progress: consumer step, future step, cumulative target, consumed samples; local pending set | `produce_batch`, `pause_produce`, `is_model_expired` | agent loop (tasks), sampler, buffer, controller |
| `Sampler` (`.../sampler.py`), `ParallelSampler`, `Dataloader` (`datasets`) | epoch, position, samples consumed | `sample`: expired pool, aborted pool, dataset; `get_state_dict`, `load_state_dict` | buffer, dataloader |
| `ReplayBuffer` (`rl/replay_buffer.py`) | storage of groups with status, staleness, order | `put`, `get`, `count`, `is_ready`, `take_batch`, `refresh_staleness`, `save`, `resume` | producer and trainer coroutine |
| Rollout data (`data_proto/rl_data.py`, `utils.py`) | `RolloutState`: status, response ids, model step of each token | group status, version update, reset, staleness | everybody |
| `AgentLoop` (`rl/agent_loop`) | none; `RouterAgentLoop` counts loads | `generate_group`, `generate_sample` | controller, judger |
| `RolloutController` (`rl/rollout/controller.py`) | worker table | `generate` with timeout, broadcast of pause, continue, offload and onload, `recover_failed_workers` | workers |
| `SessionRouter`, `RolloutHealthChecker` (`rl/rollout/utils.py`) | table of sticky sessions, cycle over workers; checker thread and its pause event | `get_worker`; `run_once` | controller, workers |
| `RolloutWorker` (`rl/rollout/worker.py`, `lmdeploy.py`) | `receive_abort_request`, inference server | `generate` (early exits, retries), `pause_generation`, `continue_generation`, `offload`, `onload_*`, `init`, `shutdown` | inference server over HTTP |
| `PartialRolloutHandler` (`rl/rollout/utils.py`) | none | `preprocess`, `postprocess`: continue a cut response | worker |
| `RLDisaggregatedTrainer` (`train/rl_trainer.py`) | train step | `_fit`, weight sync, evaluation | manager, controller, train workers |
| `RLColocateTrainer` (`train/rl_trainer.py`), `XTunerMeta`, `ExpInfo` (`train/trainer.py`) | train step, checkpoint list in memory and in the meta file, checkpoint directories | `fit`, weight sync, `_maybe_save_checkpoint`, auto-resume | manager, controller, train workers, disk |
| Train controller and workers, `update_weighter.py` | tensors; `rollout_url` of each rank | computation; `update_rollout_info`, `update_weights` | trainer, inference servers |
| Losses, advantages, judgers, evaluator | tensors | computation | trainer |
| Gateway, other inference backends, parsers | servers | request formats | external engines |
| Ray resources (`rl/utils`), metric writers (`_writer`), supervised trainer loop | bundles; queue and thread; step | reservation; add and close; fit | |

What makes this code hard to get right:

- Two coroutines share the manager, the strategy's pending set and the buffer, and
  interleave at every `await` that really suspends. State is read before an await
  and used after it: the status in `produce_loop`, the `model_step` handed to a round.
- The engine is asked to pause and to continue by different parties, and each worker
  learns of it on its own, between any two steps of the requests it serves.
- A group is made of samples served by different workers; it may be cut, continued,
  restarted, expired, refused and retried, and its samples do not agree.
- Time-outs (the drain, the controller, the worker's abort) race late answers, and a
  task may end with an exception that nobody looks at until much later.
- A checkpoint is many files written in turn; the process may stop between any two.
- A thread gives up workers while the trainer broadcasts to them and restarts them.
- Staleness arithmetic (thresholds, sync intervals, look-ahead, labels) decides what
  is trained on; an error trains on the wrong data and nothing fails.

For each component, what makes it correct: the **manager** never lets a request meet
new weights, always wakes the producer again, and splits a batch fairly; the
**strategy** produces what was asked for and not more, and leaves nothing behind; the
**buffer** hands out only fresh, completed groups; the **labels** never claim newer
weights than those used; the **worker** loses no tokens, exceeds no budget, returns
every request; the **trainers** stop whatever fails, and a restart continues from one
moment of the run; the **router** keeps sessions with their workers and forgets idle
ones; the **recovery** gives workers back with the weights the labels name. The
hazards are listed, each at its line, in `PROJECT.json`.

## 2. Modules

```
                     Staleness                 arithmetic
                    /         \
           RolloutGroup     OffPolicyTraining  what training promises
          /     |      \          ^
 GroupSamples   |   DisaggTraining            the two coroutines and the engine
          \     v      /    |
           GroupLifecycle   DisaggInvariants   the inductive invariant
           (one group)            |
                           DisaggTraining_proofs
                                  |
                           DisaggRefinement_proofs

 RolloutGroup_proofs                           single groups; used by
                                               GroupSamples_proofs and DisaggTraining_proofs

 ColocatedTraining --> DurableTraining         checkpoints, crashes, restarts
          |
 FairShare_proofs --- ColocatedTraining_proofs --- ColocatedData_proofs

 SessionRouter --- WorkerPool --- WorkerPool_proofs     workers that die
```

The modules meet at *refinements*: the samples of a group implement
`GroupLifecycle` (`ImplementsLifecycle`); every group of `DisaggTraining` lives that
life (`EveryGroupLives`); and `DisaggTraining` implements `OffPolicyTraining`
(`ImplementsOffPolicy`). So the record by which `DisaggTraining` represents a group,
which leaves the samples out, is not taken on trust. `ColocatedTraining` implements
`DurableTraining` (`ImplementsDurable`), and relies on `GroupSamples` for the fact
that a group returns (`GroupReturns`).

**`Staleness`** — `calculate_seq_staleness`, `calculate_stale_threshold`,
`is_model_expired`, the test of `maybe_expire_group`. `NoTokens` (-1) stands for a
group without response tokens, which the code counts as staleness 0.

**`RolloutGroup`** — a group as a record: `stage` (who holds it), `status`, `ver`
(the oldest recorded `model_step`), `act` (the oldest weights that really generated a
token: a history variable, no code sees it), `since` (the weights when its requests
were sent) and `gained` (it holds tokens without a version). Its operators are
`put`, `refresh_staleness`, the launch and the answer. `RAISED` is not a status of the
code: it marks a group whose task ended with an exception.

**`DisaggTraining`** — the composition of `AgentLoopManager`, `AsyncProduceStrategy`,
`ReplayBuffer`, `Sampler`, `RLDisaggregatedTrainer` and the engine:

| Code | Model |
|---|---|
| `_status`, `_update_event`, `_finish_event`, `_model_step` | `status`, `updateEvent`, `finishEvent`, `modelStep` |
| `next_consumer_step`, `producer_future_step`, `target_upto_future_step`, `consumed_samples` | `consumerStep`, `futureStep`, `targetUpto`, `consumed` |
| storage, `_PendingTasks`, batch in training | `group[g].stage` |
| position of `produce_loop`; `ProduceContext` | `producer`; `ctx` |
| position of `_fit`; `train_step` | `trainer`; `trainStep` |
| engine: weights, abort flag | `weights`, `paused` |
| `produce_loop`, `_produce_batch_to_buffer`, `produce_batch` | `ExitLoop`, `BeginRound`, `RoundExpired`, `RoundStarts`, `StartBatch`, `AbortBatch`, `EnoughProduced`, `ScheduleGroups`, `WakeAndPut`, `AdvanceFutureStep` |
| `task.result()` raises in the producer, in the drain | `ProducerRaises`, `DrainRaises` (over `ClaimRaises`) |
| `get_batch` | `BeginConsume`, `SkipExpiredStep`, `TakeBatch` |
| `pause_produce` | `PauseProduce`, `DrainPending`, `DrainDone`, `DrainTimeout`, `CleanupDone` |
| `_sync_weights_and_save`, `_run_evaluation`, `continue_produce`, `shutdown` | `SaveRaises`, `UpdateWeights`, `Evaluate`, `ContinueProduce`, `Shutdown`, `JoinProducer` |

An action is the code between two awaits that can suspend. The coroutines of the
storage, and the locks around them, never suspend, so three sequences with an `await`
of the storage in them are one action each, whatever the granularity: claiming a task
and putting its group, the scheduling loop, and taking a batch, marking it and
refreshing the rest. What could happen inside them, such as a group lost between claim
and put, is outside the model. Between actions `AwaitsYield` selects: FALSE has asyncio
run a coroutine on to a suspension, with Ray calls answered in a later iteration of the
loop; TRUE lets the coroutines take turns at every action, a superset that does not
depend on that reading of the scheduler.

**`GroupSamples`** — one group, sample by sample, under `RolloutWorker.generate`:
`sample` is the `RolloutState` (a token *is* the step of the weights that generated
it), `call` the position and attempt of each request, `flag` the worker's
`receive_abort_request`, `hit` the workers paused since the launch. Actions:
`Launch`, `RefuseCall`, `SkipCall`, `AcceptCall`, `PostRequest`, `AbortCall`,
`CompleteResponse`, `AbortedResponse`, `Retry`, `FailCall`, `RaiseCall` (the
`RuntimeError` on an unknown HTTP error), `Gather`, `Cancel`, `Put`, `NextStep`,
`TakeBatch`, `TrainOneBatch`, `PauseWorker`, `ContinueWorker`, `UpdateWeights`. What
surrounds the group is as free as `DisaggTraining` allows: weights change only when
the group is not in flight (`QuietEngineAtSync`), and a label is any step not newer
than the weights.

**`ColocatedTraining`** — training and rollout take turns on the same devices; the
hard part is what a checkpoint is and when the process stops. A prompt group is named
by the draw that took it from the dataset: epoch and position.

| Code | Model |
|---|---|
| `Dataloader`, `ParallelSampler`, `_init_total_consumed_samples` | `loader[t]`: epoch, position, total |
| local `pending_tasks` of `SyncProduceStrategy`, buffer, batch | `pending`, `completed`, `rejected`, `batch` |
| train workers' weights | `trained`: the groups they were trained on |
| `cur_step`, `model_step`, weights of the rollout workers | `step`, `modelStep`, `engine` |
| `exp_dir/checkpoints/ckpt-step-<n>`, its files and what they hold | `files[n]`, `saved[n]` |
| checkpoint directories in earlier `exp_dir`s, which no list names | `abandoned`: how many |
| `checkpoint_list`; meta file; meta file truncated | `ckptList`; `metaList`; `metaTorn` |
| `get_task_batch_sizes` | `Floor`, `Remainder`, `RankedBefore`, `TaskBatchSize` |
| `produce_batch`, `SyncProduceStrategy.produce_batch`, `_get_batch_from_buffer` | `StartBatch`, `CollectResults`, `TakeBatch` |
| `_train_one_batch` | `TrainOneBatch` |
| `_maybe_save_checkpoint`, one file at a time | `SaveLoaders`, `SaveBuffer`, `SaveManagerState`, `SaveWeights`, `SaveTrainState`, `ListAndPrune`, `OpenMeta`, `WriteMeta` |
| `_sync_weights_and_save` | `SyncWeights` |
| the process stops; `auto_resume`, `resume` of every part | `Crash`; `StartOver` (no experiment listed: a new `exp_dir`), `Resume` |

**`DurableTraining`** — what a resumable run promises: a checkpoint is one atomic
commit of the whole run (step, weights, data position, buffer), and a restart is one
roll back to the last commit. It has two variables, `live` and `durable`.

**`SessionRouter`**, **`WorkerPool`** — the rollout workers of the colocated trainer.
`SessionRouter` is `get_worker` with its ordered table (`map`) and its cycle over the
workers (`cycler`); `WorkerPool` extends it with everything that happens to workers:

| Code | Model |
|---|---|
| `WorkerInfo.is_active`; server process; its memory; its weights | `isActive`; `server`; `memory`; `held` |
| `receive_abort_request`; `rollout_url` of the train worker | `aborting`; `rolloutUrl` |
| position in `fit`; workers a broadcast still waits for | `pc`; `todo` |
| checker: `_pause_event`; position in `run_once`; snapshot, failed workers, workers to shut down | `paused`; `checker`; `toCheck`, `sick`, `toShut` |
| `continue_generation`, `generate`, `pause_generation` | `ContinueGeneration`, `Generate`, `PauseGeneration` |
| `offload`, `onload_weights`, `onload_kvcache` | `Offload`/`WorkerOffloads`, `OnloadWeights`/`WorkerOnloadsWeights`, `OnloadKvCache`/`WorkerOnloadsKvCache` |
| `recover_failed_workers` | `RecoverFailedWorkers`, `Relaunch`, `ConfirmRestart`, `FinishRecovery` |
| `bind_train_rollout`, `update_rollout_info`, `update_weights` | `BindTrainRollout`, `UpdateWeights`, `TrainWorkerSends` |
| `RolloutHealthChecker.run_once` and its shutdown of workers | `CheckerStarts`, `CheckerProbes`, `CheckerMarks`, `CheckerOffloads`, `CheckerShutsDown`, `CheckerWaits` |
| a server process ends by itself | `ServerDies` |

**`GroupLifecycle`**, **`OffPolicyTraining`** — the two abstract specifications of the
disaggregated path. The second has no buffer, status or event: groups are launched,
return, are discarded or taken; a batch is `BatchSize` groups below the staleness
threshold; the weights change only while nothing runs.

**`DisaggInvariants`**, **`MC*`**, **`*_proofs`** — the inductive invariant, the
symmetry sets for TLC, the proofs. Definitions commented *Mutant:* are plausible
bugs of the definition that follows; nothing refers to them. They record, for every
property, a change of the code that the property notices.

## 3. Runs

| Run | Question | Instance | States |
|---|---|---|---|
| `partial_rollout` | Freshness, agreement of the buffer, no overproduction, `ImplementsOffPolicy`, with partial rollout, tail batches and oversampling | 5 groups, 3 steps, staleness 1, sync every step, tail 1, oversampling 1, evaluation every 2, 1 fault; symmetry | 64 K |
| `every_await` | Do the invariants, the inductive one included, depend on where the coroutines suspend? A checkpoint falls due and its save raises: is the producer still stopped? | 4 groups, 2 steps, staleness 1, every await yields; fair | 528 K |
| `sync_interval` | Sync every second step, no partial rollout, tail batch of two: freshness, labels, the life of each group | 6 groups, 3 steps, staleness 0; symmetry | 117 K |
| `training_ends` | Batches of two, assembled from different rounds, where steps are skipped: refinement, and does training end? | 2 steps, staleness 0, no oversampling, evaluation at every step; fair | 201 K |
| `group_samples` | Two samples, own workers, partial rollout: versions, budget, tokens, the life of the group | 2 tokens, 1 retry, 2 steps | 2.2 M |
| `group_restarts` | The same without partial rollout, and: does every launched group come back? | 2 tokens, 1 retry, 2 steps; fair | 713 K |
| `colocated` | Checkpoints, crashes and restarts; the split of batches between tasks | 2 tasks, weights from {0, 1, 3}, 8 steps, sync and checkpoint every 2, keep 2, 1 fault, 2 crashes; fair | 183 K |
| `worker_pool` | Deaths, wrong alarms and restarts of workers, sticky sessions, under the trainer's broadcasts | 2 workers, 2 sessions, 1 idle call, 3 steps, sync every step, 2 faults; fair | 864 K |
| `checkpoint_saved`, `stop_tokens`, `epoch_boundary`, `recovered_label` | Does the code do what its comments say? It does not: see 5 | small | |

Every bound is a constant or a guard:

- `Groups` are identities, recycled once nothing can read the group an identity stood
  for (a FAILED or FILTERED group stays in storage, but no query finds it again). Each
  run has enough of them: whenever the producer schedules, the sampler finds as many
  as it asks for. In the model without enough the producer would have no step, so
  `training_ends` and the deadlock check would show it.
- `TotalSteps` of 2 or 3 covers a first sync, a step with older weights than the
  trainer's, and, with interval 2, a sync, a step inside the period and the final
  sync. The threshold is 1 or 2, so groups do become stale, at put and at refresh.
- `MaxFaults` 1: one failed, filtered or raising group per behaviour; a failed or
  filtered group affects only itself and the count of what is missing, and after a
  raise nothing more is produced.
- Two samples are the least a group can mix; two tokens allow one token, a cut and one
  more; one retry allows a retry followed by everything else.
- `colocated` has four checkpoints, so that two are pruned, and two crashes, so that a
  restart is itself interrupted and two stops before the first listed checkpoint leave
  two directories behind (`abandoned` reaches 2). `DatasetSize` 10 lets no checkpoint fall exactly on
  the end of an epoch; that case is `epoch_boundary`.
- `worker_pool` lets both workers be lost at once, or the same worker twice. With two
  sessions only the oldest entry of the router can be idle; eviction of the least
  recently used one (`EvictLru`) needs three, an instance that holds too but with two
  faults has 2.9 million states, and is not a regular run.

Deadlock is checked everywhere; the models stop only in a `Terminated` state of their
own. Symmetry is used only in runs without liveness.

**Fairness.** In `DisaggTraining`, `WF(ProducerNext)` and `WF(TrainerNext)`: asyncio
runs every coroutine that is ready; `WF(FinishGroup(g))`: a request ends, because
worker and controller have time-outs. `training_ends` runs with `AwaitsYield` FALSE:
an evaluation leaves the shared engine paused, and only the next round of the producer
wakes it. If every await could suspend for as long as an evaluation takes, a round
that woke the engine before it could schedule after it, into a paused engine, and
relaunch aborted groups for ever; in this code such a round has long been aborted.
In `GroupSamples`, each request makes progress (`WF(WorkerNext(s))`) and the gathering
coroutine resumes (`WF(Gather)`); pauses and continues are never forced. In
`ColocatedTraining`, `WF(Progress)`: one thread of control, whose groups return. In
`WorkerPool`, the trainer's and the checker's threads are scheduled (`WF(Trainer)`,
`WF(Checker)`) and agent loops keep sending requests while a batch is incomplete
(`WF(Requesting)`). Nothing forces a fault, a crash, a wrong alarm or a drain time-out.

## 4. Proofs

TLAPS proves the following for every value of the constants that satisfies the named
ASSUMEs (`StalenessAssumption`, `GroupAssumption`, `DisaggAssumption`,
`SamplesAssumption`, and so on). Each theorem about a property of a run has the
specification without fairness as its hypothesis, so it covers the fair one too.

**`DisaggTraining_proofs`**, with either value of `AwaitsYield`; `Groups` is any set,
finite for `WindowKept` only.

| Theorem | Says |
|---|---|
| `TypeCorrect`, `Invariance` | `TypeOK`; `IInv`, the inductive invariant |
| `QuietEngine` | from the end of the drain to `continue_produce` nothing is pending and nothing can be added |
| `LabelsTruthful` | a recorded version is never newer than the oldest token |
| `BufferStaysFresh` | what the buffer can hand out is fresh for the step that consumes it |
| `BoundedStaleness` | every token of a trained batch is within the threshold |
| `ExpiredIsTrue`, `LookaheadIsBounded` | EXPIRED_BATCH is true of the weights; the target stays within threshold + 1 |
| `WindowKept` | completed, pending and consumed groups never exceed target and oversampling |

Freshness of a trained batch is about `act`, which the code cannot see; it sees
labels. So (a) a group in the buffer has `ver <= act` (`LabelInv`), and (b) a group in
the batch has a fresh `ver` (`BatchInv`, from `BufferFresh` and the fact that
`consumerStep = trainStep` while `get_batch` polls). For (a), put records the
producer's `model_step` for tokens generated under `weights`: this is truthful only if
`ctx.model <= weights` (`VersionInv`) and the weights did not change while the request
was out, i.e. `since = weights`, which needs that `UpdateWeights` meets nothing in
flight: `QuietInv`. That in turn needs that the producer cannot schedule between the
drain and `continue_produce` because the event is set. None of these is inductive
alone; their conjunction `IInv` is. For `WindowKept`, `completed \cup pending` only
shrinks, with two exceptions: `ScheduleGroups` adds no more than is missing, and
`TakeBatch` exchanges groups for as many in `consumed`; `TargetInv` says that the
target is the one the producer's steps add up to. `RolloutGroup_proofs` has the
lemmas on single groups; `DisaggTraining_proofs` has one lemma per conjunct and one
step per action. `every_await` checks `IInv` itself with TLC.

**`DisaggRefinement_proofs`**: `OffPolicyImplemented` and `LifecycleKept`. Of the
actions, `BeginConsume` is the abstract `NextStep`, `TakeBatch` is `Take`,
`TrainOneBatch` is `Train`, `ScheduleGroups` is `Launch`, `FinishGroup` is `Return`,
`UpdateWeights` is itself, and every way to lose a group (a put that expires it, a
failure, a raise, a drain time-out) is `Discard`; all others stutter. The steps need
the invariant: that a taken group is fresh is `BufferFresh`, that new weights meet no
running group is `QuietInv`, that the step being taken is the one in training is
`StepInv`.

**`GroupSamples_proofs`**: `Invariance` of `SamplesInv` (`SampleOK` for each sample,
`CallOK` for each request, `StageInv` for the group), and from it `TypeCorrect`,
`Aligned`, `NotOverstated`, `BudgetKept`, `BatchesComplete`, `NoTokenLost` and
`EndedStaysEnded`. Between launch and put a sample has more tokens than versions; the
invariant says that the tokens beyond the versions come from the present weights,
which cannot change while a request is out. `EndedStaysEnded` assumes
`"stop" \notin EndKinds`; `stop_tokens` shows that it must.

`LifecycleImplemented`: the samples together live the life of one group. `Launch` is
the abstract `Launch`; a step of a request stutters; `Gather`, and a `RaiseCall` that
ends the task, are `Return`; `Cancel` is itself; `Put` is the abstract `Put`, with the
status that `update_group_status` folds from the samples; `NextStep` refreshes the
group; `TakeBatch` is `Take` and `TrainOneBatch` is `Train`. The engine of the abstract
group is paused when some worker's flag is set, so `ContinueWorker` is `Continue` only
for the last flag. The mapping computes the record from the samples (oldest version,
oldest token, whether a token has no version), so its steps need more than
`SamplesInv`. `LifeInv` adds that an ABORTED answer means a pause since the launch
(`FlightInv`); that the oldest version and the oldest versioned token are those the
group was sent with, or gone as a whole (what the abstract `Return` may choose); and
that the outcome of a group that is back is the one its samples fold to
(`FinishedInv`).

**`FairShare_proofs`**: `SharesFair`. The folds of the model are functions on the
subsets of a finite set, and strict inclusion is well founded there, so induction can
be stated with a set of good subsets instead of an operator (`SubsetsAll`). From it:
the sum over a set is the sum without one element plus its value, quotas sum to the
batch up to what is missing, and no more groups are missing than tasks have a
fractional quota. So those handed out by rank are exactly the missing ones, no task
gets two, and none goes to a task whose quota is whole.

**`ColocatedTraining_proofs`**: `CheckpointProtocol`, the invariance of
`CheckpointInv`: types; the list in memory is the list in the meta file, up to the
checkpoint just written (`ListsAgree`); the files of a checkpoint appear in the order
they are written, for the present position of the trainer (`FilesInTurn`); the labels
are those of the last sync (`LabelsAgree`); what the meta file names is whole
(`RestartsWhole`). From it `RestartsAreWhole`, assuming `MaxKeep # 1` (see 5), and
`LabelsAreExact`. `DiskIsBounded`: in the directory of the current experiment there is,
besides the listed checkpoints, at most one, at the step where the next falls due
(`DiskInv`). A run that is restarted from the last checkpoint comes to that step again
and finishes this directory instead of leaving another. When nothing is listed the
restart opens a new experiment instead, and this one directory is left for ever;
`AbandonedInv` charges it to the stop before it, so what is abandoned never exceeds the
number of stops. There is no bound that does not grow with them (see 5).

**`ColocatedData_proofs`**: the dataset. A group is numbered by its place in the
sequence of all draws of all epochs, a loader stands before the next one.
- `DataKept` is the invariance of `DataInv`: while a batch is produced a task holds
  exactly its share (which needs `FairShare_proofs` for the batch to add up), at other
  times nothing but the batch; every group lies below what the steps begun and the
  faults can have drawn. From it `NothingKept` and `ColocateTypes`.
- `DrawsExact`: a save in progress holds what is live (`SavedAsLive`), and the groups a
  task ever drew are exactly those before the place of its loader, in memory and in the
  checkpoint a restart reads (`ExactInv`). From it `DrawsAccounted` (no prompt is
  trained on twice, none is lost, across crashes) and `EpochsNotRepeated`.
- `CheckpointsAreAtomic`: `ColocatedTraining` implements `DurableTraining`. `WriteMeta`
  is `Commit`, `Crash` is `RollBack` (from then on the run is what the last checkpoint
  holds), producing and training are `Advance`; every single file, the list, pruning,
  the sync and the restart, which must bring back exactly that run, stutter.

`DrawsExact`, what follows from it and `CheckpointsAreAtomic` are about behaviours with
`[]EpochOpen`: no save begins while a loader stands at the very end of an epoch.
`epoch_boundary` shows that the code violates `EpochsReshuffled` otherwise. The behaviours of `colocated` have it:
none of its saves falls there, through crashes and restarts, so there the properties
are checked without the hypothesis. `CheckpointsAreAtomic` assumes `MaxKeep # 1`, for
the reason given in 5.

**`WorkerPool_proofs`**: `WorkersServe` from `ServingInv` (which workers a broadcast
has still to reach, whatever the checker marked meanwhile) and `LabelsAreHeld` from
`LabelInv`, assuming `SyncInterval = 1`; `recovered_label` shows that this assumption
is needed too. `PoolTypes`, `RouterForgets` and `RouterSticks` come from `PoolInv`: the
table of the router is in the order of last use and has one entry for a session. The
order is what makes it right to stop looking for idle sessions at the first that is
not, and uniqueness is what makes popping a session forget it.

Only model-checked: liveness (`ShutdownJoins`, `TrainingEnds` of three modules,
`GroupReturns`), since fairness and ENABLED are out of the prover's reach. Without
`[]EpochOpen` only types, shares and bounds of the draws are proved (`DataKept`,
`ColocateTypes`); their exactness fails at the boundary. Every other property of a passing run is stated by a theorem, under the
assumptions named here.

## 5. Where code and comments disagree

Each of the first four is a run that ends in a counterexample.

- `checkpoint_saved`: `AgentLoopManager.save` calls `asyncio_run` inside the loop that
  runs `_fit`; the first checkpoint of the disaggregated trainer raises.
  `ShutdownJoins` (`every_await`) shows that the `finally` clause then still stops the
  producer.
- `stop_tokens`: a completed sample that ended on a stop token or string, sent again with
  its aborted group and refused by a paused worker, loses its mark and is continued
  beyond its stop. With `EndKinds = {"eos"}`, where the last token is recognised,
  `NothingAfterEnd` holds (`group_samples`).
- `epoch_boundary`: a checkpoint taken when the last prompt of an epoch has been drawn
  stores that epoch with position 0; the resumed run walks the same permutation again.
- `recovered_label`: with a sync interval above 1, a worker restarted between two
  syncs serves the weights of the model path under the label of the last sync.

Further remarks, without a run of their own:

- A round that starts around a sync labels its groups with the version before it
  (`agent_loop_manager.py:557-590`), although the comment at lines 740-741 promises the
  version in use. `LabelsNeverOverstate` is the half that holds: a label errs only to
  the old side, so groups expire too early, never too late.
- `produce_loop` may write EXPIRED_BATCH over UPDATE_WEIGHT_AND_ABORT (lines 856-860),
  a transition the docstring of the status (105-116) does not list.
  `ExpiredStatusIsTrue`, `QuietEngineAtSync` and `TrainingEnds` show that it does no harm.
- `max_staleness` counts sync periods although its docstring says model steps, and a
  step skipped as EXPIRED_BATCH becomes the `model_step` of weights that were trained
  one step earlier.
- `handle_task_exception` (`rl/utils/async_utils.py`) says that it raises again; in a
  done callback the loop only logs what it raises. When a task of the producer raises,
  the producer ends, and `get_batch` polls for groups nobody will produce. This is why
  `TrainingEnds` of the disaggregated trainer allows `PollsInVain`.
- With `checkpoint_maxkeep` 1 the old checkpoint is deleted before the meta file names
  the new one: a crash in between leaves a restart with a name whose directory is gone.
- `checkpoint_maxkeep` is the "Maximum number of native checkpoints to keep"
  (`rl_trainer.py:364-365`), but only within one `exp_dir`, and the meta file names an
  experiment from its first checkpoint on (`rl_trainer.py:721-724`). A restart before
  that opens another timestamped `exp_dir` (`trainer.py:203-222`); a checkpoint that was
  written, in whole or in part, but not yet listed stays in the old one, in no list.
  Each such stop leaves one directory (`DiskBounded`, third conjunct); once a checkpoint
  is listed a stop leaves nothing behind.
- `rollout/utils.py:126` says that the checker is resumed once generation has begun;
  after a recovery `recover_failed_workers` resumes it already between two generations
  (`controller.py:289`), while workers are asleep. `ActiveWorkersServe`
  holds all the same.

## 6. Abstractions

- Judgement is a prophecy: whether `is_valid_sample_fn` will reject a completed group
  is chosen when it finishes (`FILTERED`).
- Insertion order among equally stale groups is left open, so every tie is explored.
- `DisaggTraining` has one task; `pause_generation` acts on the engine when
  `pause_produce` starts; the `continue_generation` of the producer may be answered
  before or after it. In `GroupSamples` each worker is paused and continued freely.
- A group whose task raised is not looked at again. Requests of its siblings that are
  still out go on as orphans, and their answers reach nobody.
- An eos token is part of the response ids. The chat endpoint (no token ids), prompts
  that end on eos and multi-turn tool loops are left out of `GroupSamples`.
- Rewards, logging, progress bars, timing and payload formats are left out.
- In `ColocatedTraining` weights are the set of groups they were trained on and are
  compared exactly. The loaders of all tasks are written in one action. A crash while
  the meta file is written leaves it empty; every later start then raises while
  parsing it (`Unstartable`), which `TrainingEnds` allows. Only `SyncProduceStrategy` is used, whose put has no stale
  threshold; `auto_resume` is on, and a resumed run skips loading the initial weights
  (`rl_trainer.py:593`). Evaluation, HF export and the debug modes are left out.
- `WorkerPool` has one engine per worker. Sleeping and waking keep the weights of a
  server; ports and URLs are identities that do not change. The clock of the router is
  the train step. Repeated probes of one worker are one step that may answer either
  way. A restarted server holds the weights of the model path.

**Not modelled**, with the reasons also in `PROJECT.json`:

- resuming into the disaggregated loop (no checkpoint of it can exist, since its save
  raises) and several tasks in it;
- the SQLite and pandas back ends of the buffer, which answer the same queries;
- `RouterAgentLoop`, whose counters decide throughput and no outcome; judgers,
  evaluator, gateway and parsers, which compute or translate; metric writers, whose
  output nothing reads back; reservation of CPU bundles before the run starts;
- models, losses, kernels, advantage estimators and the supervised loop: tensor
  computation in one thread of control, with no state that order could break;
- the legacy `xtuner` packages, `gcltuner`, `peft`, `projects` and `examples`:
  sequential scripts, configurations and third-party code. They are most of the
  repository's lines.

## 7. Plan

Done: the disaggregated pipeline with tasks that raise and its abstract
specifications; the samples of one group; the colocated trainer with checkpoints,
crashes and restarts, and the split of batches between tasks; the worker pool with
router, health checker and recovery. All safety properties and all four refinements
are proved.

What is left, most useful first:

1. Recovery of workers inside the disaggregated loop: `WorkerPool` under two
   coroutines instead of one thread of control.
2. Several tasks in `DisaggTraining`, with a buffer and a target for each.
3. A theorem about the draws of a run whose checkpoint falls on the end of an epoch:
   which prompts are repeated, and that no others are.
4. The SQLite back end of the buffer, where a save and a put meet in one file.
