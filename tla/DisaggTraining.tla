--------------------------- MODULE DisaggTraining ---------------------------
(***************************************************************************)
(* Disaggregated reinforcement learning: a producer coroutine              *)
(* (AgentLoopManager.produce_loop with AsyncProduceStrategy) fills the     *)
(* replay buffer in the background while the trainer coroutine             *)
(* (RLDisaggregatedTrainer._fit) consumes batches, and stops the producer  *)
(* whenever it pushes new weights to the rollout engine.                   *)
(*                                                                         *)
(* Both coroutines run on one asyncio loop.  An action is the code between *)
(* two awaits that can really suspend: a Ray call, asyncio.wait, sleep,    *)
(* gather.  The storage coroutines and the locks around them never suspend *)
(* (no critical section contains an await that does), so claiming a set of *)
(* finished tasks and putting them into the buffer is one step, and so is  *)
(* filling the pending set.                                                *)
(***************************************************************************)
EXTENDS RolloutGroup, FiniteSets

CONSTANTS
  Groups,            \* identities for prompt groups; one is recycled when
                     \* nothing can read the group it stood for any more
  BatchSize,         \* train_batch_size, in groups
  OversampleBudget,  \* ceil(over_sample_threshold * task_batch_size)
  TotalSteps,        \* total_train_steps
  CheckpointInterval,\* checkpoint_interval, 0 when it is None or -1
  EvaluateStep,      \* evaluate_step, 0 when evaluation is disabled
  AwaitsYield,       \* FALSE: asyncio runs a coroutine on to a suspension, and a
                     \* Ray call is answered in a later iteration of the loop;
                     \* TRUE: the coroutines interleave at every step of the model
  MaxFaults          \* bound of the model: groups that fail or are filtered

\* _validate_sync_intervals and the pydantic fields.
ASSUME DisaggAssumption ==
  /\ BatchSize \in Nat \ {0}
  /\ OversampleBudget \in Nat
  /\ TotalSteps \in Nat \ {0}
  /\ CheckpointInterval \in Nat
  /\ EvaluateStep \in Nat
  /\ CheckpointInterval % SyncInterval = 0
  /\ EvaluateStep % SyncInterval = 0
  /\ AwaitsYield \in BOOLEAN
  /\ MaxFaults \in Nat

VARIABLES
  \* AgentLoopManager
  status,        \* _status
  updateEvent,   \* _update_event.is_set()
  finishEvent,   \* _finish_event.is_set()
  modelStep,     \* _model_step
  \* ProduceProgress
  consumerStep,  \* next_consumer_step
  futureStep,    \* producer_future_step
  targetUpto,    \* target_upto_future_step
  consumed,      \* consumed_samples of the task
  \* the groups: replay buffer, pending tasks and the batch in training
  group,
  \* the producer coroutine: where it is suspended, and its ProduceContext
  producer, ctx,
  \* the trainer coroutine: where it is suspended, and its train_step
  trainer, trainStep,
  \* the last step that ran the optimizer
  lastTrained,
  \* the rollout engine: the step whose weights it holds, its abort flag
  weights, paused,
  faults         \* failed or filtered groups so far

managerVars  == <<status, updateEvent, finishEvent, modelStep>>
progressVars == <<consumerStep, futureStep, targetUpto, consumed>>
producerVars == <<producer, ctx>>
trainerVars  == <<trainer, trainStep, lastTrained>>
engineVars   == <<weights, paused>>
vars == <<managerVars, progressVars, group, producerVars, trainerVars,
          engineVars, faults>>

-----------------------------------------------------------------------------
(***************************************************************************)
(* Who holds which group.                                                  *)
(***************************************************************************)
InStage(S) == {g \in Groups : group[g].stage \in S}
Pending    == InStage({"running", "aborting", "finished"})
Finished   == InStage({"finished"})
Buffered(st) == {g \in InStage({"buffer"}) : group[g].status = st}

\* Finished tasks whose result() raises.
Raised == {g \in Finished : group[g].status = "RAISED"}

\* _put_claimed, and the loop body of pause_produce: every finished task that
\* is still pending is claimed once and goes into the buffer.
PutClaimed(step) ==
  /\ Raised = {}
  /\ group' = [g \in Groups |->
       IF g \in Finished THEN PutGroup(group[g], step, consumerStep) ELSE group[g]]

\* The claimed tasks are a set: some are put before result() raises, and the
\* others are no longer pending and never put.
ClaimRaises(step) ==
  /\ Raised # {}
  /\ \E put \in SUBSET (Finished \ Raised) :
       group' = [g \in Groups |->
         IF g \in put THEN PutGroup(group[g], step, consumerStep)
         ELSE IF g \in Finished THEN FromDataset ELSE group[g]]

\* ProduceContext.available_count.
Available == consumed + Cardinality(Buffered("COMPLETED"))

\* ProduceProgress.target_samples of the only task.
TargetSamples == BatchSize * targetUpto

\* StalenessReplayPolicy.get sorts by (-staleness, timestamp_id); insertion
\* order among equally stale groups is left open.
Staler(g, h) ==
  SeqStaleness(group[g].ver, consumerStep) > SeqStaleness(group[h].ver, consumerStep)

\* Sampler.sample: the pools in the order they are tried.
SampleRank(g, tail) ==
  CASE tail /\ g \in Buffered("EXPIRED") -> 1
    [] g \in Buffered("ABORTED")         -> 2
    [] g \in InStage({"dataset"})        -> 3
    [] OTHER                             -> 4

\* S is what sampling |S| times in a row returns.
SampledInOrder(S, tail) ==
  /\ \A g \in S : SampleRank(g, tail) < 4
  /\ \A g \in S, h \in Groups \ S :
       /\ SampleRank(g, tail) <= SampleRank(h, tail)
       /\ SampleRank(g, tail) = SampleRank(h, tail) => ~ Staler(h, g)

-----------------------------------------------------------------------------
Init ==
  /\ status = "NORMAL"
  /\ updateEvent = FALSE
  /\ finishEvent = FALSE
  /\ modelStep = 0
  /\ consumerStep = 1
  /\ futureStep = 1
  /\ targetUpto = 0
  /\ consumed = 0
  /\ group = [g \in Groups |-> FromDataset]
  /\ producer = "top"
  /\ ctx = [model |-> 0, target |-> 0, tail |-> FALSE]
  /\ trainer = "step"
  /\ trainStep = 0
  /\ lastTrained = 0
  /\ weights = 0
  /\ paused = FALSE
  /\ faults = 0

\* Asyncio runs a coroutine to its next suspension: the producer moves only
\* while the trainer is suspended, and the other way round.
ProducerTurn ==
  AwaitsYield \/ trainer \notin {"step", "train", "pause", "sync", "resume"}
TrainerTurn == AwaitsYield \/ producer # "loop"

\* A Ray call is answered in a later iteration of the event loop, so whatever
\* is ready to run has run by then: a producer that can see the pause has.
ProducerSettled ==
  AwaitsYield \/ producer \notin {"gather", "loop", "wait", "normal"}

ProducerAt(from, to) == ProducerTurn /\ producer = from /\ producer' = to
TrainerAt(from, to)  == TrainerTurn /\ trainer = from /\ trainer' = to

-----------------------------------------------------------------------------
(***************************************************************************)
(* The producer.  While the status is UPDATE_WEIGHT_AND_ABORT or           *)
(* EXPIRED_BATCH, _wait_for_status_exit keeps it at "top".                 *)
(***************************************************************************)
ExitLoop ==
  /\ ProducerAt("top", "exit")
  /\ finishEvent \/ status = "FINISH"
  /\ UNCHANGED <<managerVars, progressVars, group, ctx, trainerVars,
                 engineVars, faults>>

\* The round begins by asking the engine to accept requests again.
BeginRound ==
  /\ ProducerAt("top", "continue")
  /\ ~ finishEvent
  /\ status = "NORMAL"
  /\ UNCHANGED <<managerVars, progressVars, group, ctx, trainerVars,
                 engineVars, faults>>

\* The engine has answered: the target covers the future step, whatever is
\* decided next.  The status is not read again.
RoundResumes ==
  /\ paused' = FALSE
  /\ targetUpto' = IF futureStep > targetUpto THEN futureStep ELSE targetUpto
  /\ UNCHANGED <<updateEvent, finishEvent, modelStep, consumerStep, futureStep,
                 consumed, group, trainerVars, weights, faults>>

RoundExpired ==
  /\ ProducerAt("continue", "top")
  /\ IsModelExpired(futureStep, modelStep)
  /\ status' = "EXPIRED_BATCH"
  /\ RoundResumes
  /\ UNCHANGED ctx

\* The strategy's coroutine is created with the model_step of this moment and
\* runs when gather lets it.
RoundStarts ==
  /\ ProducerAt("continue", "gather")
  /\ ~ IsModelExpired(futureStep, modelStep)
  /\ ctx' = [model |-> modelStep, target |-> 0, tail |-> FALSE]
  /\ RoundResumes
  /\ UNCHANGED status

\* produce_batch up to its loop: tasks left over from an earlier round go into
\* the buffer, then the mode and the target of this round are frozen.
StartBatch ==
  /\ ProducerAt("gather", "loop")
  /\ ~ updateEvent
  /\ PutClaimed(ctx.model)
  /\ ctx' = [ctx EXCEPT
       !.target = TargetSamples,
       !.tail = /\ TailTrigger > 0
                /\ Cardinality(Buffered("EXPIRED")') >= TailTrigger]
  /\ UNCHANGED <<managerVars, progressVars, trainerVars, engineVars, faults>>

\* Mutant: the round goes on polling after the abort.
AbortRetries ==
  /\ ProducerAt("gather", "loop") \/ ProducerAt("loop", "loop")
  /\ updateEvent
  /\ UNCHANGED <<managerVars, progressVars, group, ctx, trainerVars,
                 engineVars, faults>>

AbortBatch ==
  /\ ProducerAt("gather", "top") \/ ProducerAt("loop", "top")
  /\ updateEvent
  /\ UNCHANGED <<managerVars, progressVars, group, ctx, trainerVars,
                 engineVars, faults>>

EnoughProduced ==
  /\ ProducerAt("loop", "normal")
  /\ ~ updateEvent
  /\ Available >= ctx.target
  /\ UNCHANGED <<managerVars, progressVars, group, ctx, trainerVars,
                 engineVars, faults>>

\* scheduled_target: no oversampling in a tail batch.
ScheduledTarget == ctx.target + (IF ctx.tail THEN 0 ELSE OversampleBudget)

\* Mutant: pending tasks are not counted.
ScheduleUncounted ==
  LET missing == ScheduledTarget - Available
  IN IF missing > 0 THEN missing ELSE 0

\* How many tasks schedule_one adds before it returns False.
ToSchedule ==
  LET missing == ScheduledTarget - Available - Cardinality(Pending)
  IN IF missing > 0 THEN missing ELSE 0

ScheduleGroups ==
  /\ ProducerAt("loop", "wait")
  /\ ~ updateEvent
  /\ Available < ctx.target
  /\ \E S \in SUBSET Groups :
       /\ Cardinality(S) = ToSchedule
       /\ SampledInOrder(S, ctx.tail)
       /\ group' = [g \in Groups |->
            IF g \in S THEN Launched(group[g], weights, paused) ELSE group[g]]
  /\ UNCHANGED <<managerVars, progressVars, ctx, trainerVars, engineVars, faults>>

\* wait_and_claim: a task is done or a second has passed.
WakeAndPut ==
  /\ ProducerAt("wait", "loop")
  /\ PutClaimed(ctx.model)
  /\ UNCHANGED <<managerVars, progressVars, ctx, trainerVars, engineVars, faults>>

\* The exception of a task ends produce_loop.  Nobody looks at producer_task
\* before the finally clause of _fit.
ProducerRaises ==
  /\ (ProducerAt("gather", "raised") /\ ~ updateEvent) \/ ProducerAt("wait", "raised")
  /\ ClaimRaises(ctx.model)
  /\ UNCHANGED <<managerVars, progressVars, ctx, trainerVars, engineVars, faults>>

AdvanceFutureStep ==
  /\ ProducerAt("normal", "top")
  /\ futureStep' = futureStep + 1
  /\ UNCHANGED <<managerVars, consumerStep, targetUpto, consumed, group, ctx,
                 trainerVars, engineVars, faults>>

-----------------------------------------------------------------------------
(***************************************************************************)
(* The trainer.                                                            *)
(***************************************************************************)
\* Mutant: the abort is written over the group's status.
InterruptedStatus(grp) ==
  [g \in Groups |-> IF grp[g].stage = "running"
                    THEN [grp[g] EXCEPT !.status = "aborting"] ELSE grp[g]]

\* The engine aborts what it is generating.
Interrupted(grp) ==
  [g \in Groups |-> IF grp[g].stage = "running"
                    THEN [grp[g] EXCEPT !.stage = "aborting"] ELSE grp[g]]

Refreshed(step) == [g \in Groups |-> RefreshGroup(group[g], step)]

\* get_batch(train_step) up to its polling loop.
BeginConsume ==
  /\ TrainerAt("step", "poll")
  /\ trainStep < TotalSteps
  /\ trainStep' = trainStep + 1
  /\ consumerStep' = trainStep + 1
  /\ group' = Refreshed(trainStep + 1)
  /\ UNCHANGED <<managerVars, futureStep, targetUpto, consumed, producerVars,
                 lastTrained, engineVars, faults>>

\* The status is looked at before the buffer: the step is not trained.
SkipExpiredStep ==
  /\ TrainerAt("poll", "pause")
  /\ status = "EXPIRED_BATCH"
  /\ UNCHANGED <<managerVars, progressVars, group, producerVars, trainStep,
                 lastTrained, engineVars, faults>>

\* is_ready, then take_batch and mark_consumed, then the refresh for the next
\* step: nothing in between suspends.
TakeBatch ==
  /\ TrainerAt("poll", "train")
  /\ status # "EXPIRED_BATCH"
  /\ ~ finishEvent
  /\ \E S \in SUBSET Buffered("COMPLETED") :
       /\ Cardinality(S) = BatchSize
       /\ \A g \in S, h \in Buffered("COMPLETED") \ S : ~ Staler(h, g)
       /\ group' = [g \in Groups |->
            IF g \in S THEN [group[g] EXCEPT !.stage = "batch"]
                       ELSE RefreshGroup(group[g], trainStep + 1)]
  /\ consumed' = consumed + BatchSize
  /\ consumerStep' = trainStep + 1
  /\ UNCHANGED <<managerVars, futureStep, targetUpto, producerVars, trainStep,
                 lastTrained, engineVars, faults>>

NeedSync == trainStep % SyncInterval = 0 \/ trainStep = TotalSteps

TrainOneBatch ==
  /\ TrainerAt("train", IF NeedSync THEN "pause" ELSE "step")
  /\ lastTrained' = trainStep
  /\ group' = [g \in Groups |-> IF group[g].stage = "batch" THEN FromDataset
                                                            ELSE group[g]]
  /\ UNCHANGED <<managerVars, progressVars, producerVars, trainStep, engineVars,
                 faults>>

\* pause_produce: raise the signals, then drain the pending tasks.  With no
\* task pending the strategy returns before it reaches the engine.
PauseProduce ==
  /\ status' = "UPDATE_WEIGHT_AND_ABORT"
  /\ updateEvent' = TRUE
  /\ \/ /\ Pending = {}
        /\ TrainerAt("pause", "sync")
        /\ UNCHANGED <<group, paused>>
     \/ /\ Pending # {}
        /\ TrainerAt("pause", "drain")
        /\ group' = Interrupted(group)
        /\ paused' = TRUE
  /\ UNCHANGED <<finishEvent, modelStep, progressVars, producerVars, trainStep,
                 lastTrained, weights, faults>>

DrainPending ==
  /\ TrainerAt("drain", "drain")
  /\ Finished # {}
  /\ PutClaimed(modelStep)
  /\ UNCHANGED <<managerVars, progressVars, producerVars, trainStep, lastTrained,
                 engineVars, faults>>

\* The exception of a task ends _fit: its finally clause shuts the manager down.
DrainRaises ==
  /\ TrainerAt("drain", "raised")
  /\ ClaimRaises(modelStep)
  /\ status' = "FINISH"
  /\ updateEvent' = TRUE
  /\ finishEvent' = TRUE
  /\ UNCHANGED <<modelStep, progressVars, producerVars, trainStep, lastTrained,
                 engineVars, faults>>

\* The loop is over: _send cleanup_after_pause and wait for it.
DrainDone ==
  /\ TrainerAt("drain", "cleanup")
  /\ Pending = {}
  /\ UNCHANGED <<managerVars, progressVars, group, producerVars, trainStep,
                 lastTrained, engineVars, faults>>

\* Mutant: the timeout gives up without cancel_all.
TimeoutKeepsTasks ==
  /\ TrainerAt("drain", "cleanup")
  /\ Pending # {}
  /\ UNCHANGED <<managerVars, progressVars, group, producerVars, trainStep,
                 lastTrained, engineVars, faults>>

\* PENDING_TASK_COLLECT_TIMEOUT_S: cancel_all drops every pending group, the
\* finished ones included.
DrainTimeout ==
  /\ TrainerAt("drain", "cleanup")
  /\ Pending # {}
  /\ group' = [g \in Groups |-> IF g \in Pending THEN FromDataset ELSE group[g]]
  /\ UNCHANGED <<managerVars, progressVars, producerVars, trainStep, lastTrained,
                 engineVars, faults>>

CleanupDone ==
  /\ TrainerAt("cleanup", "sync")
  /\ ProducerSettled
  /\ UNCHANGED <<managerVars, progressVars, group, producerVars, trainStep,
                 lastTrained, engineVars, faults>>

CheckpointDue == CheckpointInterval > 0 /\ trainStep % CheckpointInterval = 0
EvaluateDue   == EvaluateStep > 0 /\ trainStep % EvaluateStep = 0

\* manager.save reaches asyncio_run inside the running loop, which raises; the
\* finally clause of _fit shuts the manager down.
SaveRaises ==
  /\ TrainerAt("sync", "failed")
  /\ CheckpointDue
  /\ modelStep' = trainStep
  /\ status' = "FINISH"
  /\ updateEvent' = TRUE
  /\ finishEvent' = TRUE
  /\ UNCHANGED <<progressVars, group, producerVars, trainStep, lastTrained,
                 engineVars, faults>>

\* update_weights pauses the engine, pushes the weights and resumes it.
UpdateWeights ==
  /\ TrainerAt("sync", IF EvaluateDue THEN "eval" ELSE "resume")
  /\ ~ CheckpointDue
  /\ weights' = trainStep
  /\ paused' = FALSE
  /\ UNCHANGED <<managerVars, progressVars, group, producerVars, trainStep,
                 lastTrained, faults>>

\* The evaluation manager's produce_batch leaves the shared engine paused.
Evaluate ==
  /\ TrainerAt("eval", "resume")
  /\ ProducerSettled
  /\ paused' = TRUE
  /\ group' = Interrupted(group)
  /\ UNCHANGED <<managerVars, progressVars, producerVars, trainStep, lastTrained,
                 weights, faults>>

\* Mutant: continue_produce forgets the event.
ContinueKeepsEvent ==
  /\ TrainerAt("resume", "step")
  /\ status' = "NORMAL"
  /\ modelStep' = trainStep
  /\ UNCHANGED <<updateEvent, finishEvent, progressVars, group, producerVars,
                 trainStep, lastTrained, engineVars, faults>>

\* Mutant: continue_produce leaves EXPIRED_BATCH alone.
ContinueKeepsExpired ==
  /\ TrainerAt("resume", "step")
  /\ status' = IF status = "EXPIRED_BATCH" THEN status ELSE "NORMAL"
  /\ modelStep' = trainStep
  /\ updateEvent' = FALSE
  /\ UNCHANGED <<finishEvent, progressVars, group, producerVars, trainStep,
                 lastTrained, engineVars, faults>>

ContinueProduce ==
  /\ TrainerAt("resume", "step")
  /\ status' = "NORMAL"
  /\ modelStep' = trainStep
  /\ updateEvent' = FALSE
  /\ UNCHANGED <<finishEvent, progressVars, group, producerVars, trainStep,
                 lastTrained, engineVars, faults>>

\* The loop over train_step is over: the finally clause.
Shutdown ==
  /\ TrainerAt("step", "join")
  /\ trainStep = TotalSteps
  /\ status' = "FINISH"
  /\ updateEvent' = TRUE
  /\ finishEvent' = TRUE
  /\ UNCHANGED <<modelStep, progressVars, group, producerVars, trainStep,
                 lastTrained, engineVars, faults>>

\* await producer_task raises what ended the producer.
JoinProducer ==
  /\ producer \in {"exit", "raised"}
  /\ TrainerAt("join", IF producer = "exit" THEN "done" ELSE "raised")
  /\ UNCHANGED <<managerVars, progressVars, group, producerVars, trainStep,
                 lastTrained, engineVars, faults>>

-----------------------------------------------------------------------------
(***************************************************************************)
(* The rollout engine.                                                     *)
(***************************************************************************)
FinishGroup(g) ==
  /\ group[g].stage \in {"running", "aborting"}
  /\ \E r \in Returned(group[g]) : group' = [group EXCEPT ![g] = r]
  /\ UNCHANGED <<managerVars, progressVars, producerVars, trainerVars,
                 engineVars, faults>>

FailGroup(g) ==
  /\ group[g].stage \in {"running", "aborting"}
  /\ faults < MaxFaults
  /\ faults' = faults + 1
  /\ \E r \in Failed : group' = [group EXCEPT ![g] = r]
  /\ UNCHANGED <<managerVars, progressVars, producerVars, trainerVars,
                 engineVars>>

\* get_batch goes on polling a buffer that nobody fills.
PollsInVain == trainer = "poll" /\ producer = "raised"

\* Both coroutines are over, or the trainer polls in vain.
Terminated ==
  /\ \/ trainer \in {"done", "failed", "raised"} /\ producer \in {"exit", "raised"}
     \/ PollsInVain
  /\ UNCHANGED vars

ProducerNext ==
  \/ ExitLoop \/ BeginRound \/ RoundExpired \/ RoundStarts \/ StartBatch
  \/ AbortBatch \/ EnoughProduced \/ ScheduleGroups \/ WakeAndPut
  \/ AdvanceFutureStep \/ ProducerRaises

TrainerNext ==
  \/ BeginConsume \/ SkipExpiredStep \/ TakeBatch \/ TrainOneBatch
  \/ PauseProduce \/ DrainPending \/ DrainDone \/ DrainTimeout \/ CleanupDone
  \/ DrainRaises \/ SaveRaises \/ UpdateWeights \/ Evaluate \/ ContinueProduce
  \/ Shutdown \/ JoinProducer

EngineNext == \E g \in Groups : FinishGroup(g) \/ FailGroup(g)

Next == ProducerNext \/ TrainerNext \/ EngineNext \/ Terminated

Spec == Init /\ [][Next]_vars

\* The event loop runs every ready coroutine, and the engine answers every
\* request (it has its own timeout).  Nothing makes a failure, or a drain that
\* runs into its own timeout, happen.
FairSpec ==
  /\ Spec
  /\ WF_vars(ProducerNext)
  /\ WF_vars(TrainerNext)
  /\ \A g \in Groups : WF_vars(FinishGroup(g))

-----------------------------------------------------------------------------
(***************************************************************************)
(* Properties.                                                             *)
(***************************************************************************)
\* Every variable of the two coroutines and of the engine holds a value of the
\* code's type.
TypeOK ==
  /\ status \in {"NORMAL", "UPDATE_WEIGHT_AND_ABORT", "EXPIRED_BATCH", "FINISH"}
  /\ updateEvent \in BOOLEAN
  /\ finishEvent \in BOOLEAN
  /\ modelStep \in Nat
  /\ consumerStep \in Nat
  /\ futureStep \in Nat
  /\ targetUpto \in Nat
  /\ consumed \in Nat
  /\ group \in [Groups -> GroupRecord]
  /\ producer \in {"top", "continue", "gather", "loop", "wait", "normal", "exit",
                  "raised"}
  /\ ctx \in [model: Nat, target: Nat, tail: BOOLEAN]
  /\ trainer \in {"step", "poll", "train", "pause", "drain", "cleanup", "sync",
                  "eval", "resume", "join", "done", "failed", "raised"}
  /\ trainStep \in Nat
  /\ lastTrained \in Nat
  /\ weights \in Nat
  /\ paused \in BOOLEAN
  /\ faults \in Nat

\* From the end of the drain in pause_produce to continue_produce no rollout
\* task is pending and the producer cannot add one, so neither save nor
\* update_weights nor the evaluation ever meets a request of the producer.
QuietEngineAtSync ==
  trainer \in {"cleanup", "sync", "eval", "resume", "failed"}
    => Pending = {} /\ updateEvent

\* The model_step update_sample_version records for a group never claims newer
\* weights than the oldest that really generated one of its tokens.
LabelsNeverOverstate ==
  \A g \in InStage({"buffer", "batch"}) : group[g].ver <= group[g].act

\* Whatever the buffer can still hand out is not stale for the step that will
\* consume it: put and refresh_staleness agree on next_consumer_step, although
\* the producer puts groups between any two steps of the trainer.
BufferFresh ==
  \A g \in Buffered("COMPLETED") \union Buffered("ABORTED") :
    ~ IsStale(group[g].ver, consumerStep)

\* No step trains on a token that weights beyond the staleness threshold have
\* generated, whatever the labels say ("discard samples that are too stale
\* relative to the current training step", AsyncProduceStrategyConfig).
TrainedBatchIsFresh ==
  trainer = "train" =>
    \A g \in InStage({"batch"}) :
      /\ group[g].status = "COMPLETED"
      /\ SeqStaleness(group[g].act, trainStep) < StaleThreshold

\* The window the producer was asked to fill is never overfilled: a group the
\* consumer took still counts in consumed_samples, so it is not produced again
\* (ProduceProgress).
NoOverproduction ==
  Available + Cardinality(Pending) <= TargetSamples + OversampleBudget

\* The manager says EXPIRED_BATCH only while it is true of the step it prepares
\* and of the weights it has, so get_batch skips no step for a stale reason.
ExpiredStatusIsTrue ==
  status = "EXPIRED_BATCH" => IsModelExpired(futureStep, modelStep)

\* The cumulative target never runs ahead of the weights by more than the
\* threshold and the one step whose expiry was noticed after ensure_target_upto.
BoundedLookahead == targetUpto <= modelStep + StaleThreshold + 1

\* The bookkeeping of the manager, the strategy and the buffer implements the
\* promise of OffPolicyTraining.
OffPolicy == INSTANCE OffPolicyTraining WITH
  running <- InStage({"running", "aborting"}),
  oldest  <- [g \in Groups |-> group[g].act],
  batch   <- InStage({"batch"}),
  step    <- trainStep

ImplementsOffPolicy == OffPolicy!Spec

\* What GroupLifecycle says of a single group is true of every group, whatever
\* the coroutines do to the others at the same time.
Life(g) == INSTANCE GroupLifecycle WITH r <- group[g], step <- consumerStep

EveryGroupLives ==
  /\ \A g \in Groups : Life(g)!Init
  /\ [][\A g \in Groups :
          Life(g)!Next \/ UNCHANGED <<group[g], weights, paused, consumerStep>>]_vars

\* The trainer reaches its last step and both coroutines stop.  A task that
\* raised (worker.generate does on an unknown HTTP error) ends _fit with its
\* exception, at the next drain or at the join; but get_batch watches only its
\* own event and the buffer, and when the producer took the exception and the
\* batch of the step is not in the buffer, it polls for ever.
TrainingEnds ==
  \/ <>(trainer = "done" /\ producer = "exit")
  \/ <>(trainer = "raised" /\ producer \in {"exit", "raised"})
  \/ <>[]PollsInVain

\* Once shutdown has raised its signals, after the last step, a failed save or an
\* exception in the drain, the producer is over and _fit joins it.
ShutdownJoins ==
  finishEvent ~> (/\ producer \in {"exit", "raised"}
                  /\ trainer \in {"done", "failed", "raised"})

-----------------------------------------------------------------------------
(***************************************************************************)
(* What the documentation says and the code does not do.                   *)
(***************************************************************************)
\* _maybe_save_checkpoint saves a checkpoint when the interval is met.  In the
\* disaggregated trainer the save of the replay buffer always raises.
CheckpointSaved == trainer # "failed"
=============================================================================
