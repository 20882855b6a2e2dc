----------------------------- MODULE WorkerPool -----------------------------
(***************************************************************************)
(* The rollout workers of the colocated trainer: the controller's calls to *)
(* them in the order of one train step, the health checker's thread, the   *)
(* recovery of workers it has given up, and the train workers that send    *)
(* them new weights.  Inference servers die at any moment.                 *)
(*                                                                         *)
(* The trainer and the controller are one thread of control: every call is *)
(* waited for.  A broadcast goes to the workers that were active when it   *)
(* began; each of them performs it in its own time.                        *)
(***************************************************************************)
EXTENDS SessionRouter

CONSTANTS
  TotalSteps,    \* total_train_steps
  SyncInterval,  \* sync_weights_interval
  MaxFaults      \* bound of the model: servers that die, and checks that a living one fails

ASSUME PoolAssumption ==
  /\ TotalSteps \in Nat \ {0}
  /\ SyncInterval \in Nat \ {0}
  /\ MaxFaults \in Nat

VARIABLES
  \* per worker
  isActive,   \* WorkerInfo.is_active
  server,     \* its inference server, "up" or "dead"
  memory,     \* of the server: "asleep", "weights" (no KV cache) or "awake"
  held,       \* the train step of the weights in the server, 0 for the base model
  aborting,   \* receive_abort_request is set
  rolloutUrl, \* the train worker of the rank has a rollout_url
  \* the trainer and the controller
  pc, step, modelStep,
  todo,       \* workers that have not yet performed the call that is waited for
  answered,   \* a request of this generation was completed
  \* the health checker's thread
  paused,     \* _pause_event
  checker,    \* "waiting", "checking" or "shutting"
  toCheck,    \* workers of the snapshot whose check has not returned
  sick,       \* workers that failed and are still to be marked
  toShut,     \* inactive_workers that are still to be shut down
  faults      \* faults so far

workerVars  == <<isActive, server, memory, held, aborting, rolloutUrl>>
trainerVars == <<pc, step, modelStep, todo, answered>>
checkerVars == <<checker, toCheck, sick, toShut>>
vars == <<routerVars, workerVars, trainerVars, paused, checkerVars, faults>>

SyncDue == step % SyncInterval = 0
Over    == pc \in {"crashed", "done"}
Active  == {w \in Ranks : isActive[w]}

\* Both sides load the same model; the checker starts paused.
Init ==
  /\ RouterInit
  /\ isActive = [w \in Ranks |-> TRUE] /\ server = [w \in Ranks |-> "up"]
  /\ memory = [w \in Ranks |-> "awake"] /\ held = [w \in Ranks |-> 0]
  /\ aborting = [w \in Ranks |-> FALSE] /\ rolloutUrl = [w \in Ranks |-> TRUE]
  /\ pc = "start" /\ step = 1 /\ modelStep = 0 /\ todo = {} /\ answered = FALSE
  /\ paused = TRUE
  /\ checker = "waiting" /\ toCheck = {} /\ sick = {} /\ toShut = {}
  /\ faults = 0

\* Workers are gone through in the order of their ranks.
First(w, workers) == w \in workers /\ \A v \in workers : w <= v

\* The server process of w ends, and with it what was in its memory.
Kill(w) ==
  /\ server' = [server EXCEPT ![w] = "dead"]
  /\ memory' = [memory EXCEPT ![w] = "asleep"]
  /\ held' = [held EXCEPT ![w] = 0]

-----------------------------------------------------------------------------
(***************************************************************************)
(* Broadcasts.                                                             *)
(***************************************************************************)
\* The previous call has returned and the next one goes to `workers'.
Calls(from, to, workers) ==
  /\ pc = from /\ todo = {}
  /\ pc' = to
  /\ todo' = workers

\* Worker w performs a call to its server, an assertion on the reply that stops
\* the training when the server is dead.
Requests(w, at) ==
  /\ pc = at /\ w \in todo
  /\ todo' = todo \ {w}
  /\ pc' = IF server[w] = "up" THEN pc ELSE "crashed"

-----------------------------------------------------------------------------
(***************************************************************************)
(* Generation: produce_batch.                                              *)
(***************************************************************************)
\* Mutant: the abort flag stays set.
ContinueStillAborting ==
  /\ Calls("start", "generate", {})
  /\ paused' = FALSE
  /\ UNCHANGED <<routerVars, isActive, server, memory, held, aborting, rolloutUrl, step, modelStep,
                 answered, checkerVars, faults>>

\* Mutant: the health checker is not resumed.
ContinueUnchecked ==
  /\ Calls("start", "generate", {})
  /\ aborting' = [w \in Ranks |-> aborting[w] /\ ~ isActive[w]]
  /\ UNCHANGED <<routerVars, isActive, server, memory, held, rolloutUrl, step, modelStep,
                 answered, paused, checkerVars, faults>>

\* continue_generation resumes the checker and clears the abort flag of the
\* active workers.  The flags are read by requests alone, so that the workers
\* may do it at once.
ContinueGeneration ==
  /\ Calls("start", "generate", {})
  /\ paused' = FALSE
  /\ aborting' = [w \in Ranks |-> aborting[w] /\ ~ isActive[w]]
  /\ UNCHANGED <<routerVars, isActive, server, memory, held, rolloutUrl, step, modelStep,
                 answered, checkerVars, faults>>

Serves(w) == server[w] = "up" /\ memory[w] = "awake" /\ ~ aborting[w]

\* RolloutController.generate for one request of a session.  Without a worker,
\* or from one that does not serve, it comes back failed or aborted.
Generate(session) ==
  /\ pc = "generate"
  /\ \E worker \in Ranks \cup {NoWorker} :
       /\ GetWorker(session, isActive, step, worker)
       /\ answered' = (answered \/ (worker # NoWorker /\ Serves(worker)))
  /\ UNCHANGED <<workerVars, pc, step, modelStep, todo, paused, checkerVars, faults>>

\* The batch is complete, which takes at least one completed request.  The flag
\* is set even when the abort request that follows it fails.
PauseGeneration ==
  /\ answered
  /\ Calls("generate", "paused", {})
  /\ paused' = TRUE
  /\ aborting' = [w \in Ranks |-> aborting[w] \/ isActive[w]]
  /\ UNCHANGED <<routerVars, isActive, server, memory, held, rolloutUrl, step, modelStep,
                 answered, checkerVars, faults>>

-----------------------------------------------------------------------------
(***************************************************************************)
(* Training and the recovery of failed workers.                            *)
(***************************************************************************)
\* _train_one_batch releases the memory of the rollout workers.
Offload ==
  /\ Calls("paused", "offloading", Active)
  /\ UNCHANGED <<routerVars, workerVars, step, modelStep, answered, paused, checkerVars,
                 faults>>

WorkerOffloads(w) ==
  /\ Requests(w, "offloading")
  /\ memory' = [memory EXCEPT ![w] = "asleep"]
  /\ UNCHANGED <<routerVars, isActive, server, held, aborting, rolloutUrl, step, modelStep,
                 answered, paused, checkerVars, faults>>

\* After the optimizer step: recover_failed_workers pauses the checker and goes
\* through the workers that are inactive now.
RecoverFailedWorkers ==
  /\ paused' = TRUE
  /\ LET failed == Ranks \ Active
     IN Calls("offloading", IF failed = {} THEN "recovered" ELSE "restarting", failed)
  /\ UNCHANGED <<routerVars, workerVars, step, modelStep, answered, checkerVars, faults>>

\* init_dist_port and init: a new server with the weights of the model path, or
\* none within the timeout, which leaves the worker inactive.
Relaunch(w) ==
  /\ pc = "restarting" /\ First(w, todo)
  /\ \/ /\ server' = [server EXCEPT ![w] = "up"]
        /\ memory' = [memory EXCEPT ![w] = "awake"]
        /\ held' = [held EXCEPT ![w] = 0]
        /\ pc' = "confirming" /\ UNCHANGED todo
     \/ Kill(w) /\ todo' = todo \ {w} /\ UNCHANGED pc
  /\ aborting' = [aborting EXCEPT ![w] = FALSE]
  /\ UNCHANGED <<routerVars, isActive, rolloutUrl, step, modelStep, answered, paused,
                 checkerVars, faults>>

\* check_health decides whether the worker is active again.
ConfirmRestart(w) ==
  /\ pc = "confirming" /\ First(w, todo)
  /\ isActive' = [isActive EXCEPT ![w] = (server[w] = "up")]
  /\ pc' = "restarting" /\ todo' = todo \ {w}
  /\ UNCHANGED <<routerVars, server, memory, held, aborting, rolloutUrl, step, modelStep,
                 answered, paused, checkerVars, faults>>

FinishRecovery ==
  /\ Calls("restarting", "recovered", {})
  /\ paused' = FALSE
  /\ UNCHANGED <<routerVars, workerVars, step, modelStep, answered, checkerVars, faults>>

-----------------------------------------------------------------------------
(***************************************************************************)
(* Switching back to rollout: _sync_weights_and_save.                      *)
(***************************************************************************)
\* Mutant: a url that has become None stays None.
BoundOnce == [w \in Ranks |-> rolloutUrl[w] /\ isActive[w]]

\* update_rollout_info: the url of a worker that is not active is None.
Bound == [w \in Ranks |-> isActive[w]]

\* bind_train_rollout, on a step that synchronises the weights.
BindTrainRollout ==
  /\ Calls("recovered", "bound", {})
  /\ rolloutUrl' = IF SyncDue THEN Bound ELSE rolloutUrl
  /\ UNCHANGED <<routerVars, isActive, server, memory, held, aborting, step, modelStep,
                 answered, paused, checkerVars, faults>>

OnloadWeights ==
  /\ Calls("bound", "onloading_weights", Active)
  /\ UNCHANGED <<routerVars, workerVars, step, modelStep, answered, paused, checkerVars,
                 faults>>

WorkerOnloadsWeights(w) ==
  /\ Requests(w, "onloading_weights")
  /\ memory' = [memory EXCEPT ![w] = IF @ = "asleep" THEN "weights" ELSE @]
  /\ UNCHANGED <<routerVars, isActive, server, held, aborting, rolloutUrl, step, modelStep,
                 answered, paused, checkerVars, faults>>

\* update_weights: a train worker without a rollout_url skips the request.
UpdateWeights ==
  /\ Calls("onloading_weights", "updating",
           IF SyncDue THEN {w \in Ranks : rolloutUrl[w]} ELSE {})
  /\ UNCHANGED <<routerVars, workerVars, step, modelStep, answered, paused, checkerVars,
                 faults>>

TrainWorkerSends(w) ==
  /\ Requests(w, "updating")
  /\ held' = [held EXCEPT ![w] = step]
  /\ UNCHANGED <<routerVars, isActive, server, memory, aborting, rolloutUrl, step, modelStep,
                 answered, paused, checkerVars, faults>>

OnloadKvCache ==
  /\ Calls("updating", "onloading_kvcache", Active)
  /\ UNCHANGED <<routerVars, workerVars, step, modelStep, answered, paused, checkerVars,
                 faults>>

WorkerOnloadsKvCache(w) ==
  /\ Requests(w, "onloading_kvcache")
  /\ memory' = [memory EXCEPT ![w] = "awake"]
  /\ UNCHANGED <<routerVars, isActive, server, held, aborting, rolloutUrl, step, modelStep,
                 answered, paused, checkerVars, faults>>

EndStep ==
  /\ Calls("onloading_kvcache", IF step = TotalSteps THEN "done" ELSE "start", {})
  /\ step' = step + 1
  /\ modelStep' = IF SyncDue THEN step ELSE modelStep
  /\ answered' = FALSE
  /\ UNCHANGED <<routerVars, workerVars, paused, checkerVars, faults>>

-----------------------------------------------------------------------------
(***************************************************************************)
(* RolloutHealthChecker.                                                   *)
(***************************************************************************)
\* run_once begins with a snapshot of the active workers; a pause does not
\* interrupt it.
CheckerStarts ==
  /\ ~ Over /\ checker = "waiting" /\ ~ paused /\ Active # {}
  /\ checker' = "checking" /\ toCheck' = Active
  /\ UNCHANGED <<routerVars, workerVars, trainerVars, paused, sick, toShut, faults>>

\* check_worker_health of one worker, all its attempts together.
CheckerProbes(w) ==
  /\ ~ Over /\ w \in toCheck
  /\ toCheck' = toCheck \ {w}
  /\ \/ server[w] = "up" /\ UNCHANGED <<sick, faults>>
     \/ server[w] = "dead" /\ sick' = sick \cup {w} /\ UNCHANGED faults
     \/ /\ server[w] = "up" /\ faults < MaxFaults
        /\ faults' = faults + 1
        /\ sick' = sick \cup {w}
  /\ UNCHANGED <<routerVars, workerVars, trainerVars, paused, checker, toShut>>

\* Once all checks are back the sick workers are marked one by one.
CheckerMarks(w) ==
  /\ ~ Over /\ toCheck = {} /\ First(w, sick)
  /\ isActive' = [isActive EXCEPT ![w] = FALSE]
  /\ sick' = sick \ {w}
  /\ toShut' = toShut \cup {w}
  /\ UNCHANGED <<routerVars, server, memory, held, aborting, rolloutUrl, trainerVars, paused,
                 checker, toCheck, faults>>

\* Then each is put to sleep and shut down, whatever has become of it.
CheckerOffloads(w) ==
  /\ ~ Over /\ checker = "checking" /\ toCheck = {} /\ sick = {} /\ First(w, toShut)
  /\ memory' = [memory EXCEPT ![w] = "asleep"]
  /\ checker' = "shutting"
  /\ UNCHANGED <<routerVars, isActive, server, held, aborting, rolloutUrl, trainerVars, paused,
                 toCheck, sick, toShut, faults>>

CheckerShutsDown(w) ==
  /\ ~ Over /\ checker = "shutting" /\ First(w, toShut)
  /\ Kill(w)
  /\ toShut' = toShut \ {w}
  /\ checker' = "checking"
  /\ UNCHANGED <<routerVars, isActive, aborting, rolloutUrl, trainerVars, paused, toCheck, sick,
                 faults>>

CheckerWaits ==
  /\ ~ Over /\ checker = "checking" /\ toCheck = {} /\ sick = {} /\ toShut = {}
  /\ checker' = "waiting"
  /\ UNCHANGED <<routerVars, workerVars, trainerVars, paused, toCheck, sick, toShut, faults>>

-----------------------------------------------------------------------------
\* A server dies on its own.
ServerDies(w) ==
  /\ ~ Over /\ server[w] = "up" /\ faults < MaxFaults
  /\ Kill(w)
  /\ faults' = faults + 1
  /\ UNCHANGED <<routerVars, isActive, aborting, rolloutUrl, trainerVars, paused, checkerVars>>

Terminated == Over /\ UNCHANGED vars

Worker(w) == \/ WorkerOffloads(w) \/ WorkerOnloadsWeights(w) \/ TrainWorkerSends(w)
             \/ WorkerOnloadsKvCache(w) \/ Relaunch(w) \/ ConfirmRestart(w)

Trainer == \/ ContinueGeneration \/ PauseGeneration \/ Offload
           \/ RecoverFailedWorkers \/ FinishRecovery \/ BindTrainRollout \/ OnloadWeights
           \/ UpdateWeights \/ OnloadKvCache \/ EndStep
           \/ \E w \in Ranks : Worker(w)

Requesting == \E session \in Sessions : Generate(session)

Checker == \/ CheckerStarts \/ CheckerWaits
           \/ \E w \in Ranks : \/ CheckerProbes(w) \/ CheckerMarks(w) \/ CheckerOffloads(w)
                              \/ CheckerShutsDown(w)

Next == Trainer \/ Requesting \/ Checker \/ (\E w \in Ranks : ServerDies(w)) \/ Terminated

Spec == Init /\ [][Next]_vars

\* The trainer's thread and the checker's thread are always scheduled, and the
\* agent loops go on sending requests while a batch is incomplete.
FairSpec == Spec /\ WF_vars(Trainer) /\ WF_vars(Requesting) /\ WF_vars(Checker)

-----------------------------------------------------------------------------
(***************************************************************************)
(* Properties.                                                             *)
(***************************************************************************)
TypeOK ==
  /\ \A i \in DOMAIN map : map[i] \in [session : Sessions, rank : Ranks, used : 1 .. TotalSteps]
  /\ cycler \in Ranks
  /\ isActive \in [Ranks -> BOOLEAN] /\ server \in [Ranks -> {"up", "dead"}]
  /\ memory \in [Ranks -> {"asleep", "weights", "awake"}]
  /\ held \in [Ranks -> 0 .. TotalSteps]
  /\ aborting \in [Ranks -> BOOLEAN] /\ rolloutUrl \in [Ranks -> BOOLEAN]
  /\ pc \in {"start", "generate", "paused", "offloading", "restarting", "confirming",
             "recovered", "bound", "onloading_weights", "updating",
             "onloading_kvcache", "crashed", "done"}
  /\ step \in 1 .. TotalSteps + 1 /\ modelStep \in 0 .. TotalSteps
  /\ todo \in SUBSET Ranks /\ answered \in BOOLEAN /\ paused \in BOOLEAN
  /\ checker \in {"waiting", "checking", "shutting"}
  /\ toCheck \in SUBSET Ranks /\ sick \in SUBSET Ranks /\ toShut \in SUBSET Ranks
  /\ faults \in 0 .. MaxFaults

\* The model_step that produce_batch is given is the version of the weights the
\* rollout workers hold, also of those that died and were restarted.  It needs
\* a recovery to be followed by a bind and an update, which is so only on the
\* steps that synchronise the weights.
LabelIsHeld ==
  pc = "generate" => \A w \in Active : server[w] = "up" => held[w] = modelStep

\* While a batch is generated an active worker whose server lives takes requests,
\* unless the health checker still has to shut it down from an earlier round.
ActiveWorkersServe ==
  pc = "generate" => \A w \in Active : server[w] = "up" => Serves(w) \/ w \in toShut

\* After a request no session is in the table that was idle for too long, although
\* _evict_expired stops at the first entry that is not: sessions that are popped,
\* moved and routed again leave the table in the order of last use.
ForgetsIdle ==
  [][map' # map => \A i \in DOMAIN map' : ~ Idle(map'[i], step)]_vars

\* A session that is not idle keeps its worker as long as that is active.
StaysWithWorker ==
  [][\A i \in DOMAIN map, j \in DOMAIN map' :
       /\ map[i].session = map'[j].session
       /\ ~ Idle(map[i], step) /\ isActive[map[i].rank]
       => map'[j].rank = map[i].rank]_vars

\* Whatever dies and whatever the checker gives up, the training ends or stops
\* with an error, unless every worker was given up within one generation: then
\* all requests fail and nothing recovers a worker before the batch is complete.
TrainingEnds == <>Over \/ <>[](pc = "generate" /\ Active = {})
=============================================================================
