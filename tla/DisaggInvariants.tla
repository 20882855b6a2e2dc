-------------------------- MODULE DisaggInvariants --------------------------
(***************************************************************************)
(* The inductive invariant behind the safety properties of DisaggTraining: *)
(* what each of them needs to know about every reachable state.            *)
(***************************************************************************)
EXTENDS DisaggTraining

\* The event stays set from pause_produce to continue_produce, and when the
\* drain is over nothing is pending.
QuietInv ==
  /\ trainer \in {"drain", "cleanup", "sync", "eval", "resume", "failed"}
       => updateEvent
  /\ trainer \in {"cleanup", "sync", "eval", "resume", "failed"} => Pending = {}

\* The versions the coroutines hold never run ahead of the engine's weights; a
\* failed save is the exception, and nothing is put after it.
VersionInv ==
  /\ weights <= trainStep
  /\ trainer \in {"eval", "resume"} => weights = trainStep
  /\ modelStep <= trainStep
  /\ trainer # "failed" => modelStep <= weights /\ ctx.model <= weights

\* A label is never newer than the oldest token, and what put is about to
\* record keeps it so.
LabelOK(r) ==
  /\ r.stage \in {"running", "aborting"} => r.since = weights /\ ~ r.gained
  /\ ~ r.gained => r.ver <= r.act /\ (r.ver = NoTokens <=> r.act = NoTokens)
  /\ r.gained => /\ r.stage = "finished"
                 /\ r.act # NoTokens
                 /\ OldestVersion(r.ver, weights) <= r.act

LabelInv == \A g \in Groups : LabelOK(group[g])

\* The batch exists only while the optimizer runs, and was fresh when taken.
BatchOK(r) ==
  r.stage = "batch" =>
    /\ trainer = "train"
    /\ r.status = "COMPLETED"
    /\ ~ IsStale(r.ver, trainStep)

BatchInv ==
  /\ trainer = "poll" => consumerStep = trainStep
  /\ \A g \in Groups : BatchOK(group[g])

\* The producer works only on steps its weights may serve.
LookaheadInv ==
  /\ futureStep <= modelStep + StaleThreshold + 1
  /\ producer \in {"gather", "loop", "wait", "normal"}
       => futureStep <= modelStep + StaleThreshold

\* The buffer is judged for the present step or the next one, the weights are
\* older than the step until they are replaced, and the optimizer has a batch.
StepInv ==
  /\ trainStep <= TotalSteps
  /\ trainStep <= consumerStep /\ consumerStep <= trainStep + 1
  /\ trainer \in {"poll", "train", "pause", "drain", "cleanup", "sync"}
       => weights < trainStep
  /\ trainer = "train" => \E g \in Groups : group[g].stage = "batch"

\* A round never asks for more than the cumulative target.
TargetInv == ctx.target <= TargetSamples

IInv ==
  /\ TypeOK
  /\ QuietInv
  /\ VersionInv
  /\ LabelInv
  /\ BatchInv
  /\ BufferFresh
  /\ ExpiredStatusIsTrue
  /\ LookaheadInv
  /\ BoundedLookahead
  /\ StepInv
  /\ TargetInv
=============================================================================
