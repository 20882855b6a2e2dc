------------------------------ MODULE Staleness ------------------------------
(***************************************************************************)
(* The staleness arithmetic every part of the rollout pipeline shares:     *)
(* how many training steps the weights that generated a sample lag behind  *)
(* the step that trains on it, and when that lag is too long.              *)
(***************************************************************************)
EXTENDS Integers

CONSTANTS
  MaxStaleness,   \* AsyncProduceStrategyConfig.max_staleness, in sync periods
  SyncInterval    \* sync_weights_interval, in training steps

\* The two ValueErrors calculate_stale_threshold raises.
ASSUME StalenessAssumption ==
  /\ MaxStaleness \in Nat
  /\ SyncInterval \in Nat \ {0}

\* A group that holds no response token carries no version at all.
NoTokens == -1

\* A version that may be absent: the oldest of two, ignoring an absent one.
OldestVersion(a, b) ==
  IF a = NoTokens THEN b
  ELSE IF b = NoTokens \/ a <= b THEN a ELSE b

CalculateSeqStaleness(modelStep, trainStep) == trainStep - modelStep - 1

StaleThreshold == (MaxStaleness + 1) * SyncInterval

\* A sequence without tokens counts as fresh.
SeqStaleness(version, trainStep) ==
  IF version = NoTokens THEN 0 ELSE CalculateSeqStaleness(version, trainStep)

IsStale(version, trainStep) == SeqStaleness(version, trainStep) >= StaleThreshold

\* Mutant: the threshold itself is still allowed.
IsModelBeyond(trainStep, modelStep) ==
  CalculateSeqStaleness(modelStep, trainStep) > StaleThreshold

\* Producing for trainStep with the weights of modelStep would give samples
\* that are already stale when trainStep consumes them.
IsModelExpired(trainStep, modelStep) ==
  CalculateSeqStaleness(modelStep, trainStep) >= StaleThreshold
=============================================================================
