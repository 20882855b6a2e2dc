SPECIFICATION FairSpec
CONSTANTS
  Groups = {g1, g2, g3, g4}
  BatchSize = 1
  OversampleBudget = 1
  TailTrigger = 1
  Partial = TRUE
  TotalSteps = 2
  MaxStaleness = 1
  SyncInterval = 1
  CheckpointInterval = 2
  EvaluateStep = 2
  AwaitsYield = TRUE
  MaxFaults = 1
  g1 = g1
  g2 = g2
  g3 = g3
  g4 = g4
INVARIANT IInv
INVARIANT QuietEngineAtSync
INVARIANT ExpiredStatusIsTrue
INVARIANT BoundedLookahead
PROPERTY ShutdownJoins
