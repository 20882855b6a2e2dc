SPECIFICATION FairSpec
CONSTANTS
  Groups = {g1, g2, g3, g4, g5}
  BatchSize = 1
  OversampleBudget = 1
  TailTrigger = 0
  Partial = TRUE
  TotalSteps = 2
  MaxStaleness = 0
  SyncInterval = 2
  CheckpointInterval = 2
  EvaluateStep = 0
  AwaitsYield = FALSE
  MaxFaults = 0
  g1 = g1
  g2 = g2
  g3 = g3
  g4 = g4
  g5 = g5
INVARIANT CheckpointSaved
