SPECIFICATION Spec
CONSTANTS
  Groups = {g1, g2, g3, g4, g5, g6}
  BatchSize = 1
  OversampleBudget = 1
  TailTrigger = 2
  Partial = FALSE
  TotalSteps = 3
  MaxStaleness = 0
  SyncInterval = 2
  CheckpointInterval = 0
  EvaluateStep = 2
  AwaitsYield = FALSE
  MaxFaults = 1
  g1 = g1
  g2 = g2
  g3 = g3
  g4 = g4
  g5 = g5
  g6 = g6
SYMMETRY Symmetry
INVARIANT TrainedBatchIsFresh
INVARIANT LabelsNeverOverstate
PROPERTY EveryGroupLives
