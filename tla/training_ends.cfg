SPECIFICATION FairSpec
CONSTANTS
  Groups = {g1, g2, g3, g4, g5, g6}
  BatchSize = 2
  OversampleBudget = 0
  TailTrigger = 1
  Partial = FALSE
  TotalSteps = 2
  MaxStaleness = 0
  SyncInterval = 1
  CheckpointInterval = 0
  EvaluateStep = 1
  AwaitsYield = FALSE
  MaxFaults = 1
  g1 = g1
  g2 = g2
  g3 = g3
  g4 = g4
  g5 = g5
  g6 = g6
PROPERTY ImplementsOffPolicy
PROPERTY TrainingEnds
