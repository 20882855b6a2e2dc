SPECIFICATION Spec
CONSTANTS
  Groups = {g1, g2, g3, g4, g5}
  BatchSize = 1
  OversampleBudget = 1
  TailTrigger = 1
  Partial = TRUE
  TotalSteps = 3
  MaxStaleness = 1
  SyncInterval = 1
  CheckpointInterval = 0
  EvaluateStep = 2
  AwaitsYield = FALSE
  MaxFaults = 1
  g1 = g1
  g2 = g2
  g3 = g3
  g4 = g4
  g5 = g5
SYMMETRY Symmetry
INVARIANT TypeOK
INVARIANT TrainedBatchIsFresh
INVARIANT BufferFresh
INVARIANT NoOverproduction
PROPERTY ImplementsOffPolicy
