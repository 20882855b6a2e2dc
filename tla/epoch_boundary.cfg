SPECIFICATION Spec
CONSTANTS
  NumTasks = 1
  Weights = {1}
  BatchSize = 2
  DatasetSize = 4
  TotalSteps = 4
  SyncInterval = 1
  CheckpointInterval = 2
  MaxKeep = 2
  MaxFaults = 0
  MaxCrashes = 1
INVARIANT EpochsReshuffled
