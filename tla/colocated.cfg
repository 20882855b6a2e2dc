SPECIFICATION FairSpec
CONSTANTS
  NumTasks = 2
  Weights = {0, 1, 3}
  BatchSize = 2
  DatasetSize = 10
  TotalSteps = 8
  SyncInterval = 2
  CheckpointInterval = 2
  MaxKeep = 2
  MaxFaults = 1
  MaxCrashes = 2
INVARIANT TypeOK
INVARIANT LatestIsWhole
INVARIANT EveryDrawAccounted
INVARIANT NothingLeftOver
INVARIANT FairShare
INVARIANT LabelIsEngine
INVARIANT DiskBounded
PROPERTY TrainingEnds
PROPERTY ImplementsDurable
