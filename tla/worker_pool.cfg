SPECIFICATION FairSpec
CONSTANTS
  Sessions = {s1, s2}
  NumWorkers = 2
  MaxSessions = 2
  MaxIdle = 1
  TotalSteps = 3
  SyncInterval = 1
  MaxFaults = 2
  s1 = s1
  s2 = s2
INVARIANT TypeOK
INVARIANT LabelIsHeld
INVARIANT ActiveWorkersServe
PROPERTY ForgetsIdle
PROPERTY StaysWithWorker
PROPERTY TrainingEnds
