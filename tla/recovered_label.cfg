SPECIFICATION Spec
CONSTANTS
  Sessions = {s1, s2}
  NumWorkers = 2
  MaxSessions = 2
  MaxIdle = 1
  TotalSteps = 4
  SyncInterval = 2
  MaxFaults = 1
  s1 = s1
  s2 = s2
INVARIANT LabelIsHeld
