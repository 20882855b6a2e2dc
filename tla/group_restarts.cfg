SPECIFICATION FairSpec
CONSTANTS
  Samples = {s1, s2}
  MaxTokens = 2
  MaxRetry = 1
  EndKinds = {"eos"}
  TotalSteps = 2
  MaxStaleness = 0
  SyncInterval = 2
  TailTrigger = 0
  Partial = FALSE
  s1 = s1
  s2 = s2
PROPERTY ImplementsLifecycle
PROPERTY GroupReturns
