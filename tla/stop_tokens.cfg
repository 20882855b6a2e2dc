SPECIFICATION FairSpec
CONSTANTS
  Samples = {s1, s2}
  MaxTokens = 2
  MaxRetry = 1
  EndKinds = {"eos", "stop"}
  TotalSteps = 1
  MaxStaleness = 0
  SyncInterval = 1
  TailTrigger = 1
  Partial = TRUE
  s1 = s1
  s2 = s2
INVARIANT NothingAfterEnd
