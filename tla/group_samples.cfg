SPECIFICATION Spec
CONSTANTS
  Samples = {s1, s2}
  MaxTokens = 2
  MaxRetry = 1
  EndKinds = {"eos"}
  TotalSteps = 2
  MaxStaleness = 0
  SyncInterval = 2
  TailTrigger = 1
  Partial = TRUE
  s1 = s1
  s2 = s2
SYMMETRY Symmetry
INVARIANT TypeOK
INVARIANT VersionsAligned
INVARIANT TokensNeverOverstated
INVARIANT WithinBudget
INVARIANT NothingAfterEnd
INVARIANT BatchIsComplete
PROPERTY TokensKept
PROPERTY ImplementsLifecycle
