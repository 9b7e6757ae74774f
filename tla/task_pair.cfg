SPECIFICATION Spec
CONSTANTS
  k1 = k1
  k2 = k2
  maint = maint
  Coros <- PairSet
  Maint = maint
  Capabilities <- TwoKinds
  NumTasks = 2
  JobTasks = {1}
  QueueLimit = 2
  MaxRetries = 1
  PrepareRetries = 1
  MaxToken = 2
  Unstored = {2}
  MaxCrashes = 1
INVARIANTS
  TokenDiscipline
PROPERTIES
  LedgerSpec
