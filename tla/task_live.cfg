SPECIFICATION FairSpec
CONSTANTS
  k1 = k1
  k2 = k2
  maint = maint
  Coros <- PairSet
  Maint = maint
  Capabilities <- AnyWorker
  NumTasks = 1
  JobTasks = {1}
  QueueLimit = 2
  MaxRetries = 1
  PrepareRetries = 1
  MaxToken = 3
  Unstored = {}
  MaxCrashes = 0
INVARIANTS
  RetriesBounded
PROPERTIES
  EventuallySettled
