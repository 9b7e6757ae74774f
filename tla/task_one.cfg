SPECIFICATION Spec
CONSTANTS
  k1 = k1
  k2 = k2
  maint = maint
  Coros <- CoroSet
  Maint = maint
  Capabilities <- AnyWorker
  NumTasks = 1
  JobTasks = {1}
  QueueLimit = 2
  MaxRetries = 1
  PrepareRetries = 1
  MaxToken = 2
  Unstored = {}
  MaxCrashes = 1
SYMMETRY Symmetry
INVARIANTS
  TypeOK
  ExecutionsAccounted
  AckDurable
  OneAccepted
  
  
