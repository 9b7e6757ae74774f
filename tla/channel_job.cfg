SPECIFICATION Spec
CONSTANTS
  c1 = c1
  s1 = s1
  ChannelJobs <- OneChannel
  SingleJobs <- OneSingle
  Videos <- TwoVideos
  Playlists <- Overlap
  SingleVideo <- LastOne
  DryRuns <- None
  MaxVideos = 0
  MaxJobs = 1
  MaxCrashes = 1
  MaxRollbacks = 1
INVARIANTS
  TypeOK
  DeliveredWritten
  
  VerdictHolds
PROPERTIES
  LedgerSpec
