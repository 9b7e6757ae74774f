SPECIFICATION Spec
CONSTANTS
  c1 = c1
  s1 = s1
  ChannelJobs <- OneChannel
  SingleJobs <- None
  Videos <- TwoVideos
  Playlists <- Overlap
  SingleVideo <- LastOne
  DryRuns <- None
  MaxVideos = 0
  MaxJobs = 1
  MaxCrashes = 0
  MaxRollbacks = 0
INVARIANTS
  CancelStops
