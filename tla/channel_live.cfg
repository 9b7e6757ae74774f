SPECIFICATION FairSpec
CONSTANTS
  c1 = c1
  s1 = s1
  ChannelJobs <- OneChannel
  SingleJobs <- OneSingle
  Videos <- TwoVideos
  Playlists <- OnePlaylist
  SingleVideo <- LastOne
  DryRuns <- None
  MaxVideos = 0
  MaxJobs = 1
  MaxCrashes = 0
  MaxRollbacks = 0
PROPERTIES
  JobEnds
  CompletedDelivered
