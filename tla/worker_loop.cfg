SPECIFICATION FairSpec
CONSTANTS
  Attempts = 2
  BeatEvery = 3
  FetchTicks = 3
  StaleAfter = 9
  IdleTimeout = 1
  MaxToken = 2
  MaxDbErrors = 1
INVARIANTS
  TypeOK
  AbortJustified
  LeaseLasts
PROPERTIES
  LoserStops
  LeaseReleased
  WorkerExits
CHECK_DEADLOCK FALSE
