SPECIFICATION FairSpec
CONSTANTS
  k1 = k1
  m1 = m1
  h1 = h1
  Kaggle <- OneKaggle
  Modal <- OneModal
  HF <- OneSpace
  Solvent <- OneKaggle
  Slots = {1, 2}
  MaxWorkers = 2
  MaxPerAccount = 2
  MaxConcurrent = 1
  Cooldown = 2
  Throttle = 2
  MaxQueue = 1
  MaxFaults = 1
INVARIANTS
  TypeOK
  
  LiveCounted
PROPERTIES
  DemandMet
