SPECIFICATION FairSpec
CONSTANTS
  runner = runner
  c1 = c1
  c2 = c2
  k1 = k1
  k2 = k2
  maint = maint
  gc = gc
  t1 = t1
  Hashes <- OneContent
  Runner = runner
  Tasks <- OneTask
  Coros <- OneHandler
  Maint = maint
  Gc = gc
  Large <- LargeSet
  AdoptOld = FALSE
  MaxUploads = 1
  MaxSubmits = 1
  MaxCrashes = 1
INVARIANTS
  TypeOK

  
