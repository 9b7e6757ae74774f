SPECIFICATION Spec
CONSTANTS
  Lengths <- Boundary
  MinTenths = 9
  RunLimit = 1
  TimeLimit = 4
INVARIANTS
  ResultIsWhole
  OneRendition
  
CHECK_DEADLOCK FALSE
