SPECIFICATION FairSpec
CONSTANTS
  r1 = r1
  r2 = r2
  r3 = r3
  v1 = v1
  v2 = v2
  Rows <- ThreeRows
  Video <- OneTwice
  Segments <- OneEmpty
  Playlists = 2
  Group = 2
  Keys = 2
  Quota = 2
  MaxParts = 2
  MaxFaults = 2
INVARIANTS
  TypeOK
  CourseWhole
  CourseInOrder
  
PROPERTIES
  PaidOnce
  CourseDelivered
