CONSTANTS
  s1 = s1
  s2 = s2
  s3 = s3
  s4 = s4
  e1 = e1
  e2 = e2
  e3 = e3
  Calls = {s1, s2, s3, s4}
  People = {e1, e2, e3}
  Owner <- OwnerOf
  PoolSize = 2
SPECIFICATION FairPoolSpec
INVARIANTS
  NeverStarved
  BusySavedNothing
PROPERTIES
  EveryCallAnswered
