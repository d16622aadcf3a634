SPECIFICATION FairSpec
CONSTANTS
  Person <- SixPersons
  Post <- OnePost
  Comment <- ThreeComments
  Worlds <- ManyWorlds
  none = none
  p1 = p1
  c1 = c1
  c2 = c2
  c3 = c3
INVARIANTS
  TypeOK
  CacheIsWeight
  PendingOrCached
  ScoresAreWeights
PROPERTIES
  Termination
CHECK_DEADLOCK FALSE
