SPECIFICATION FairSpec
CONSTANTS
  Person <- FourPersons
  Graphs <- SomeGraphs
  Roots <- TwoRoots
  Post <- Posts
  Comment <- Comments
  Company <- TwoCompanies
  Worlds <- SomeWorlds
  Limits <- TwoLimits
  MaxDate = 3
  Queries <- ScanQueries
  Row <- SomeRows
  kTopN = 2
  none = none
INVARIANTS
  CallTypeOK
  ReturnsTheFirst
PROPERTIES
  OffersTheWanted
  ReturnsInFull
CHECK_DEADLOCK FALSE
