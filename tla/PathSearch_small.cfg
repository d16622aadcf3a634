SPECIFICATION Spec
CONSTANTS
  Person <- FivePersons
  Graphs <- SmallGraphs
  Calls <- SomePairs
  kInvalidVid = kInvalidVid
  HalfRange = 128
INVARIANTS
  TypeOK
  AllShortestPaths
  EachPathOnce
  MarkedExactly
PROPERTIES
  AgreesWithIC13
CHECK_DEADLOCK FALSE
