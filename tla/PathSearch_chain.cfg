SPECIFICATION Spec
CONSTANTS
  Person <- ChainOfPersons
  Graphs <- Chain
  Calls <- EndToEnd
  kInvalidVid = kInvalidVid
  HalfRange = 128
INVARIANTS
  ConnectedHavePaths
CHECK_DEADLOCK FALSE
