SPECIFICATION Spec
CONSTANTS
  Queries <- TiedQueries
  Row <- SevenRows
  kTopN = 2
INVARIANTS
  ReturnsTheFirst
CHECK_DEADLOCK FALSE
