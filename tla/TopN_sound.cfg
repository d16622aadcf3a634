SPECIFICATION Spec
CONSTANTS
  Queries <- SoundQueries
  Row <- SevenRows
  kTopN = 3
INVARIANTS
  TypeOK
  FloorIsTopKey
  ReturnsTheFirst
CHECK_DEADLOCK FALSE
