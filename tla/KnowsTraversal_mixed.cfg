SPECIFICATION Spec
CONSTANTS
  Person <- FourPersons
  Graphs <- MixedGraphs
INVARIANTS
  TypeOK
  FindsTheWanted
  CalledOnce
CHECK_DEADLOCK FALSE
