SPECIFICATION FairSpec
CONSTANTS
  Person <- FivePersons
  Graphs <- SmallGraphs
  kInvalidVid = kInvalidVid
INVARIANTS
  IInv
  LabelsAreDistances
PROPERTIES
  AnswersTheQuery
  LabelsAreFinal
  Termination
CHECK_DEADLOCK FALSE
