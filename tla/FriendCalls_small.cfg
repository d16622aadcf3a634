SPECIFICATION Spec
CONSTANTS
  Person <- FivePersons
  Graphs <- SimpleGraphs
  Roots <- FirstPerson
  NameSets <- TwoOrAll
  lastName <- LastNames
  Friend <- TwoFriends
  Forum <- FourForums
  Post <- ThreePosts
  IC5Worlds <- ManyForums
  Candidate <- FourCandidates
  IC10Worlds <- ManyScores
  kFirst = 2
  kTopN = 2
  none = none
  v1 = v1
  v2 = v2
  p1 = p1
  p2 = p2
  p3 = p3
INVARIANTS
  TypeOK
  ReturnsTheNearest
  MetAtDistance
  ReturnsTheBusiest
  CountsAreOfMembers
  ReturnsTheBestMatches
CHECK_DEADLOCK FALSE
