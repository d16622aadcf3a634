SPECIFICATION FairSpec
CONSTANTS
  Post <- ThreePosts
  Comment <- ThreeComments
  Tag <- TwoTags
  TagClass <- FourClasses
  Forum <- TwoForums
  Moderator <- OneModerator
  Friend <- TwoFriends
  Place <- ThreePlaces
  Person <- ThreePersons
  IC3Worlds <- Abroad
  IC6Worlds <- Together
  IC4Worlds <- AllTags
  ThreadWorlds <- AllThreads
  IC12Worlds <- Hierarchies
  ShortWorlds <- ShortReadWorlds
  Root = 1
  Like <- SomeLikes
  Friends <- OneFriend
  kTopN = 2
  none = none
  p1 = p1
  p2 = p2
  p3 = p3
  c1 = c1
  c2 = c2
  c3 = c3
  t1 = t1
  t2 = t2
  f1 = f1
  f2 = f2
  m1 = m1
  v1 = v1
  v2 = v2
  x1 = x1
  x2 = x2
  a1 = a1
INVARIANTS
  TypeOK
  CountsBothCountries
  OnlyNewTags
  CountsOtherTags
  ReturnsTheLatest
  AnswersForTheRoot
  ListsInOrder
  RowsAreReplies
PROPERTIES
  Termination
CHECK_DEADLOCK FALSE
