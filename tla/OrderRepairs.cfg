SPECIFICATION OrderSpec
CONSTANTS
  Size = 4
  MaxBlackEdges = 1
  MaxRepairs = 3
  Calls <- LastLine
  Buckets = 2
  Null = Null
  Body = Body
  Program <- Lines
  Sections <- NewSections
  Statements <- Everything
  Text <- Source
  Layouts <- Alternate
  Problems <- NoProblems
INVARIANTS
  OrderTypeOK
  ListsRespectOrder
  DependenciesKept
  NothingLost
PROPERTIES
  SectionsStay
  OnlyMoveUpRepeats
CHECK_DEADLOCK FALSE
