SPECIFICATION OrderSpec
CONSTANTS
  Size = 4
  MaxBlackEdges = 0
  MaxRepairs = 2
  Calls = {}
  Buckets = 2
  Null = Null
  Body = Body
  Program <- Lines
  Sections <- NewSections
  Statements <- Everything
  Text <- Source
  Layouts <- Alternate
  Problems <- NoProblems
INVARIANT
  NoStatementTwice
CHECK_DEADLOCK FALSE
