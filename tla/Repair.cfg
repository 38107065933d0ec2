SPECIFICATION FairSpec
CONSTANTS
  a = a
  b = b
  LastProgram = 2
  Structures <- TwoStructures
  RedEdges <- RepairEdges
  BugIds = {1, 2}
  LearnFromGood = TRUE
  PlaceAtomicSections = FALSE
  BlackEdges <- LearnedBlack
  Suggestions <- LearnedBlack
  MaxPerRound = 2
  NoSolution = NoSolution
INVARIANTS
  TypeOK
  TriedOnce
  NoneMeansExhausted
  ResultVerified
  SafeNeverDropped
  RoundIdentifiesParent
  NoEqualCandidates
  EveryRoundNew
PROPERTIES
  NeverForgotten
  Termination
  ImplementsSearch
CHECK_DEADLOCK FALSE
