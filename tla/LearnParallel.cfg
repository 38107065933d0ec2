SPECIFICATION FairLearnSpec
CONSTANTS
  a1 = a1
  a2 = a2
  r1 = r1
  r2 = r2
  Assertions <- TwoAssertions
  Whole = Whole
  Reads <- TwoReads
  NotReached = NotReached
  Edges <- TwoEdges
  Executions <- ManyExecutions
  Threads = 2
  MaxRounds = 3
INVARIANTS
  LearnTypeOK
  LearnsCompletely
  RoundsLearn
PROPERTY
  LearningEnds
CHECK_DEADLOCK FALSE
