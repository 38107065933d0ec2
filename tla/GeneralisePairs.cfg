SPECIFICATION GenSpec
CONSTANTS
  x = x
  y = y
  Length = 5
  ThreadCount = 3
  Threads <- SomeThreads
  Globals <- Variables
  Traces <- Interleavings
INVARIANTS
  ConflictsCovered
  CyclesAreSwaps
  SwapsFound
CHECK_DEADLOCK FALSE
