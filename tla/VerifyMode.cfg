SPECIFICATION Spec
CONSTANTS
  x = x
  y = y
  Threads = {1, 2}
  Variables = {x, y}
  Programs <- TornPrograms
  None = None
  MaxExecution = 12
INVARIANTS
  NeverHappens
CHECK_DEADLOCK FALSE
