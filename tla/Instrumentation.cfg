SPECIFICATION FairSpec
CONSTANTS
  x = x
  y = y
  Threads = {1, 2}
  Variables = {x, y}
  Programs <- OneVariablePrograms
  None = None
  MaxExecution = 12
INVARIANTS
  VerdictsAgree
PROPERTIES
  ForcedFinishes
CHECK_DEADLOCK FALSE
