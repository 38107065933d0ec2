SPECIFICATION FairSpec
CONSTANTS
  k1 = k1
  k2 = k2
  r1 = r1
  r2 = r2
  Callers = {k1, k2}
  Runs = {r1, r2}
  RunOf <- OneCallerEach
  Codes = {1}
  PipeSize = 1
  OutSize = 2
  ErrSizes = {0, 1, 2}
  NoCode = NoCode
INVARIANTS
  CheckerTypeOK
PROPERTY
  PoisonStays
  EveryCallReturns
  ImplementsOracle
