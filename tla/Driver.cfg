SPECIFICATION Spec
CONSTANTS
  Files = {f1, f2}
  Mode = "Mixed"
  Renew = FALSE
  PlaceAtomicSections = FALSE
  NoFile = NoFile
INVARIANTS
  CancelKeepsEarlierResults
CHECK_DEADLOCK FALSE
