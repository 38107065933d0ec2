SPECIFICATION Spec
CONSTANTS
  Traces <- LoopTraces
  Structures <- LoopStructures
  Kind <- LoopKind
  Parent <- LoopParent
  ElseBranch = {"f=1"}
  Root = "program"
  NoLevel = NoLevel
  Located <- LoopLocated
INVARIANTS
  BlackEdgesHaveLevel
