SPECIFICATION FairSortSpec
CONSTANTS
  Size = 5
  Statements <- Listed
  Buckets = 2
  Layouts <- SomeLayouts
  Problems <- Repairs
  Null = Null
INVARIANTS
  SortTypeOK
  InsertedAfterPredecessors
  DownPermutes
  UpPermutes
  MovesOnlyWhatItMust
  SortsAgreeOnChange
PROPERTY
  SortsEnd
CHECK_DEADLOCK FALSE
