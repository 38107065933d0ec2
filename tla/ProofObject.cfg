SPECIFICATION Spec
CONSTANTS
  Traces <- GoodTraces
INVARIANTS
  BlackWithinThread
  SuggestionsGoBack
  ReadProtected
