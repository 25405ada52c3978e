SPECIFICATION Spec
CONSTANTS
  RecursionDefault = 2
  MaxLen = 8
  ShieldLen = 3
  MaxDepth = 2
  RoundMax = 1
CHECK_DEADLOCK FALSE
INVARIANTS SourceIsWhatRan SearchesAreRight
