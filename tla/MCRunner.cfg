CONSTANTS
  N = 3
  Calls <- ThreeSpecs
SPECIFICATION FairSpec
INVARIANTS
  TypeOK
  DependenciesHold
  SequentialOrder
  SkippedNeverRan
  ReturnsLast
  HonestSuccess
PROPERTY Returns
CHECK_DEADLOCK FALSE
