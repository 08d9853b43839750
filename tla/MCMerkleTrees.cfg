SPECIFICATION Spec
CONSTANTS
  MaxLeaves = 9
  OtherPaths <- MCOtherPaths
  Positions <- MCPositions
INVARIANTS
  TypeOK
  MemoryIsWrittenOnce
  RootsAgree
  PathsReachRoot
  OnlyLeavesHavePaths
\* The computations end.
CHECK_DEADLOCK FALSE
