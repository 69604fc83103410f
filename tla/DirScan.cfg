SPECIFICATION FairSpec
CONSTANTS
  a = a
  b = b
  c = c
  Dirs <- TreeDirs
  Roots <- TreeRoots
  Children <- TreeChildren
  Files <- TreeFiles
  N = 3
  Capacity = 1
  MayFail <- FlatDirs
  Broken = TRUE
  LoopFiles = TRUE
INVARIANTS
  CountsExact
  NobodyLeavesEarly
  PassComplete
  SomebodyLooks
PROPERTIES
  ScanEnds
CHECK_DEADLOCK FALSE
