SPECIFICATION FairSpec
CONSTANTS
  a = a
  b = b
  c = c
  Dirs <- FlatDirs
  Roots <- FlatRoots
  Children <- FlatChildren
  Files <- FlatFiles
  N = 2
  Capacity = 1
  MayFail <- FlatDirs
  Broken = FALSE
  LoopFiles = FALSE
PROPERTIES
  FailFast
CHECK_DEADLOCK FALSE
