SPECIFICATION Spec
CONSTANTS
  FileSystems = {"fs"}
  Caps <- SmallCaps
  Protos <- AllProtos
  Existing <- Tree
  MaxFaults = 1
  MaxRounds = 2
  MaxNew = 1
INVARIANTS
  FailsForACause SetStands RunLeavesNothing
CHECK_DEADLOCK FALSE
