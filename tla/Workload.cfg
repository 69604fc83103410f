SPECIFICATION FairSpec
CONSTANTS
  Jobs <- Mixes
  N = 2
  Capacity = 1
  Batch = 2
  NFiles = 3
INVARIANTS
  ReportIsTrue
PROPERTIES
  WorkloadEnds ImplementsWork
CHECK_DEADLOCK FALSE
