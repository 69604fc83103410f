SPECIFICATION FairSpec
CONSTANTS
  c1 = c1
  c2 = c2
  Callers <- TwoCallers
  NFiles = 3
  Capacity = 2
  Batch = 2
  Broken = TRUE
  MaxPasses = 2
INVARIANTS
  QueueOK
PROPERTIES
  ImplementsFeed
  FeedEnds
  ReaderStops
CHECK_DEADLOCK FALSE
