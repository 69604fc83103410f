SPECIFICATION FairSpec
CONSTANTS
  Lengths = {8}
  BlockSize = 1
  Profiles <- DirectReads
  Ops <- Both
  ChannelCap = 4
  SyncCap = 2
PROPERTIES
  EveryReadEnds
CHECK_DEADLOCK FALSE
