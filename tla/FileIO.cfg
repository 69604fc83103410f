SPECIFICATION FairSpec
CONSTANTS
  Lengths = {0, 1, 3, 6}
  BlockSize = 2
  Profiles <- AllProfiles
  Ops <- Both
  ChannelCap = 2
  SyncCap = 1
INVARIANTS
  FileSound
  AlarmIsTrue
PROPERTIES
  ReadEnds
CHECK_DEADLOCK FALSE
