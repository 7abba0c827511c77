CONSTANTS
  MaxEntries = 3
  Retain = 1
  MaxEvents = 2
  MaxSeq = 3
  MaxManual = 1
  MaxFaults = 1
SPECIFICATION FairSpec
INVARIANTS
  NothingIsLost
  QueueIsWoken
  WaitersAreWoken
PROPERTY NothingIsStuck
CHECK_DEADLOCK FALSE
