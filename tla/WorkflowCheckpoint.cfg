CONSTANTS
  MaxEntries = 2
  Retain = 1
  MaxEvents = 2
  MaxSeq = 3
  MaxManual = 0
  MaxFaults = 0
SPECIFICATION Spec
INVARIANT CheckpointIsProcessed
CHECK_DEADLOCK FALSE
