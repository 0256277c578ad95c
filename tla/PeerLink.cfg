SPECIFICATION FairSpec
CONSTANTS
  Slots = 2
  Tries = 1
  Window = 2
  Inflight = 4
  Batch = 2
  MaxSend = 4
  MaxCtr = 8
  MaxAcks = 1
INVARIANTS Tracked
PROPERTIES DeliversOnce CopyEnds
CHECK_DEADLOCK FALSE
