SPECIFICATION Spec
CONSTANTS
  MaxDriver = 3
  MaxOp = 2
  NChunks = 1
  RespawnLimit = 1
INVARIANTS  SlotsFreed JournalKept
PROPERTIES  CallEnds
CHECK_DEADLOCK FALSE
