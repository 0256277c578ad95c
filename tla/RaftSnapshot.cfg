SPECIFICATION FairSpec
CONSTANTS
  Node = {n1, n2}
  Nobody = Nobody
  LogWindow = 2
  Chunks = 3
  Cap = 1
  MaxTerm = 3
  MaxIndex = 1
PROPERTY CatchesUp
CHECK_DEADLOCK FALSE
