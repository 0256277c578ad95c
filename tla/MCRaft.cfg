SPECIFICATION Spec
CONSTANTS
  Node = {n1, n2, n3}
  Nobody = Nobody
  LogWindow = 2
  Chunks = 2
  Cap = 1
  MaxTerm = 3
  MaxIndex = 2
SYMMETRY Symmetry
CONSTRAINT Bound
VIEW View
INVARIANTS OneLeaderPerTerm  LeaderComplete
PROPERTIES CommitGrows
CHECK_DEADLOCK FALSE
