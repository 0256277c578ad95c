SPECIFICATION MCSpec
CONSTANTS
  Callers = {1, 2}
  Workers = {3, 4}
  MaxJob = 3
  StallTicks = 1
  TimeoutTicks = 3
  Clients = {1, 2}
  NetWorkers = {3, 4}
  MaxCalls = 2
  Mailbox = 1
  NetPolls = 1
  NetTimeout = 0
  NicTasks = {3, 4, 5}
INVARIANTS SlotKept OwnAnswer NetOwnAnswer 
PROPERTIES JobEnds NetCallEnds
