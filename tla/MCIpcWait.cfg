SPECIFICATION WSpec
CONSTANTS
  Tasks = {1, 2, 3}
  First = {1}
  Shell = 1
  Services = {}
  Devices = {}
  Bodies = {}
  EndpointCapacity = 1
  ServiceCapacity = 1
  SpillCapacity = 0
  ChildCapacity = 2
  Wrap = 4
  Timeouts = {2}
INVARIANTS DeadlineKept
PROPERTIES NoEarlyTimeout 
