SPECIFICATION Spec
CONSTANTS
  Tasks = {1, 2}
  First = {1}
  Shell = 1
  Services = {2}
  Devices = {2}
  Bodies = {"m", "n"}
  EndpointCapacity = 2
  ServiceCapacity = 1
  SpillCapacity = 1
  ChildCapacity = 2
  Wrap = 4
  Timeouts = {1, 3}
INVARIANTS NoLostWakeup
PROPERTIES InOrder
