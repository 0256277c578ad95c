CONSTANTS
  MaxPid = 5
  Drivers = 1
  ChildCapacity = 2
  GlobalCapacity = 5
SPECIFICATION Spec
INVARIANTS OneRunning NoFamilyCycle WaiterHasChild
PROPERTIES OnlyParentResumes
CHECK_DEADLOCK FALSE
