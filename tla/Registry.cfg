CONSTANTS
  Pids = {1, 2, 3}
  Names = {"vfs", "vfs-virtual", "demo"}
  Vfs = "vfs"
  Virtual = "vfs-virtual"
  Rights = {"read", "mutate"}
  Grantees = {1, 2, 3}
  Capacity = 2
  BackendCapacity = 2
  GenWrap = 4
SPECIFICATION RegSpec
INVARIANTS CapsFollowOwner ExitedHoldsNothing
PROPERTY GenerationTells
CHECK_DEADLOCK FALSE
