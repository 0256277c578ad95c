CONSTANTS
  n1 = n1
  n2 = n2
  p1 = p1
  p2 = p2
  Pids = {p1, p2}
  Names = {n1, n2}
  Vfs = "vfs"
  Virtual = "vfs-virtual"
  Rights = {"read"}
  Grantees = {}
  Capacity = 2
  BackendCapacity = 1
  GenWrap = 4
  Watchers = {p1, p2}
  WatchCapacity = 2
  HistoryCapacity = 2
  Images = {FALSE, TRUE}
  MaxEvent = 3
  MaxBoot = 1
SYMMETRY Symmetry
SPECIFICATION Spec
INVARIANTS ReadOnceInOrder JournalCovers
CHECK_DEADLOCK FALSE
