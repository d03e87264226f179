SPECIFICATION Spec
CONSTANTS
  Fanout = 8
  PageSize = 32
  NodeSize = 2
  Pages = 64
  MaxOrder = 6
  KernelEnd = 4
  HeaderPage = 5
  UserSpace = 1280
  TextPage = 1
  TextSize = 32
  TextVirt = 6
  StackVirt = 4
  StackSize = 64
  Procs = {1, 2}
  Requests = {1, 96, 256}
  MaxLive = 1
INVARIANTS FramesAreTables LiveMapped UserHalfExact
PROPERTIES EntriesKept
CHECK_DEADLOCK FALSE
