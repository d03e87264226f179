CONSTANTS
  NTasks = 3
  Slice = 2
  Wrap = 3
  Words = 2
  MaxShifts = 2
SPECIFICATION Spec
INVARIANTS
  ContextsKept
  RoundRobin
  IInv
PROPERTIES
  TimeSlice
  QueueContract
