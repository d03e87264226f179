CONSTANTS
  NTasks = 3
  Slice = 2
  Wrap = 5
  Words = 1
  MaxShifts = 2
SPECIFICATION ListSpec
INVARIANT
  ListIsQueue
PROPERTIES
  AllRun
