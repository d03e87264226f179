SPECIFICATION Spec
CONSTANTS
  Entries <- MCEntries
  StackUse = 1024
  BssStart <- MCBssStart
  BssSize <- MCBssSize
INVARIANTS
  CodeIntact
  HaltsForAReason
  Handover
PROPERTIES
  BootEnds
CHECK_DEADLOCK FALSE
