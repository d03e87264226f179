SPECIFICATION Spec
CONSTANTS
  MaxLength = 5
  Keys = {1, 2, 3}
  Items <- MCItems
  MaxItems = 2
  BufSize = 14
  TmpSize = 15
  Space = 18
  IntBits = 5
  LongBits = 8
  Bits = 8
  MaxExp = 20
  Size = 3
  Item <- MCLine
  Zeroed <- MCZeroLine
  Cols = 4
  Rows = 4
  Messages <- MCMessages
  Levels = {0, 1, 2}
  MaxPrints = 4
  Starts <- MCStarts
  MaxUpdates = 2
INVARIANTS
  ScansInside
  Sorted
  Rendered
  HelpersExact
  ScreenShowsLog
  ScreenIsTailOfWire
  ReadingIsAMoment
  UnixTimeExact
PROPERTIES
  CallsReturn
CHECK_DEADLOCK FALSE
