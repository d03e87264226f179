SPECIFICATION Spec
CONSTANTS
  Tasks = {1, 2}
  Vectors = {0, 14, 17, 32, 33, 39}
  MaxTicks = 3
  TickMs = 500
INVARIANTS SelectorsFit OwnProcessor FlagsInC FrameUniform
CHECK_DEADLOCK FALSE
