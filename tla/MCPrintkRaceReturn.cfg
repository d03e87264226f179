SPECIFICATION Spec
CONSTANTS
  Size = 3
  Rows = 4
  Item <- MCItem
  Zeroed <- MCZeroed
  KMessage <- MCKMessage
  HMessage <- MCHMessage
  MaxIrqs = 2
  RowCap = 12
PROPERTIES PrintkReturns
