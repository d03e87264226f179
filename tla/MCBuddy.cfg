CONSTANTS
  MinOrder = 1
  MaxOrder = 4
  Requests <- MCRequests
  ReservedMaps <- MCReservedMaps
SPECIFICATION FairSpec
INVARIANTS
  HeaderLayout
  LiveDisjoint
  Canonical
  IInv
PROPERTIES
  HaltsOnlyWhenFull
  KmemInitReturns
  KmallocContract
