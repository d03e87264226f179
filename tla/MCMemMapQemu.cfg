CONSTANTS
  BiosMaps <- QemuMaps
  KernelEnds <- MCKernelEnds
  FirstMb = 4
  PageSize = 2
  KernelStart = 8
  StackSize = 2
  SmallestBlock = 16
  SlotSize = 1
SPECIFICATION Spec
INVARIANT ReservedCovered
