--------------------------- MODULE MCKernelEntry ---------------------------
EXTENDS KernelEntry
=============================================================================
