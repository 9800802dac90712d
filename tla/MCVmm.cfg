SPECIFICATION Spec
CONSTANTS
  E = 4
  PageSize = 2
  RamBase = 32
  RamSizes <- MCRamSizes
  KernelSizes <- MCKernelSizes
  PmmTables = 2
  HeapRegion <- MCHeap
  Devices <- MCDevices
  Later <- MCLater
  NULL = NULL
CHECK_DEADLOCK FALSE
INVARIANTS TypeOK IdentityMap TablesOnly MapsTheRegion
