SPECIFICATION Spec
CONSTANTS
  TotalFrames = 8
  PageSize = 16
  KernelEnd = 26
  RefMax = 3
  MaxHolders = 3
  INVALID = 11
  Addr <- MCAddr
  Region <- MCRegion
INVARIANTS TypeOK Conserved NoDoubleGrant TablesNeverFree
PROPERTY ImplementsPool
