SPECIFICATION FairSpec
CONSTANTS
  Nobody = Nobody
  Lock = {"print", "read", "heap"}
  Agent = {"core0", "core1", "irq", "trap"}
  Thread = {"core0", "core1"}
  Boot = "core0"
  Handler = {"irq", "trap"}
  PrintFormats <- MCPrintFormats
  ScanFormats <- MCScanFormats
  Key = {"1"}
  LineMax = 2
  EchoMax = 2
INVARIANTS TypeOK OutputWhole LineWhole
PROPERTIES ImplementsMutex PrintLockReleased
