SPECIFICATION StrongSpec
CONSTANTS
  Nobody = Nobody
  Lock = {"print", "read", "heap"}
  Agent = {"core0", "irq"}
  Thread = {"core0"}
  Boot = "core0"
  Handler = {"irq"}
  PrintFormats <- MCGoodFormats
  ScanFormats <- MCScanFormats
  Key = {"1"}
  LineMax = 1
  EchoMax = 1
PROPERTY HandlerPrints
