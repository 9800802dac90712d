SPECIFICATION LibSpec
CONSTANTS
  TotalPages = 7
  MaxRequest = 8
  NULL = NULL
  Word = 2048
  MaxText = 4
  Size = 7
  Byte = {0, 1, 2}
  Chunk = 2
  Base = 16
  net_mac = "me"
  my_ip = 31
  broadcast_mac = "all"
  gateway_ip = 18
  MinStack = 8
  Align = 4
  DefaultStack = 12
  HeapTop = 40
  MaxThreads = 2
  StackSizes = {2, 8, 11}
  UserStacks = {101}
  Params = {4, 5}
  Frq = 3
  Nano = 10
  Lags = {0, 1, 2}
  Stamps = {0, 5}
  MaxTicks = 14
  Nobody = Nobody
  Lock = {l1}
  Agent = {a1, a2, a3}
CHECK_DEADLOCK FALSE
INVARIANTS
  NumbersReadBack CopiesAreExact TextsAreExact RepliesAreRight
  ScanIsFirstFit StacksSound ClocksExact MutualExclusion
PROPERTY OneStackLostPerCreate
