SPECIFICATION Spec
CONSTANTS
  client1 = client1
  client2 = client2
  NULL = NULL
  TotalPages = 4
  PageSize = 4096
  HeaderSize = 40
  InfoSize = 4
  Sizes <- MCSizes
  Word <- MCWord
  Client = {client1, client2}
  Request <- MCRequest
  Arrays <- MCArrays
SYMMETRY ClientSymmetry
INVARIANTS TypeOK HeadersIntact SlabsSound NoLeak
PROPERTY ImplementsAllocator
