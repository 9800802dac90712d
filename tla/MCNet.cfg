SPECIFICATION FairSpec
CONSTANTS
  QSize = 2
  IdxMod = 4
  RamSizes = {13, 15}
  DescFrames = 2
  AvailFrames = 1
  UsedFrames = 2
  Reactions = {"ignore", "reply"}
  NULL = NULL
INVARIANTS TypeOK RingsKept FramesAccounted DeviceUndisturbed RxDescriptorsKept
PROPERTY PacketsHandled
