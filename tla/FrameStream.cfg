SPECIFICATION Spec
CONSTANTS
  DoneAtPush = FALSE
  Onboard = {TRUE, FALSE}
  CropRows = 2
  Packets = 2
INVARIANTS
  FrameExclusive
  StaticsNotShared
PROPERTIES
  EachSentOnce
  FramesKeepComing
