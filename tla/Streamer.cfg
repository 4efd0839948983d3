SPECIFICATION StreamerSpec
CONSTANTS
  MTU = 20
  BeginHead = 12
  DataHead = 4
  FrameSizes = {7, 9, 24, 25, 43}
  ReceivedLengths = {0, 1, 4, 8, 12, 13, 16, 20, 21, 27}
  StorageCapacity = 8
  BufferSizes = {0, 4, 8, 9, 30}
  SizeModulus = 64
INVARIANTS
  TransferExact
  WholeFrame
  CopiesWithinBounds
  CompletesOnceAndWhole
PROPERTIES
  CompletedStable
