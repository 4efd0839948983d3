\* The camera's frames, the STM32's bytes and the AI-deck's packets.
SPECIFICATION ReceiversSpec
CONSTANTS
  Modes = {"start-stop", "pipelined"}
  CounterSize = 5
  Kind <- MCKind
  Length <- MCLength
  UART_HEADER_LENGTH = 2
  UART_READ_SIZE = 2
  UART_CHECKSUM_LENGTH = 2
  UART_BUFFER_LENGTH = 32
  TimestampLength = 2
  Decoy = {"RNG"}
  MaxLosses = 1
  Ids = 2
  Images = 2
  Segments = 2
  Summed = {0}
  SeqNumbers = 4
  QueueSize = 1
  MaxConnections = 2
  MaxFaults = 1
  MaxFlight = 2
  MaxTcpPackets = 2
INVARIANTS
  NoTornFrame
  TwoRemainQueued
  CaptureAccounting
  ReadsWithinBuffer
  BuffersIntact
  PacketsWhole
PROPERTIES
  StopsWhenDrained
  CameraKeepsGoing
  StaysInStep
  UartResynchronises
  ClientBuffersReturn
