SPECIFICATION Spec
CONSTANTS
  MTU = 12
  s1 = s1
  s2 = s2
  s3 = s3
  p1 = p1
  p2 = p2
  NoSender = NoSender
  DoneAtPush = FALSE
  Sender = {s1, s2, s3}
  Packet = {p1, p2}
  Registered = {p1}
  HeadLen <- MCHeadLen
  TailLen <- MCTailLen
  PacketLen <- MCPacketLen
  Bidirectional = TRUE
INVARIANTS
  RequestsTracked
  TransfersOnlyWhenReady
  ReceiveBufferStable
PROPERTIES
  SendsExactlyOnce
  StarvedOnlyByOvertaking
  PacketsDispatched
