SPECIFICATION Spec
CONSTANTS
  TXQ_SIZE = 1
  RXQ_SIZE = 1
  Incoming <- MCIncoming
  TxLength <- MCTxLength
  QUEUE_LENGTH = 1
INVARIANTS
  TransfersOnlyWhenReady
  CarriesPackets
PROPERTIES
  NinaServed
  BlocksOnlyInCircle
\* The tasks stop behind the edge that is missed at startup, or in the circular wait.
CHECK_DEADLOCK FALSE
