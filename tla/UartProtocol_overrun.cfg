SPECIFICATION UartSpec
CONSTANTS
  Kind <- MCKind
  Length <- RealLength
  UART_HEADER_LENGTH = 4
  UART_READ_SIZE = 4
  UART_CHECKSUM_LENGTH = 4
  UART_BUFFER_LENGTH = 128
  TimestampLength = 4
  Decoy = {}
  MaxLosses = 0
  Ids = 2
INVARIANTS
  StaysWithinBuffer
