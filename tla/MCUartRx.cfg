SPECIFICATION FairSpec
CONSTANTS
  b1 = b1
  b2 = b2
  b3 = b3
  Buf <- MCBuf
  NoBuf = NoBuf
  UART_BUF_SIZE = 2
  MaxBytes = 4
INVARIANTS OneOwner ReceiverRuns
PROPERTIES InOrderDelivery ReceptionResumes LineDelivered
