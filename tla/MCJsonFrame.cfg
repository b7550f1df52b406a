SPECIFICATION FairJsonSpec
CONSTANTS
  MaxCommands = 3
  MaxHurried = 3
  UART_BUF_SIZE = 7
  FRAME_SIZE = 14
  TEST_MSG_SIZE = 7
INVARIANTS JsonTypes AtMostOnce NoTornCommand
PROPERTY EveryCommandExecuted
