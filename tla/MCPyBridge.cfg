SPECIFICATION FairSpec
CONSTANTS
  MaxStatus = 5
  MaxCommands = 3
  MayFail = TRUE
INVARIANTS AtMostThrice HandedOver
PROPERTY GetsThrough
CHECK_DEADLOCK FALSE
