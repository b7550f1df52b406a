SPECIFICATION Spec
CONSTANTS
  Bits = {0, 4}
  BadBits = {8}
  MaxCommands = 2
  MayFail = TRUE
INVARIANTS RelaysAsCommanded
PROPERTY FactorIsPort
