SPECIFICATION FairSpec
CONSTANTS
  Bits = {0, 1}
  BadBits = {8}
  Channels = {0, 1, 255}
  MaxCommands = 3
  MaxResets = 1
INVARIANTS TypeOK RelaysTold BootsOnEthernet
PROPERTY PinsHeal
