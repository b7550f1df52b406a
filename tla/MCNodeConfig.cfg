SPECIFICATION Spec
CONSTANTS
  JsonChannels = {0, 2, 7}
  BleChannels = {0, 2}
  Settings = {7, 8}
  MaxJson = 2
  MaxBle = 2
  MaxResets = 2
  MayFail = TRUE
INVARIANTS PinsFollowChannel SettingsSurvive BootsOnEthernet
\* The node rests when nobody commands anything and nobody resets it.
CHECK_DEADLOCK FALSE
