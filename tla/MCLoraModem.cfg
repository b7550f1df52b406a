SPECIFICATION Spec
CONSTANTS
  BaudChoices = {1, 2, 4, 5, 7, 8}
  Legal <- TwoOfEach
INVARIANT RateAsSaid
PROPERTY SettingsKept
