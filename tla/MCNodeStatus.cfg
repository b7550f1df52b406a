SPECIFICATION FairStatusSpec
CONSTANTS
  Values = {0, 16}
  Still = 16
  Changing = {1, 6}
  MaxFails = 1
INVARIANTS StatusTypes TwoTurns
PROPERTY CatchUp
