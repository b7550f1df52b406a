SPECIFICATION Spec
CONSTANTS
  Size = 2
  MaxFrames = 4
  MaxSends = 2
PROPERTIES Whole Delivered
CHECK_DEADLOCK FALSE
