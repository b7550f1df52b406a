SPECIFICATION SerialSpec
CONSTANTS
  N = 2
  MAXDATA = 1
  Lines <- FourLines
INVARIANTS SerialTypes LinesAired
PROPERTIES RingOrder Heals
