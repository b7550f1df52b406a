SPECIFICATION Spec
CONSTANTS
  Nodes = {1, 2, 3, 4}
  Addrs = {1, 2, 3, 4}
  Nets <- RingPairLine
  RECORDS = 1
  SEQS = 2
  Broadcasts = 3
INVARIANTS OnceEach Reaches
PROPERTIES Mistaken Quiet
CHECK_DEADLOCK FALSE
