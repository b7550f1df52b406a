SPECIFICATION LoopSpec
CONSTANTS
  MaxLines = 3
  MAX_DOC = 9
  RxSize = 11
INVARIANTS LoopTypes LinesKept
PROPERTIES LineDealtWith ComesBack
