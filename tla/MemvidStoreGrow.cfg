CONSTANTS
  MaxSeq = 3
  MaxLen = 8
  MaxWal = 2
  Cards = {c1}
  Chunkings = {2}
  Careful = TRUE
  GrowOn = {3}
SPECIFICATION Spec
INVARIANT PayloadsIntact
CHECK_DEADLOCK FALSE
