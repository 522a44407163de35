CONSTANTS
  MaxSeq = 2
  MaxLen = 7
  MaxWal = 1
  Cards = {}
  Chunkings = {2}
  Careful = TRUE
  GrowOn = {}
  AutoCheckpoint = 0
  MaxActions = 2
  MaxSessions = 1
  Apart = TRUE
  CarefulSaver = FALSE
SPECIFICATION ReplaySpec
INVARIANT SessionsKept
CHECK_DEADLOCK FALSE
