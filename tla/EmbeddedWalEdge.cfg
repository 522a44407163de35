CONSTANTS
  Region = 9
  MaxRegion = 18
  HeaderSize = 2
  EntrySizes = {4}
  MaxSeq = 4
  CheckpointPeriod = 3
  TornAppend = FALSE
SPECIFICATION Spec
PROPERTY PendingKept
CHECK_DEADLOCK FALSE
