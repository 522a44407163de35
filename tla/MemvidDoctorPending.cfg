CONSTANTS
  MaxSeq = 2
  MaxLen = 8
  MaxWal = 1
  Cards = {}
  Chunkings = {2}
  Careful = TRUE
  GrowOn = {}
  DamageWithPending = TRUE
SPECIFICATION DoctorSpec
INVARIANT DoctorHeals
CHECK_DEADLOCK FALSE
