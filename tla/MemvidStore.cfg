CONSTANTS
  Parts = {"store", "doctor", "replay"}
  MaxSeq = 3
  MaxLen = 8
  MaxWal = 2
  Cards = {c1}
  Chunkings = {2}
  Careful = TRUE
  GrowOn = {1}
  SmallSeq = 2
  SmallLen = 6
  SmallWal = 1
  NoCards = {}
  NoGrowth = {}
  DamageWithPending = FALSE
  AutoCheckpoint = 1
  MaxActions = 2
  MaxSessions = 1
  Apart = TRUE
  CarefulSaver = TRUE
SPECIFICATION Spec
INVARIANTS PayloadsIntact DoctorHeals SessionsKept SessionsReplay
PROPERTIES KeepsStore DoctorKeeps
CHECK_DEADLOCK FALSE
