CONSTANTS
  Parts = {"wal", "enrich", "lock"}
  Region = 16
  MaxRegion = 64
  HeaderSize = 2
  EntrySizes = {6, 12}
  MaxSeq = 6
  CheckpointPeriod = 3
  TornAppend = FALSE
  MaxPuts = 3
  MaxCrashes = 1
  CheckpointInterval = 2
  Processes = {p1, p2}
  Nobody = Nobody
  Forcing = {p2}
  Timeout = 1
  Grace = 1
  MaxTime = 2
  MaxHeader = 1
SPECIFICATION Spec
INVARIANT BookkeepingAgrees
INVARIANT RedoBound
INVARIANT OneHolder
 
PROPERTY LogIsQueue
PROPERTY QueueDrains
CHECK_DEADLOCK FALSE
