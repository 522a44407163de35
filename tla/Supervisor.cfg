CONSTANTS
  Parts = {"alone", "overlap"}
  Tickers = {loop}
  Loop = loop
  NumItems = 1
  Scheduled = TRUE
  Interval = 1
  MaxRuns = 2
  MaxParallel = 1
  Moves = {"awaiting", "completed", "spent"}
  MaxTime = 1
  MaxControls = 0
  MaxEdits = 1
  MaxCrashes = 1
  BothTickers = {loop, http}
  TwoItems = 2
  Unscheduled = FALSE
  NoMoves = {}
  NoTime = 0
  OneControl = 1
  NoEdits = 0
  NoCrashes = 0
SPECIFICATION BothSpec
 
 
PROPERTY FinalStays
CHECK_DEADLOCK FALSE
