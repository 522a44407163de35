CONSTANTS
  Parts = {"run", "fair", "stop"}
  ReplanBudget = 2
  Plans <- SmallPlans
  Creator = Creator
  Nobody = Nobody
  NoToken = NoToken
  Operators = {o1, o2}
  Tokens = {k1, k2}
  CallerTokens = {}
  GatedSteps = {1, 2}
  NumSteps = 2
  NoCrashes = 0
  Tickers = {loop, http}
  Loop = loop
  NumItems = 1
  Scheduled = FALSE
  Interval = 1
  MaxRuns = 1
  MaxParallel = 1
  Moves = {"completed", "spent"}
  MaxTime = 0
  MaxControls = 1
  MaxEdits = 0
SPECIFICATION AllSpec
INVARIANT LInv
PROPERTY MovesLegally
PROPERTY EveryCallReturns
PROPERTY EndsAndStops
CHECK_DEADLOCK FALSE
