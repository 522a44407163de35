CONSTANTS
  Parts = {"server", "library"}
  Creator = Creator
  Nobody = Nobody
  NoToken = NoToken
  Operators = {o1, o2}
  Tokens = {k1, k2}
  CallerTokens = {}
  GatedSteps = {1, 2}
  NumSteps = 2
  MaxCrashes = 2
  LibraryTokens = {k1}
  LibraryGated = {1}
SPECIFICATION ControlSpec
INVARIANT IInv
INVARIANT LibraryHolds
 
PROPERTY RunMovesLegally
CHECK_DEADLOCK FALSE
