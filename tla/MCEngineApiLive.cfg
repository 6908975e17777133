CONSTANTS
  h1 = h1
  N = 2
  Chains <- Pairs
  Handlers = {h1}
  LookBehind = 3
  MaxTimeouts = 2
  Stops = TRUE
  SetupRaces = FALSE
SPECIFICATION FairSpec
PROPERTIES  HandlerReturns
