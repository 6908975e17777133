CONSTANTS
  h1 = h1
  h2 = h2
  N = 3
  Chains <- FaultyChains
  Handlers = {h1, h2}
  LookBehind = 3
  MaxTimeouts = 1
  Stops = FALSE
  SetupRaces = FALSE
SPECIFICATION Spec
SYMMETRY Symmetry
CHECK_DEADLOCK TRUE
INVARIANTS ValidIsValid NoFalseInvalid 
PROPERTIES SyncedMeansHave
