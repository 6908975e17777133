SPECIFICATION FairSpec
CONSTANTS
  p1 = p1
  p2 = p2
  a1 = a1
  a2 = a2
  None = None
  Params = {p1, p2}
  Addresses = {a1, a2}
  Recipient <- MCRecipient
  MaxBuilders = 1
  MaxId = 2
INVARIANTS
  LatestBuildersKept
  DuplicateIsServed
  NoLostWakeup
PROPERTIES
  GetEnds
  EveryBuildEnds
CHECK_DEADLOCK FALSE
