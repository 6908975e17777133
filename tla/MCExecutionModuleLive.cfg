SPECIFICATION FairSpec
CONSTANTS
  g = g
  a1 = a1
  a2 = a2
  a3 = a3
  b2 = b2
  c3 = c3
  Block <- MCSmallBlock
  Genesis = g
  Parent <- MCSmallParent
  Number <- MCSmallNumber
  Defect <- MCSmallWrongRoot
  SafeHashes <- MCSafe
  Batches = TRUE
  LookupFails = TRUE
  ParallelStateFlushing = TRUE
  MaxForkDepth = 1
  MaxBlocksLookBehind = 3
  StartPruneFrom = 2
  MaxReorgDepth = 2
  None = None
PROPERTIES
  
  PruneHappens
INVARIANTS
  FlushOnBase
