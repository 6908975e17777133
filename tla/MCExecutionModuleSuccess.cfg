SPECIFICATION Spec
CONSTANTS
  g = g
  a1 = a1
  a2 = a2
  a3 = a3
  b2 = b2
  c3 = c3
  Block <- MCBlock
  Genesis = g
  Parent <- MCParent
  Number <- MCNumber
  Defect <- MCInvalid
  SafeHashes <- MCSafe
  Batches = TRUE
  LookupFails = FALSE
  ParallelStateFlushing = TRUE
  MaxForkDepth = 1
  MaxBlocksLookBehind = 3
  StartPruneFrom = 3
  MaxReorgDepth = 2
  None = None
INVARIANTS
  SuccessMeansValid
