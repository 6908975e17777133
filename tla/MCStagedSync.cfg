SPECIFICATION FairSpec
CONSTANTS
  MaxBlock = 4
  FrozenBlocks = 1
  LoopBlockLimit = 2
  ChangesetSafeRange = 2
  MaxReorgDepth = 1
  None = None
INVARIANTS
  TypeOK
  CommittedOrdered
  UnwindReachesPoint
  RunReachesHead
PROPERTIES
  RunStartsClean
  CallReturns
