CONSTANTS
  Hash = 8
  Locals = {0, 1, 7}
  Heads = {1, 13}
  PeerCount = 4
  BlocksBatchSize = 3
  MaxParallel = 3
  LoopBlockLimit = 4
  MaxReorgDepth = 5
  FirstBads = {3, 9, 10}
SPECIFICATION Spec
CHECK_DEADLOCK FALSE
INVARIANTS BatchIsComplete SyncedMeansHave
PROPERTIES DownloadEnds
