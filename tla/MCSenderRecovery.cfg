SPECIFICATION FairSpec
CONSTANTS
  To = 3
  Workers = {w1, w2}
  BatchSize = 2
  LoadCheck = 2
  Kinds = {"stored", "missing", "good", "bad"}
  BadBlockHalt = FALSE
  Quits = TRUE
  CollectFails = TRUE
INVARIANTS TypeOK NoBlockLost NothingOutlivesTheStage
PROPERTIES KeepsPromise StageEnds
CHECK_DEADLOCK FALSE
