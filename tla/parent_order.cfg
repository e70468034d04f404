CONSTANTS
  w1 = w1
  w2 = w2
  parent = parent
  child = child
  NoOwner = NoOwner
  EmptyOwner = EmptyOwner
  NoShard = NoShard
  Workers <- TwoWorkers
  Shards <- ParentAndChild
  Parent <- ParentOf
  Records <- RecordsOf
  Retirable <- OnlyParent
  Late <- FirstWorker
  LastRecord = 2
  LeaseDuration = 1
  ClaimTimeout = 1
  EnableLeaseStealing = FALSE
  MaxLeasesForWorker <- OneOrTwo
  Checkpointed = 0
  MaxTime = 2
SPECIFICATION Spec
INVARIANTS ParentFirst
CHECK_DEADLOCK FALSE
