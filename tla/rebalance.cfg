CONSTANTS
  w1 = w1
  w2 = w2
  s1 = s1
  s2 = s2
  NoShard = NoShard
  NoOwner = NoOwner
  EmptyOwner = EmptyOwner
  Workers <- TwoWorkers
  Shards <- TwoShards
  MaxLeasesForWorker <- Limits
  LastRecord = 1
  LeaseDuration = 1
  ClaimTimeout = 0
  EnableLeaseStealing = TRUE
  Mortal <- Second
SPECIFICATION FairSpec
INVARIANTS TypeOK
PROPERTIES FreeShardLeased
