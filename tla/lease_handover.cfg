CONSTANTS
  w1 = w1
  w2 = w2
  c1 = c1
  c2 = c2
  NoOwner = NoOwner
  EmptyOwner = EmptyOwner
  Workers <- TwoWorkers
  Consumers <- OneSlot
  Stoppable <- Nobody
  Acquirers <- TwoWorkers
  Claimants <- Nobody
  LastRecord = 1
  LeaseDuration = 1
  ClaimTimeout = 1
  EnableLeaseStealing = FALSE
  MaxTime = 2
  MaxStarts = 1
  MaxFaults = 0
SPECIFICATION FairSpec
INVARIANTS TypeOK CheckpointCovered
PROPERTIES LiveLeaseNotTaken OnlyOwnerReleases LostLeaseStops
CHECK_DEADLOCK FALSE
