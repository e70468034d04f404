CONSTANTS
  w1 = w1
  w2 = w2
  NoOwner = NoOwner
  EmptyOwner = EmptyOwner
  Workers <- TwoWorkers
  LastRecord = 1
  LeaseDuration = 1
  ClaimTimeout = 0
  EnableLeaseStealing = FALSE
  MaxFaults = 1
  Stoppable <- First
SPECIFICATION FairSpec
INVARIANTS TypeOK NoStreamLeft
PROPERTIES ResumesInPlace ImplementsDelivery LostLeaseNoticed ShardServed
