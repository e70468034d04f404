CONSTANTS
  w1 = w1
  w2 = w2
  c1 = c1
  c2 = c2
  NoOwner = NoOwner
  EmptyOwner = EmptyOwner
  Workers <- OneWorker
  Consumers <- TwoSlots
  Stoppable <- OneWorker
  Acquirers <- OneWorker
  Claimants <- Nobody
  LastRecord = 1
  LeaseDuration = 1
  ClaimTimeout = 1
  EnableLeaseStealing = FALSE
  MaxTime = 1
  MaxStarts = 3
  MaxFaults = 1
SPECIFICATION FairSpec
INVARIANTS CheckpointInv
PROPERTIES ShutdownCompletes ImplementsDelivery
CHECK_DEADLOCK FALSE
