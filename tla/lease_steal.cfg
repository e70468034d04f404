CONSTANTS
  w1 = w1
  w2 = w2
  c1 = c1
  c2 = c2
  NoOwner = NoOwner
  EmptyOwner = EmptyOwner
  Workers <- TwoWorkers
  Consumers <- OneSlot
  Stoppable <- Nobody
  Acquirers <- OneWorker
  Claimants <- SecondWorker
  LastRecord = 2
  LeaseDuration = 1
  ClaimTimeout = 1
  EnableLeaseStealing = TRUE
  MaxTime = 2
  MaxStarts = 1
  MaxFaults = 1
SPECIFICATION Spec
PROPERTIES ClaimKeepsLease
CHECK_DEADLOCK FALSE
