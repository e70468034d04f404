CONSTANTS
  c1 = c1
  o1 = o1
  o2 = o2
  NoObject = NoObject
  Consumers <- OneConsumer
  Objects <- TwoObjects
  MaxRecorded = 1
  MaxFaults = 1
  MaxRetries = 2
  MaxLeases = 2
SPECIFICATION FairSpec
INVARIANTS TypeOK NothingLost HeldBalanced ShutdownFlushes
PROPERTIES StartReturns ShutdownHeard
CHECK_DEADLOCK FALSE
