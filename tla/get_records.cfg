CONSTANTS
  Second = 2
  BytesPerTick = 1
  MaxBytes = 4
  TPSLimit = 2
  MaxRetryCount = 1
  IdleTime = 1
  KmsBackoff = 1
SPECIFICATION FairSpec
INVARIANTS TypeOK ByteBudget CallBudget
PROPERTIES PollsAgain StopHonoured
