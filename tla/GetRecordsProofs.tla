-------------------------- MODULE GetRecordsProofs --------------------------
(***************************************************************************)
(* The byte budget and the call budget of the polling loop, for every size *)
(* of the answers, rate of the shard, limit of calls, number of retries    *)
(* and length of the sleeps.                                               *)
(***************************************************************************)
EXTENDS GetRecordsLoop, FiniteSetTheorems, TLAPS

\* The lower of two integers is an integer, no greater than either of them,
\* and it grows with the second.
LEMMA AtMostBounds ==
  ASSUME NEW b \in Int, NEW n \in Int
  PROVE  /\ AtMost(b, n) \in Int
         /\ AtMost(b, n) <= b
         /\ AtMost(b, n) <= n
         /\ AtMost(b, n) = b \/ AtMost(b, n) = n
BY DEF AtMost

\* The first call finds a full budget on both sides.
LEMMA BudgetAtStart == Init => BudgetInv
<1>1. ASSUME Init
      PROVE  remBytes = MaxBytes /\ bytesRead = 0 /\ credit = 0 /\ bucket = MaxBytes
  BY <1>1, Zenon DEF Init
<1>2. ASSUME Init PROVE pc # "call"
  BY <1>2 DEF Init
<1> QED BY <1>1, <1>2, LoopAssumption DEF BudgetInv, ByteBudget, AtMost

\* What a step leaves alone keeps the invariant, unless it goes to GetRecords.
LEMMA BudgetUntouched ==
  ASSUME BudgetInv,
         UNCHANGED <<remBytes, bytesRead, credit, bucket>>,
         pc' = "call" => pc = "call"
  PROVE  BudgetInv'
BY LoopAssumption DEF BudgetInv, ByteBudget, AtMost

\* The limiter: a check that is content spends what was read, and then the
\* whole of what is left may be delivered.
LEMMA BudgetLimited ==
  ASSUME BudgetInv, CoolOff \/ OutOfCalls \/ Call
  PROVE  BudgetInv'
<1>1. CASE CoolOff
  <2>1. /\ pc' = "sleep" /\ bytesRead' = bytesRead /\ bucket' = bucket
        /\ remBytes' = Refilled /\ credit' = 0
    BY <1>1 DEF CoolOff, Sleep
  <2> QED BY <2>1, LoopAssumption DEF BudgetInv, ByteBudget, Refilled, AtMost
<1>2. CASE OutOfCalls \/ Call
  <2>1. /\ pc = "ready" /\ BudgetChecked
        /\ bytesRead' = bytesRead /\ bucket' = bucket
    <3>1. CASE OutOfCalls BY <3>1 DEF OutOfCalls
    <3>2. CASE Call BY <3>2 DEF Call
    <3> QED BY <1>2, <3>1, <3>2
  <2>2. CASE bytesRead = 0
    <3>1. UNCHANGED <<remBytes, credit>>
      BY <2>1, <2>2 DEF BudgetChecked
    <3> QED BY <2>1, <2>2, <3>1, LoopAssumption DEF BudgetInv, ByteBudget, AtMost
  <2>3. CASE bytesRead # 0
    <3>1. ~(Refilled < 1) /\ remBytes' = Refilled - bytesRead /\ credit' = 0
      BY <2>1, <2>3 DEF BudgetChecked, Overdrawn, Spend
    <3> QED BY <2>1, <3>1, LoopAssumption
            DEF BudgetInv, ByteBudget, Refilled, AtMost
  <2> QED BY <2>2, <2>3
<1> QED BY <1>1, <1>2

\* An answer: what it takes from the shard is what the next check charges.
LEMMA BudgetAnswered ==
  ASSUME BudgetInv, Answer
  PROVE  BudgetInv'
<1>1. PICK bytes \in 0 .. MaxBytes :
        /\ bytesRead' = bytes
        /\ bucket' = bucket - bytes
        /\ \/ pc' \in {"select", "done"} /\ UNCHANGED sleep
           \/ bytes = 0 /\ Sleep("idle", IdleTime)
  BY Zenon DEF Answer
<1>2. pc' # "call"
  BY <1>1 DEF Sleep
<1>3. /\ pc = "call" /\ remBytes' = remBytes
      /\ credit' = IF checked THEN credit ELSE 0
  BY Zenon DEF Answer
<1>4. credit' \in Nat /\ credit' <= credit
  BY <1>3 DEF BudgetInv
<1> QED BY <1>1, <1>2, <1>3, <1>4, LoopAssumption
        DEF BudgetInv, ByteBudget, AtMost

\* A failed call takes nothing, and leaves the bytes of the last one to charge.
LEMMA BudgetFailed ==
  ASSUME BudgetInv, ThroughputExceeded \/ KmsThrottled \/ CallFails
  PROVE  BudgetInv'
<1>1. CASE ThroughputExceeded
  <2>1. pc' # "call" /\ UNCHANGED <<remBytes, bytesRead, credit, bucket>>
    BY <1>1 DEF ThroughputExceeded, WaitASecond, Sleep
  <2> QED BY <2>1, BudgetUntouched
<1>2. CASE KmsThrottled
  <2>1. pc' # "call" /\ UNCHANGED <<remBytes, bytesRead, credit, bucket>>
    BY <1>2 DEF KmsThrottled, Sleep
  <2> QED BY <2>1, BudgetUntouched
<1>3. CASE CallFails
  BY <1>3, BudgetUntouched DEF CallFails
<1> QED BY <1>1, <1>2, <1>3

\* Time gives the shard as many bytes as it gives the limiter.
LEMMA BudgetTicks ==
  ASSUME BudgetInv, Tick
  PROVE  BudgetInv'
<1>1. /\ pc' = pc /\ remBytes' = remBytes /\ bytesRead' = bytesRead
      /\ credit' = AtMost(MaxCredit, credit + BytesPerTick)
      /\ bucket' = AtMost(MaxBytes, bucket + BytesPerTick)
  BY Zenon DEF Tick
<1>2. credit' \in Nat /\ credit' <= credit + BytesPerTick
  BY <1>1, LoopAssumption DEF BudgetInv, AtMost, MaxCredit
<1>3. /\ bucket' \in Int
      /\ bucket' = MaxBytes \/ bucket' = bucket + BytesPerTick
  BY <1>1, LoopAssumption DEF BudgetInv, AtMost
<1>4. CASE bucket' = MaxBytes
  BY <1>1, <1>2, <1>4, LoopAssumption DEF BudgetInv, ByteBudget, AtMost
<1>5. CASE bucket' = bucket + BytesPerTick
  BY <1>1, <1>2, <1>5, LoopAssumption DEF BudgetInv, ByteBudget, AtMost
<1> QED BY <1>3, <1>4, <1>5

\* The loop's sleeps, its select and the signals it waits for.
LEMMA BudgetOthers ==
  ASSUME BudgetInv, Wake \/ Select \/ Shutdown \/ RenewalFails \/ UNCHANGED vars
  PROVE  BudgetInv'
<1>1. CASE Wake
  BY <1>1, BudgetUntouched DEF Wake, limiterVars
<1>2. CASE Select
  BY <1>2, BudgetUntouched DEF Select, limiterVars
<1>3. CASE Shutdown
  BY <1>3, BudgetUntouched DEF Shutdown, limiterVars
<1>4. CASE RenewalFails
  BY <1>4, BudgetUntouched DEF RenewalFails, limiterVars
<1>5. CASE UNCHANGED vars
  BY <1>5, BudgetUntouched DEF vars, limiterVars
<1> QED BY <1>1, <1>2, <1>3, <1>4, <1>5

\* The limiter's view of the budget, less what it has still to charge, never
\* exceeds what the shard can deliver (checkCoolOffPeriod, callGetRecordsAPI).
THEOREM BudgetInvariant == Spec => []BudgetInv
<1>1. BudgetInv /\ [Next]_vars => BudgetInv'
  <2> SUFFICES ASSUME BudgetInv, [Next]_vars PROVE BudgetInv'
    OBVIOUS
  <2>1. \/ CoolOff \/ OutOfCalls \/ Call
        \/ Answer
        \/ ThroughputExceeded \/ KmsThrottled \/ CallFails
        \/ Tick
        \/ Wake \/ Select \/ Shutdown \/ RenewalFails \/ UNCHANGED vars
    BY Zenon DEF Next, LoopStep
  <2> QED BY <2>1, BudgetLimited, BudgetAnswered, BudgetFailed, BudgetTicks,
             BudgetOthers, Zenon
<1> QED BY <1>1, BudgetAtStart, PTL DEF Spec

\* Whatever GetRecords answers and however often it is retried, the consumer
\* overdraws the shard by less than two full answers.
THEOREM ByteBudgetHolds == Spec => []ByteBudget
<1>1. BudgetInv => ByteBudget
  BY DEF BudgetInv
<1> QED BY <1>1, BudgetInvariant, PTL

-----------------------------------------------------------------------------
\* The first call finds no call before it.
LEMMA CallsAtStart == Init => CallInv
<1> SUFFICES ASSUME Init PROVE CallInv
  OBVIOUS
<1>1. /\ pc = "ready" /\ windowAge = 0 /\ callsLeft = TPSLimit
      /\ ages = [n \in CallHistory |-> MaxWindowAge]
  BY Zenon DEF Init
<1>2. MaxWindowAge \in Nat /\ MaxWindowAge > Second /\ Second \in Nat
  BY LoopAssumption DEF MaxWindowAge
<1>3. CallsMade = 0
  BY <1>1, LoopAssumption DEF CallsMade
<1>4. ages \in [CallHistory -> 0 .. MaxWindowAge]
  BY <1>1, <1>2
<1>5. \A n \in CallHistory : ages[n] = MaxWindowAge
  BY <1>1
<1> QED
  BY <1>1, <1>2, <1>3, <1>4, <1>5, LoopAssumption DEF CallInv

\* A step that neither calls nor lets time pass, nor opens a window, keeps it.
LEMMA CallsUntouched ==
  ASSUME CallInv, UNCHANGED <<windowAge, ages>>,
         callsLeft' \in 0 .. TPSLimit, CallsMade' = CallsMade
  PROVE  CallInv'
BY DEF CallInv, MaxWindowAge, CallHistory

\* The limiter: a call is one more of its window, or the first of a new one,
\* which opens only when the one before it has lasted for over a second.
LEMMA CallsLimited ==
  ASSUME CallInv, CoolOff \/ OutOfCalls \/ Call
  PROVE  CallInv'
<1>1. CASE CoolOff
  <2>1. /\ pc = "ready" /\ pc' = "sleep" /\ callsLeft' = callsLeft
        /\ UNCHANGED <<windowAge, ages>>
    BY <1>1 DEF CoolOff, Sleep
  <2>2. CallsMade' = CallsMade
    BY <2>1 DEF CallsMade
  <2> QED
    BY <2>1, <2>2, CallsUntouched DEF CallInv
<1>2. CASE OutOfCalls
  <2>1. /\ pc = "ready" /\ pc' = "sleep" /\ UNCHANGED ages
        /\ CallsInWindow < 1 /\ callsLeft' = CallsInWindow
        /\ StartWindow
    BY <1>2 DEF OutOfCalls, WaitASecond, Sleep
  <2>2. ~NewWindow
    BY <2>1, LoopAssumption DEF CallsInWindow
  <2>3. callsLeft' = callsLeft /\ windowAge' = windowAge
    BY <2>1, <2>2 DEF CallsInWindow, StartWindow
  <2>4. CallsMade' = CallsMade
    BY <2>1, <2>3 DEF CallsMade
  <2> QED
    BY <2>1, <2>3, <2>4, CallsUntouched DEF CallInv
<1>3. CASE Call
  <2>1. /\ pc = "ready" /\ pc' = "call"
        /\ CallsInWindow >= 1 /\ callsLeft' = CallsInWindow
        /\ StartWindow
        /\ ages' = [n \in CallHistory |-> IF n = 1 THEN 0 ELSE ages[n - 1]]
    BY <1>3 DEF Call
  <2>2. /\ Second \in Nat /\ TPSLimit \in Nat \ {0} /\ MaxWindowAge = Second + 1
        /\ CallHistory = 1 .. 2 * TPSLimit + 1
    BY LoopAssumption DEF MaxWindowAge, CallHistory
  <2>3. /\ callsLeft \in 0 .. TPSLimit /\ windowAge \in 0 .. MaxWindowAge
        /\ ages \in [CallHistory -> 0 .. MaxWindowAge]
        /\ CallsMade = TPSLimit - callsLeft
        /\ \A n \in CallHistory :
             /\ n > CallsMade => ages[n] >= windowAge
             /\ n > CallsMade + TPSLimit => ages[n] > Second
    <3>1. callsLeft \in 0 .. TPSLimit
      BY DEF CallInv
    <3>2. CallsMade = TPSLimit - callsLeft
      BY <2>1, <2>2, <3>1 DEF CallsMade
    <3> QED
      BY <3>1, <3>2 DEF CallInv
  <2>4. CallsMade' = TPSLimit - callsLeft' + 1
    BY <2>1 DEF CallsMade
  <2>5. ages' \in [CallHistory -> 0 .. MaxWindowAge]
    BY <2>1, <2>2, <2>3
  <2>6. \A n \in CallHistory : /\ n = 1 => ages'[n] = 0
                               /\ n # 1 => n - 1 \in CallHistory /\ ages'[n] = ages[n - 1]
    BY <2>1, <2>2
  <2>7. CASE NewWindow
    <3>1. /\ windowAge > Second /\ windowAge' = 0
          /\ callsLeft' = TPSLimit /\ CallsMade' = 1
      BY <2>1, <2>2, <2>4, <2>7 DEF NewWindow, StartWindow, CallsInWindow
    <3>2. ASSUME NEW n \in CallHistory
          PROVE  /\ n > CallsMade' => ages'[n] >= windowAge'
                 /\ n > CallsMade' + TPSLimit => ages'[n] > Second
      <4>1. ages'[n] >= windowAge'
        BY <2>2, <2>5, <3>1
      <4>2. ASSUME n > 1 + TPSLimit
            PROVE  ages'[n] > Second
        <5>1. n - 1 \in CallHistory /\ ages'[n] = ages[n - 1] /\ n - 1 > CallsMade
          BY <2>2, <2>3, <2>6, <4>2
        <5>2. ages[n - 1] >= windowAge /\ ages[n - 1] \in 0 .. MaxWindowAge
          BY <2>3, <5>1
        <5> QED
          BY <2>2, <2>3, <3>1, <5>1, <5>2
      <4> QED
        BY <3>1, <4>1, <4>2
    <3> QED
      BY <2>2, <2>5, <3>1, <3>2 DEF CallInv
  <2>8. CASE ~NewWindow
    <3>1. windowAge' = windowAge /\ callsLeft' = callsLeft /\ CallsMade' = CallsMade + 1
      BY <2>1, <2>2, <2>3, <2>4, <2>8 DEF StartWindow, CallsInWindow
    <3>2. ASSUME NEW n \in CallHistory
          PROVE  /\ n > CallsMade' => ages'[n] >= windowAge'
                 /\ n > CallsMade' + TPSLimit => ages'[n] > Second
      <4>1. CASE n = 1
        BY <2>2, <2>3, <3>1, <4>1
      <4>2. CASE n # 1
        BY <2>2, <2>3, <2>6, <3>1, <4>2
      <4> QED
        BY <4>1, <4>2
    <3>3. CallsMade' \in 0 .. TPSLimit
      BY <2>1, <2>2, <2>3, <2>8, <3>1 DEF CallsInWindow
    <3> QED
      BY <2>3, <2>5, <3>1, <3>2, <3>3 DEF CallInv, MaxWindowAge, CallHistory
  <2> QED
    BY <2>7, <2>8
<1> QED
  BY <1>1, <1>2, <1>3

\* An answer, or a failure, is charged to the window that made the call.
LEMMA CallsAnswered ==
  ASSUME CallInv, Answer \/ ThroughputExceeded \/ KmsThrottled \/ CallFails
  PROVE  CallInv'
<1>1. /\ pc = "call" /\ callsLeft' = callsLeft - 1
      /\ UNCHANGED <<windowAge, ages>> /\ pc' # "call"
  <2>1. CASE Answer
    <3>1. /\ pc = "call" /\ callsLeft' = callsLeft - 1
          /\ UNCHANGED <<windowAge, ages>>
      BY <2>1 DEF Answer
    <3>2. pc' \in {"select", "done"} \/ pc' = "idle"
      BY <2>1 DEF Answer, Sleep
    <3> QED
      BY <3>1, <3>2
  <2>2. CASE ThroughputExceeded
    <3>1. /\ pc = "call" /\ callsLeft' = callsLeft - 1
          /\ UNCHANGED <<windowAge, ages>>
      BY <2>2 DEF ThroughputExceeded
    <3>2. pc' = "done" \/ pc' = "sleep"
      BY <2>2 DEF ThroughputExceeded, WaitASecond, Sleep
    <3> QED
      BY <3>1, <3>2
  <2>3. CASE KmsThrottled
    <3>1. /\ pc = "call" /\ callsLeft' = callsLeft - 1
          /\ UNCHANGED <<windowAge, ages>>
      BY <2>3 DEF KmsThrottled
    <3>2. pc' = "done" \/ pc' = "sleep"
      BY <2>3 DEF KmsThrottled, Sleep
    <3> QED
      BY <3>1, <3>2
  <2>4. CASE CallFails
    BY <2>4 DEF CallFails
  <2> QED
    BY <2>1, <2>2, <2>3, <2>4
<1>2. CallsMade' = CallsMade /\ callsLeft' \in 0 .. TPSLimit
  BY <1>1, LoopAssumption DEF CallInv, CallsMade
<1> QED
  BY <1>1, <1>2, CallsUntouched

\* Time ages the window and the calls alike.
LEMMA CallsTick ==
  ASSUME CallInv, Tick
  PROVE  CallInv'
<1>1. /\ windowAge' = AtMost(MaxWindowAge, windowAge + 1)
      /\ ages' = [n \in CallHistory |-> AtMost(MaxWindowAge, ages[n] + 1)]
      /\ UNCHANGED <<pc, callsLeft>>
  BY DEF Tick
<1>2. CallsMade' = CallsMade
  BY <1>1 DEF CallsMade
<1>3. Second \in Nat /\ MaxWindowAge = Second + 1
  BY LoopAssumption DEF MaxWindowAge
<1>4. \A m \in 0 .. MaxWindowAge :
        /\ AtMost(MaxWindowAge, m + 1) \in 0 .. MaxWindowAge
        /\ AtMost(MaxWindowAge, m + 1) >= m
        /\ \A n \in 0 .. MaxWindowAge :
             n >= m => AtMost(MaxWindowAge, n + 1) >= AtMost(MaxWindowAge, m + 1)
  BY <1>3 DEF AtMost
<1>5. /\ windowAge' \in 0 .. MaxWindowAge
      /\ ages' \in [CallHistory -> 0 .. MaxWindowAge]
  BY <1>1, <1>4 DEF CallInv
<1>6. ASSUME NEW n \in CallHistory
      PROVE  /\ n > CallsMade => ages'[n] >= windowAge'
             /\ n > CallsMade + TPSLimit => ages'[n] > Second
  <2>1. /\ ages[n] \in 0 .. MaxWindowAge /\ windowAge \in 0 .. MaxWindowAge
        /\ n > CallsMade => ages[n] >= windowAge
        /\ n > CallsMade + TPSLimit => ages[n] > Second
    BY DEF CallInv
  <2>2. ages'[n] = AtMost(MaxWindowAge, ages[n] + 1)
    BY <1>1
  <2>3. ages'[n] \in 0 .. MaxWindowAge /\ ages'[n] >= ages[n]
    BY <1>4, <2>1, <2>2
  <2>4. ages[n] >= windowAge => ages'[n] >= windowAge'
    BY <1>1, <1>4, <2>1, <2>2
  <2> QED
    BY <1>3, <2>1, <2>3, <2>4
<1> QED
  BY <1>1, <1>2, <1>5, <1>6 DEF CallInv, MaxWindowAge, CallHistory

\* The loop's sleeps, its select and the signals it waits for make no call.
LEMMA CallsOthers ==
  ASSUME CallInv, Wake \/ Select \/ Shutdown \/ RenewalFails \/ UNCHANGED vars
  PROVE  CallInv'
<1>1. /\ UNCHANGED <<windowAge, callsLeft, ages>>
      /\ pc' = pc \/ (pc # "call" /\ pc' # "call")
  <2>1. CASE Wake
    BY <2>1 DEF Wake, limiterVars
  <2>2. CASE Select
    BY <2>2 DEF Select, limiterVars
  <2>3. CASE Shutdown \/ RenewalFails \/ UNCHANGED vars
    BY <2>3 DEF Shutdown, RenewalFails, vars, limiterVars
  <2> QED
    BY <2>1, <2>2, <2>3
<1>2. CallsMade' = CallsMade
  BY <1>1 DEF CallsMade
<1> QED
  BY <1>1, <1>2, CallsUntouched DEF CallInv

\* The calls before those of the window that has begun are older than it, and
\* all but a window's worth of them more than a second old (callGetRecordsAPI).
THEOREM CallInvariant == Spec => []CallInv
<1>1. CallInv /\ [Next]_vars => CallInv'
  <2> SUFFICES ASSUME CallInv, [Next]_vars PROVE CallInv'
    OBVIOUS
  <2>1. \/ CoolOff \/ OutOfCalls \/ Call
        \/ Answer \/ ThroughputExceeded \/ KmsThrottled \/ CallFails
        \/ Tick
        \/ Wake \/ Select \/ Shutdown \/ RenewalFails \/ UNCHANGED vars
    BY Zenon DEF Next, LoopStep
  <2> QED
    BY <2>1, CallsLimited, CallsAnswered, CallsTick, CallsOthers, Zenon
<1> QED
  BY <1>1, CallsAtStart, PTL DEF Spec

\* No second, wherever it starts, sees more calls of GetRecords than two
\* windows allow.
THEOREM CallBudgetHolds == Spec => []CallBudget
<1>1. CallInv => CallBudget
  <2> SUFFICES ASSUME CallInv PROVE CallBudget
    OBVIOUS
  <2>1. 2 * TPSLimit + 1 \in CallHistory /\ 2 * TPSLimit + 1 > CallsMade + TPSLimit
    BY LoopAssumption DEF CallInv, CallHistory
  <2> QED
    BY <2>1 DEF CallInv, CallBudget
<1> QED
  BY <1>1, CallInvariant, PTL

-----------------------------------------------------------------------------
\* 2^n is the number of sets of n things.
LEMMA PowerType ==
  ASSUME NEW n \in Nat
  PROVE  2^n \in Nat
<1>1. IsFiniteSet(1 .. n) /\ Cardinality(1 .. n) = n
  BY FS_Interval
<1>2. /\ IsFiniteSet(SUBSET (1 .. n))
      /\ Cardinality(SUBSET (1 .. n)) = 2^Cardinality(1 .. n)
  BY <1>1, FS_SUBSET
<1>3. Cardinality(SUBSET (1 .. n)) \in Nat
  BY <1>2, FS_CardinalityType
<1> QED
  BY <1>1, <1>2, <1>3

\* What the two budgets' invariants do not type.  A loop that goes on has
\* retries left.
RetryInv ==
  /\ pc \in Pcs
  /\ sleep \in Nat
  /\ stop \in BOOLEAN
  /\ renewalFailed \in BOOLEAN
  /\ checked \in BOOLEAN
  /\ credit \in 0 .. MaxCredit
  /\ retriedErrors \in 0 .. MaxRetryCount + 1
  /\ pc # "done" => retriedErrors <= MaxRetryCount

\* The limiter's steps keep the types ...
LEMMA RetryLimited ==
  ASSUME RetryInv, CallInv, CoolOff \/ OutOfCalls \/ Call,
         bytesRead \in 0 .. MaxBytes
  PROVE  RetryInv'
<1>1. /\ MaxCredit \in Nat /\ Second \in Nat \ {0} /\ MaxBytesPerSecond \in Nat \ {0}
  BY LoopAssumption DEF MaxCredit, MaxBytesPerSecond
<1>2. CASE CoolOff
  <2>1. /\ pc = "ready" /\ pc' = "sleep" /\ sleep' = CoolDown /\ credit' = 0
        /\ UNCHANGED <<stop, renewalFailed, checked, retriedErrors>>
    BY <1>2 DEF CoolOff, Sleep
  <2>2. CoolDown \in Nat
    <3>1. bytesRead \in Nat
      BY LoopAssumption
    <3>2. /\ bytesRead \div MaxBytesPerSecond \in Nat
          /\ bytesRead % MaxBytesPerSecond \in Nat
      BY <1>1, <3>1
    <3> QED
      BY <1>1, <3>2 DEF CoolDown
  <2> QED
    BY <1>1, <2>1, <2>2 DEF RetryInv, Pcs
<1>3. CASE OutOfCalls \/ Call
  <2>1. /\ pc = "ready" /\ pc' \in {"sleep", "call"} /\ BudgetChecked
        /\ sleep' = sleep \/ sleep' = IF windowAge' < Second THEN Second - windowAge' ELSE 0
        /\ StartWindow
        /\ UNCHANGED <<stop, renewalFailed, checked, retriedErrors>>
    BY <1>3 DEF OutOfCalls, Call, WaitASecond, Sleep
  <2>2. windowAge' \in Nat
    BY <2>1, LoopAssumption DEF StartWindow, CallInv, MaxWindowAge
  <2>3. sleep' \in Nat
    BY <1>1, <2>1, <2>2 DEF RetryInv
  <2>4. credit' \in 0 .. MaxCredit
    BY <1>1, <2>1 DEF BudgetChecked, RetryInv
  <2> QED
    BY <2>1, <2>3, <2>4 DEF RetryInv, Pcs
<1> QED
  BY <1>2, <1>3

\* ... an answer, or an error that is retried as long as it may be ...
LEMMA RetryAnswered ==
  ASSUME RetryInv, CallInv, Answer \/ ThroughputExceeded \/ KmsThrottled \/ CallFails
  PROVE  RetryInv'
<1> USE DEF RetryInv
<1>1. /\ MaxCredit \in Nat /\ Second \in Nat /\ MaxRetryCount \in Nat
  BY LoopAssumption DEF MaxCredit
<1>2. CASE Answer
  <2>1. /\ credit' = (IF checked THEN credit ELSE 0) /\ checked' = TRUE
        /\ retriedErrors' = 0 /\ UNCHANGED <<stop, renewalFailed>>
    BY <1>2, Zenon DEF Answer
  <2>2. \/ pc' \in {"select", "done"} /\ sleep' = sleep
        \/ pc' = "idle" /\ sleep' = IdleTime
    BY <1>2 DEF Answer, Sleep
  <2> QED
    BY <1>1, <2>1, <2>2, LoopAssumption DEF Pcs
<1>3. CASE ThroughputExceeded
  <2>1. /\ pc = "call" /\ retriedErrors' = retriedErrors + 1
        /\ UNCHANGED <<stop, renewalFailed, checked, credit, windowAge>>
    BY <1>3 DEF ThroughputExceeded, CountRetry
  <2>2. \/ pc' = "done" /\ sleep' = sleep
        \/ /\ retriedErrors' <= MaxRetryCount /\ pc' = "sleep"
           /\ sleep' = IF windowAge' < Second THEN Second - windowAge' ELSE 0
    BY <1>3 DEF ThroughputExceeded, WaitASecond, Sleep
  <2>3. windowAge' \in Nat
    BY <2>1, LoopAssumption DEF CallInv, MaxWindowAge
  <2> QED
    BY <1>1, <2>1, <2>2, <2>3 DEF Pcs
<1>4. CASE KmsThrottled
  <2>1. /\ pc = "call" /\ retriedErrors' = retriedErrors + 1
        /\ UNCHANGED <<stop, renewalFailed, checked, credit>>
    BY <1>4 DEF KmsThrottled, CountRetry
  <2>2. \/ pc' = "done" /\ sleep' = sleep
        \/ /\ retriedErrors' <= MaxRetryCount /\ pc' = "sleep"
           /\ sleep' = KmsBackoff * 2^retriedErrors'
    BY <1>4 DEF KmsThrottled, Sleep
  <2>3. retriedErrors' \in Nat
    BY <1>1, <2>1
  <2>4. KmsBackoff * 2^retriedErrors' \in Nat
    <3>1. 2^retriedErrors' \in Nat
      BY <2>3, PowerType
    <3> QED
      BY <3>1, LoopAssumption
  <2> QED
    BY <1>1, <2>1, <2>2, <2>4 DEF Pcs
<1>5. CASE CallFails
  BY <1>5 DEF CallFails, Pcs
<1> QED
  BY <1>2, <1>3, <1>4, <1>5

\* ... time, sleeps and signals.
LEMMA RetryOthers ==
  ASSUME RetryInv,
         Tick \/ Wake \/ Select \/ Shutdown \/ RenewalFails \/ UNCHANGED vars
  PROVE  RetryInv'
<1> USE DEF RetryInv
<1>1. CASE Tick
  <2>1. /\ sleep' = (IF sleep > 0 THEN sleep - 1 ELSE 0)
        /\ credit' = AtMost(MaxCredit, credit + BytesPerTick)
        /\ UNCHANGED <<pc, stop, renewalFailed, checked, retriedErrors>>
    BY <1>1 DEF Tick
  <2>2. sleep' \in Nat
    BY <2>1
  <2>3. credit' \in 0 .. MaxCredit
    BY <2>1, LoopAssumption DEF AtMost, MaxCredit
  <2> QED
    BY <2>1, <2>2, <2>3
<1>2. CASE Wake
  BY <1>2 DEF Wake, limiterVars, Pcs
<1>3. CASE Select
  BY <1>3 DEF Select, limiterVars, Pcs
<1>4. CASE Shutdown \/ RenewalFails
  BY <1>4 DEF Shutdown, RenewalFails, limiterVars
<1>5. CASE UNCHANGED vars
  BY <1>5 DEF vars, limiterVars
<1> QED
  BY <1>1, <1>2, <1>3, <1>4, <1>5

\* The loop's counters, ages and sleeps are what the code can hold, and a loop
\* that goes on has retries left.
THEOREM TypeCorrect == Spec => []TypeOK
<1>1. Init => RetryInv
  <2> SUFFICES ASSUME Init PROVE RetryInv
    OBVIOUS
  <2>1. /\ pc = "ready" /\ sleep = 0 /\ stop = FALSE /\ renewalFailed = FALSE
        /\ checked = FALSE /\ credit = 0 /\ retriedErrors = 0
    BY Zenon DEF Init
  <2>2. 0 \in 0 .. MaxCredit /\ 0 \in 0 .. MaxRetryCount + 1 /\ 0 <= MaxRetryCount
    BY LoopAssumption DEF MaxCredit
  <2> QED
    BY <2>1, <2>2 DEF RetryInv, Pcs
<1>2. RetryInv /\ BudgetInv /\ CallInv /\ [Next]_vars => RetryInv'
  <2> SUFFICES ASSUME RetryInv, BudgetInv, CallInv, [Next]_vars PROVE RetryInv'
    OBVIOUS
  <2>1. \/ CoolOff \/ OutOfCalls \/ Call
        \/ Answer \/ ThroughputExceeded \/ KmsThrottled \/ CallFails
        \/ Tick \/ Wake \/ Select \/ Shutdown \/ RenewalFails \/ UNCHANGED vars
    BY Zenon DEF Next, LoopStep
  <2>2. bytesRead \in 0 .. MaxBytes
    BY DEF BudgetInv
  <2> QED
    BY <2>1, <2>2, RetryLimited, RetryAnswered, RetryOthers, Zenon
<1>3. RetryInv /\ BudgetInv /\ CallInv => TypeOK
  BY DEF RetryInv, BudgetInv, CallInv, TypeOK
<1> QED
  BY <1>1, <1>2, <1>3, BudgetInvariant, CallInvariant, PTL DEF Spec
=============================================================================
