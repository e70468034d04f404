--------------------------- MODULE GetRecordsLoop ---------------------------
(***************************************************************************)
(* The polling loop of PollingShardConsumer.getRecords: the two budgets it *)
(* keeps before each GetRecords (callGetRecordsAPI, checkCoolOffPeriod),   *)
(* its sleeps and its retries, until the shard is closed, the worker stops,*)
(* the lease is lost or an error cannot be retried.                        *)
(*                                                                         *)
(* Time passes in ticks, Second of them to a second.  What the code keeps  *)
(* as a point in time is here the age of it: of currTime, in ticks, and of *)
(* lastCheckTime, as the bytes that have become available since.  An age   *)
(* stops growing where the code can no longer tell it from a larger one.   *)
(* A byte stands for many, so that no bytes are lost to the rounding of    *)
(* secondsPassed * MaxBytesPerSecond.                                      *)
(***************************************************************************)
EXTENDS Integers

CONSTANTS
  Second,         \* ticks of a second
  BytesPerTick,   \* MaxBytesPerSecond / Second
  MaxBytes,       \* the most one GetRecords returns, and the byte budget
  TPSLimit,       \* kinesisReadTPSLimit
  MaxRetryCount,  \* kclConfig.MaxRetryCount
  IdleTime,       \* IdleTimeBetweenReadsInMillis, in ticks
  KmsBackoff      \* the 100 milliseconds of the exponential backoff, in ticks

ASSUME LoopAssumption ==
  /\ Second \in Nat \ {0}
  /\ BytesPerTick \in Nat \ {0}
  /\ MaxBytes \in Nat \ {0}
  /\ TPSLimit \in Nat \ {0}
  /\ MaxRetryCount \in Nat
  /\ IdleTime \in Nat
  /\ KmsBackoff \in Nat

VARIABLES
  pc,             \* where the loop is
  sleep,          \* ticks left to sleep
  stop,           \* the worker's stop channel is closed
  renewalFailed,  \* leaseRenewalErrChan holds an error
  windowAge,      \* ticks since currTime
  callsLeft,
  checked,        \* lastCheckTime is not zero
  credit,         \* bytes that became available since lastCheckTime
  remBytes,
  bytesRead,
  retriedErrors,
  bucket,         \* history: bytes the shard could still deliver (external)
  ages            \* history: ages[n] ticks since the n-th last call of GetRecords

limiterVars == <<windowAge, callsLeft, checked, credit, remBytes, bytesRead>>
vars == <<pc, sleep, stop, renewalFailed, limiterVars, retriedErrors, bucket, ages>>

Pcs == {"ready", "call", "sleep", "idle", "select", "done"}

MaxBytesPerSecond == BytesPerTick * Second

\* Ages are bounded by what is as good as any larger age.
MaxWindowAge == Second + 1
MaxCredit    == 2 * MaxBytes

\* One call more than the property allows in a second.
CallHistory == 1 .. 2 * TPSLimit + 1

TypeOK ==
  /\ pc \in Pcs
  /\ sleep \in Nat
  /\ stop \in BOOLEAN
  /\ renewalFailed \in BOOLEAN
  /\ windowAge \in 0 .. MaxWindowAge
  /\ callsLeft \in 0 .. TPSLimit
  /\ checked \in BOOLEAN
  /\ credit \in 0 .. MaxCredit
  /\ remBytes \in (1 - MaxBytes) .. MaxBytes
  /\ bytesRead \in 0 .. MaxBytes
  /\ retriedErrors \in 0 .. MaxRetryCount + 1
  /\ bucket \in Int
  /\ ages \in [CallHistory -> 0 .. MaxWindowAge]

\* A fresh consumer of a shard that has been left alone for a while.
Init ==
  /\ pc = "ready"
  /\ sleep = 0
  /\ stop = FALSE
  /\ renewalFailed = FALSE
  /\ windowAge = 0
  /\ callsLeft = TPSLimit
  /\ checked = FALSE
  /\ credit = 0
  /\ remBytes = MaxBytes
  /\ bytesRead = 0
  /\ retriedErrors = 0
  /\ bucket = MaxBytes
  /\ ages = [n \in CallHistory |-> MaxWindowAge]

AtMost(bound, n) == IF n > bound THEN bound ELSE n

Sleep(p, ticks) == pc' = p /\ sleep' = ticks

\* waitASecond(currTime), then the next iteration.
WaitASecond ==
  Sleep("sleep", IF windowAge' < Second THEN Second - windowAge' ELSE 0)

-----------------------------------------------------------------------------
(* callGetRecordsAPI up to GetRecords.                                     *)

\* The byte budget after what became available since it was last checked.
RefilledLate == remBytes  \* mutant: only lastCheckTime moves on
RefilledUncapped == remBytes + credit  \* mutant: more than MaxBytes
Refilled == AtMost(MaxBytes, remBytes + credit)

\* The budget is not touched as long as nothing has been read.
Overdrawn == bytesRead # 0 /\ Refilled < 1

\* bytesRead / MaxBytesPerSecond in whole seconds, rounded up.
CoolDown ==
  LET seconds == bytesRead \div MaxBytesPerSecond
      rest    == bytesRead % MaxBytesPerSecond
  IN Second * (IF rest > 0 THEN seconds + 1 ELSE seconds)

\* checkCoolOffPeriod: maxBytesExceededError.
CoolOff ==
  /\ pc = "ready"
  /\ Overdrawn
  /\ remBytes' = Refilled
  /\ credit' = 0
  /\ Sleep("sleep", CoolDown)
  /\ UNCHANGED <<stop, renewalFailed, windowAge, callsLeft, checked, bytesRead,
                 retriedErrors, bucket, ages>>

\* checkCoolOffPeriod is content: what the last call returned is spent.
SpendNothing == remBytes' = AtMost(MaxBytes, remBytes + credit)  \* mutant
Spend == remBytes' = Refilled - bytesRead

BudgetChecked ==
  /\ ~Overdrawn
  /\ IF bytesRead = 0 THEN UNCHANGED <<remBytes, credit>>
                      ELSE Spend /\ credit' = 0

\* The calls left after the window has been renewed when it is over.
NewWindow == windowAge > Second
StartWindowOld == UNCHANGED windowAge  \* mutant: currTime is not moved on
StartWindow == windowAge' = IF NewWindow THEN 0 ELSE windowAge
CallsInWindow == IF NewWindow THEN TPSLimit ELSE callsLeft

\* localTPSExceededError.
OutOfCalls ==
  /\ pc = "ready"
  /\ BudgetChecked
  /\ CallsInWindow < 1
  /\ callsLeft' = CallsInWindow
  /\ StartWindow
  /\ WaitASecond
  /\ UNCHANGED <<stop, renewalFailed, checked, bytesRead, retriedErrors, bucket, ages>>

\* GetRecords is called.
Call ==
  /\ pc = "ready"
  /\ BudgetChecked
  /\ CallsInWindow >= 1
  /\ callsLeft' = CallsInWindow
  /\ StartWindow
  /\ pc' = "call"
  /\ ages' = [n \in CallHistory |-> IF n = 1 THEN 0 ELSE ages[n - 1]]
  /\ UNCHANGED <<sleep, stop, renewalFailed, checked, bytesRead, retriedErrors, bucket>>

-----------------------------------------------------------------------------
(* What GetRecords answers.                                                *)

\* Records of `bytes' bytes, which ProcessRecords gets; the shard may be
\* closed.  Without records, and not behind, the consumer idles first.
Answer ==
  /\ pc = "call"
  /\ callsLeft' = callsLeft - 1
  /\ \E bytes \in 0 .. MaxBytes :
       /\ bytesRead' = bytes
       /\ bucket' = bucket - bytes
       /\ \/ pc' \in {"select", "done"} /\ UNCHANGED sleep
          \/ bytes = 0 /\ Sleep("idle", IdleTime)
  /\ checked' = TRUE
  /\ credit' = IF checked THEN credit ELSE 0
  /\ retriedErrors' = 0
  /\ UNCHANGED <<stop, renewalFailed, windowAge, remBytes, ages>>

RetryForgotten == UNCHANGED retriedErrors  \* mutant: retries not counted
CountRetry == retriedErrors' = retriedErrors + 1

\* ProvisionedThroughputExceededException.
ThroughputExceeded ==
  /\ pc = "call"
  /\ callsLeft' = callsLeft - 1
  /\ CountRetry
  /\ \/ retriedErrors' > MaxRetryCount /\ pc' = "done" /\ UNCHANGED <<sleep, windowAge>>
     \/ retriedErrors' <= MaxRetryCount /\ UNCHANGED windowAge /\ WaitASecond
  /\ UNCHANGED <<stop, renewalFailed, checked, credit, remBytes, bytesRead, bucket, ages>>

\* KMSThrottlingException.
KmsThrottled ==
  /\ pc = "call"
  /\ callsLeft' = callsLeft - 1
  /\ CountRetry
  /\ \/ retriedErrors' > MaxRetryCount /\ pc' = "done" /\ UNCHANGED sleep
     \/ retriedErrors' <= MaxRetryCount /\ Sleep("sleep", KmsBackoff * 2^retriedErrors')
  /\ UNCHANGED <<stop, renewalFailed, windowAge, checked, credit, remBytes, bytesRead,
                 bucket, ages>>

\* Any other error.
CallFails ==
  /\ pc = "call"
  /\ callsLeft' = callsLeft - 1
  /\ pc' = "done"
  /\ UNCHANGED <<sleep, stop, renewalFailed, windowAge, checked, credit, remBytes,
                 bytesRead, retriedErrors, bucket, ages>>

-----------------------------------------------------------------------------
Wake ==
  /\ sleep = 0
  /\ \/ pc = "sleep" /\ pc' = "ready"
     \/ pc = "idle" /\ pc' = "select"
  /\ UNCHANGED <<sleep, stop, renewalFailed, limiterVars, retriedErrors, bucket, ages>>

\* The select at the end of an iteration.
Select ==
  /\ pc = "select"
  /\ pc' = IF stop \/ renewalFailed THEN "done" ELSE "ready"
  /\ UNCHANGED <<sleep, stop, renewalFailed, limiterVars, retriedErrors, bucket, ages>>

Tick ==
  /\ sleep' = IF sleep > 0 THEN sleep - 1 ELSE 0
  /\ windowAge' = AtMost(MaxWindowAge, windowAge + 1)
  /\ credit' = AtMost(MaxCredit, credit + BytesPerTick)
  /\ bucket' = AtMost(MaxBytes, bucket + BytesPerTick)
  /\ ages' = [n \in CallHistory |-> AtMost(MaxWindowAge, ages[n] + 1)]
  /\ UNCHANGED <<pc, stop, renewalFailed, callsLeft, checked, remBytes, bytesRead,
                 retriedErrors>>

\* Worker.Shutdown, and the end of renewLease.
Shutdown ==
  /\ ~stop
  /\ stop' = TRUE
  /\ UNCHANGED <<pc, sleep, renewalFailed, limiterVars, retriedErrors, bucket, ages>>

RenewalFails ==
  /\ ~renewalFailed
  /\ renewalFailed' = TRUE
  /\ UNCHANGED <<pc, sleep, stop, limiterVars, retriedErrors, bucket, ages>>

LoopStep ==
  \/ CoolOff \/ OutOfCalls \/ Call
  \/ Answer \/ ThroughputExceeded \/ KmsThrottled \/ CallFails
  \/ Wake \/ Select

Next == LoopStep \/ Tick \/ Shutdown \/ RenewalFails

Spec == Init /\ [][Next]_vars

\* Time passes, the loop goes on, and GetRecords returns.
FairSpec == Spec /\ WF_vars(LoopStep) /\ WF_vars(Tick)

-----------------------------------------------------------------------------
(* Properties.                                                             *)

\* The byte budget: whatever the answers, the retries and the sleeps, the
\* consumer never takes more from the shard than MaxBytes, the bytes that
\* become available with time, and what the last two calls may return.
\* (Two, since checkCoolOffPeriod tests the budget before it charges it with
\* the last response: the call after a full response still goes out.)
ByteBudget == bucket >= 1 - 2 * MaxBytes

\* Why: the limiter's view of the budget, less what it has still to charge,
\* is never more than what the shard can deliver.
BudgetInv ==
  /\ remBytes \in (1 - MaxBytes) .. MaxBytes
  /\ bytesRead \in 0 .. MaxBytes
  /\ credit \in Nat
  /\ bucket \in Int
  /\ AtMost(MaxBytes, remBytes + credit) - bytesRead <= bucket
  /\ pc = "call" => AtMost(MaxBytes, remBytes + credit) <= bucket
  /\ ByteBudget

\* The call budget: no second, wherever it starts, sees more calls than two
\* windows allow (callsLeft, currTime): one call more than that ago, more than
\* a second has passed.
CallBudget == ages[2 * TPSLimit + 1] > Second

\* Calls of GetRecords in the window that has begun.
CallsMade == TPSLimit - callsLeft + (IF pc = "call" THEN 1 ELSE 0)

\* Why: the calls before them are older than the window, and all but TPSLimit
\* of those are older than the window before it, which took over a second.
CallInv ==
  /\ callsLeft \in 0 .. TPSLimit /\ CallsMade \in 0 .. TPSLimit
  /\ windowAge \in 0 .. MaxWindowAge
  /\ ages \in [CallHistory -> 0 .. MaxWindowAge]
  /\ \A n \in CallHistory :
       /\ n > CallsMade => ages[n] >= windowAge
       /\ n > CallsMade + TPSLimit => ages[n] > Second

\* The limiter does not shut itself out: a loop that waits for a budget, or
\* for a retry, calls GetRecords again or has ended.
PollsAgain == pc # "done" ~> pc \in {"call", "done"}

\* A loop told to stop, or whose lease is lost, ends, although the paths that
\* retry skip the select: only so many of them follow one another.
StopHonoured == stop \/ renewalFailed ~> pc = "done"
=============================================================================
