-------------------------- MODULE WorkerLifecycle ---------------------------
(***************************************************************************)
(* A worker from Start to Shutdown: it finds or registers its enhanced     *)
(* fan-out consumer, initialises its services, runs its event loop and     *)
(* the consumers that loop starts, and is shut down, perhaps while it      *)
(* starts.  Its goroutines record in CloudWatchMetrics.  Leases and shards *)
(* are elsewhere (ShardLease, ParentShards): here the event loop gets a    *)
(* lease, and a consumer returns or has waited for its parent shard, at    *)
(* any time.                                                               *)
(***************************************************************************)
EXTENDS CloudWatchMetrics, FiniteSets

CONSTANTS
  MaxRetries,  \* retries of fetchConsumerARNWithRetry (10)
  MaxLeases    \* bound on the leases the event loop gets

ASSUME LifecycleAssumption == MaxRetries \in Nat /\ MaxLeases \in Nat

VARIABLES
  start,     \* where Start is
  retry,     \* retries of fetchConsumerARNWithRetry
  arn,       \* the stream consumer in Kinesis
  stop,      \* the worker's stop channel
  done,
  shut,      \* where Shutdown is
  early,     \* it was called before Start had returned
  loop,      \* where the event loop is
  leases,    \* number of leases it has got
  con,       \* con[c]: where consumer c is
  ren        \* the consumers whose renewal goroutine exists

startVars == <<start, retry, arn>>
shutVars  == <<stop, done, shut, early>>
loopVars  == <<loop, leases, con, ren>>
vars == <<metricsVars, faults, startVars, shutVars, loopVars>>

TypeOK ==
  /\ MetricsTypeOK
  /\ start \in {"idle", "arn", "monitor", "checkpointer", "stop", "group",
                "services", "loop", "running", "failed", "dead"}
  /\ retry \in 0 .. MaxRetries
  /\ arn \in {"none", "creating", "active"}
  /\ stop \in {"nil", "open", "closed"}
  /\ done \in BOOLEAN
  /\ shut \in {"idle", "wait", "monitor", "returned", "panic"}
  /\ early \in BOOLEAN
  /\ loop \in {"off", "select", "gain", "done"}
  /\ leases \in 0 .. MaxLeases
  /\ con \in [Consumers -> {"off", "wait", "run", "lost"}]
  /\ ren \subseteq Consumers

Init ==
  /\ MetricsInit
  /\ start = "idle"
  /\ retry = 0
  /\ arn \in {"none", "creating", "active"}
  /\ stop = "nil"
  /\ done = FALSE
  /\ shut = "idle"
  /\ early = FALSE
  /\ loop = "off"
  /\ leases = 0
  /\ con = [c \in Consumers |-> "off"]
  /\ ren = {}

-----------------------------------------------------------------------------
(* Start.                                                                  *)

StartGoes(from, to) == start = from /\ start' = to

\* Start is called, again if it has failed.
StartCall ==
  /\ StartGoes("idle", "arn") \/ StartGoes("failed", "arn")
  /\ retry' = 0
  /\ UNCHANGED <<metricsVars, faults, arn, shutVars, loopVars>>

RetryForever == UNCHANGED retry  \* mutant
CountRetry   == retry' = retry + 1
OneMoreRetry == retry <= MaxRetries  \* mutant
MayRetry     == retry < MaxRetries

\* fetchConsumerARN is not successful.
RetryARN ==
  \/ /\ MayRetry
     /\ CountRetry
     /\ UNCHANGED start
  \/ /\ ~MayRetry
     /\ start' = "failed"
     /\ UNCHANGED retry

\* fetchConsumerARN: the stream consumer is active, or not yet, or it is not
\* found and is registered; or one of the calls fails.
FetchARN ==
  /\ start = "arn"
  /\ \/ /\ arn = "active"
        /\ start' = "monitor"
        /\ Works
        /\ UNCHANGED <<retry, arn>>
     \/ /\ arn = "creating"
        /\ RetryARN
        /\ Works
        /\ UNCHANGED arn
     \/ /\ arn = "none"
        /\ arn' = "creating"
        /\ RetryARN
        /\ Works
     \/ /\ Fails
        /\ RetryARN
        /\ UNCHANGED arn
  /\ UNCHANGED <<metricsVars, shutVars, loopVars>>

\* The steps of initialize after it.
InitMonitor ==
  /\ StartGoes("monitor", "checkpointer")
  /\ MonitorInit
  /\ UNCHANGED <<retry, arn, shutVars, loopVars>>

InitCheckpointer ==
  /\ \/ StartGoes("checkpointer", "stop") /\ Works
     \/ StartGoes("checkpointer", "failed") /\ Fails
  /\ UNCHANGED <<metricsVars, retry, arn, shutVars, loopVars>>

MakeStop ==
  /\ StartGoes("stop", "group")
  /\ stop' = "open"
  /\ UNCHANGED <<metricsVars, faults, retry, arn, done, shut, early, loopVars>>

\* The wait group comes after the stop channel that Shutdown looks at.
MakeWaitGroup ==
  /\ StartGoes("group", "services")
  /\ UNCHANGED <<metricsVars, faults, retry, arn, shutVars, loopVars>>

StartMonitor ==
  /\ StartGoes("services", "loop")
  /\ MonitorStart
  /\ UNCHANGED <<retry, arn, shutVars, loopVars>>

StartLoop ==
  /\ StartGoes("loop", "running")
  /\ loop' = "select"
  /\ UNCHANGED <<metricsVars, faults, retry, arn, shutVars, leases, con, ren>>

-----------------------------------------------------------------------------
(* Event loop and consumers.                                               *)

Keep == UNCHANGED <<published, monVars, faults, startVars, shutVars>>

\* The event loop gets a lease, and records that.
LoopGain ==
  /\ loop = "select"
  /\ leases < MaxLeases
  /\ \E c \in Consumers : con[c] = "off" /\ c \notin ren
  /\ loop' = "gain"
  /\ leases' = leases + 1
  /\ Load(Loop, "gained")
  /\ UNCHANGED <<con, ren>> /\ Keep

\* Then it starts the consumer, of a shard that has a parent or has none.
GainLater    == TRUE  \* mutant: LeaseGained after the go statement
GainRecorded == ~Recording(Loop)

LoopStarts ==
  /\ loop = "gain"
  /\ GainRecorded
  /\ \E c \in Consumers :
       /\ con[c] = "off" /\ c \notin ren
       /\ \/ con' = [con EXCEPT ![c] = "wait"] /\ UNCHANGED ren
          \/ con' = [con EXCEPT ![c] = "run"] /\ ren' = ren \cup {c}
  /\ loop' = "select"
  /\ UNCHANGED <<entryVars, leases>> /\ Keep

LoopExit ==
  /\ loop = "select" /\ stop = "closed"
  /\ loop' = "done"
  /\ UNCHANGED <<entryVars, leases, con, ren>> /\ Keep

\* waitOnParentShard: the parent is finished, or a call fails and getRecords
\* returns.  Nothing else ends the wait.
WaitEnds(c) ==
  /\ con[c] = "wait"
  /\ \/ /\ con' = [con EXCEPT ![c] = "run"]
        /\ ren' = ren \cup {c}
        /\ UNCHANGED entryVars
     \/ /\ con' = [con EXCEPT ![c] = "lost"]
        /\ Load(Polling(c), "lost")
        /\ UNCHANGED ren
  /\ UNCHANGED <<loop, leases>> /\ Keep

ConProcess(c) ==
  /\ con[c] = "run"
  /\ Load(Polling(c), "records")
  /\ UNCHANGED loopVars /\ Keep

\* getRecords returns: told to stop, or at any other time.  The last thing
\* releaseLease does is to record that.
ConReturn(c) ==
  /\ con[c] = "run"
  /\ con' = [con EXCEPT ![c] = "lost"]
  /\ Load(Polling(c), "lost")
  /\ UNCHANGED <<loop, leases, ren>> /\ Keep

ConDone(c) ==
  /\ con[c] = "lost" /\ ~Recording(Polling(c))
  /\ con' = [con EXCEPT ![c] = "off"]
  /\ UNCHANGED <<entryVars, loop, leases, ren>> /\ Keep

\* The renewal goroutine records a renewal, perhaps one that was under way
\* when it was cancelled.
Renewed(c) ==
  /\ c \in ren
  /\ Load(Renewal(c), "renewals")
  /\ UNCHANGED loopVars /\ Keep

RenewalEnds(c) ==
  /\ c \in ren /\ ~Recording(Renewal(c))
  /\ con[c] # "run"
  /\ ren' = ren \ {c}
  /\ UNCHANGED <<entryVars, loop, leases, con>> /\ Keep

RecordStep(g) == Record(g) /\ UNCHANGED <<startVars, shutVars, loopVars>>

-----------------------------------------------------------------------------
(* Shutdown, called by one goroutine, perhaps while another is in Start.   *)

Drained == loop \in {"off", "done"} /\ \A c \in Consumers : con[c] = "off"

\* waitGroup.Wait returns.
NotWaited == TRUE  \* mutant: mService.Shutdown before Wait
Waited    == Drained

ShutdownCall ==
  /\ shut = "idle"
  /\ IF done \/ stop = "nil"
     THEN shut' = "returned" /\ UNCHANGED <<stop, done, early>>
     ELSE /\ shut' = "wait"
          /\ stop' = "closed"
          /\ done' = TRUE
          /\ early' = (start # "running")
  /\ UNCHANGED <<metricsVars, faults, startVars, loopVars>>

\* There is no wait group yet to wait for: the process dies.
ShutdownPanics ==
  /\ shut = "wait" /\ start = "group"
  /\ shut' = "panic"
  /\ start' = "dead"
  /\ UNCHANGED <<metricsVars, faults, retry, arn, stop, done, early, loopVars>>

ShutdownMonitor ==
  /\ shut = "wait" /\ start # "group" /\ Waited
  /\ shut' = "monitor"
  /\ MonitorClose
  /\ UNCHANGED <<startVars, stop, done, early, loopVars>>

\* The monitoring service's Wait returns.
ShutdownReturns ==
  /\ shut = "monitor" /\ monPc \in {"off", "done"}
  /\ shut' = "returned"
  /\ UNCHANGED <<metricsVars, faults, startVars, stop, done, early, loopVars>>

\* It may be called again.
ShutdownAgain ==
  /\ shut = "returned"
  /\ shut' = "idle"
  /\ UNCHANGED <<metricsVars, faults, startVars, stop, done, early, loopVars>>

-----------------------------------------------------------------------------
MonitorStep(step) == step /\ UNCHANGED <<startVars, shutVars, loopVars>>

\* Kinesis makes the stream consumer active, or another worker registers it.
Registration ==
  /\ \/ arn = "creating" /\ arn' = "active"
     \/ arn = "none" /\ arn' = "creating"
  /\ UNCHANGED <<metricsVars, faults, start, retry, shutVars, loopVars>>

StartStep ==
  \/ FetchARN \/ InitMonitor \/ InitCheckpointer \/ MakeStop \/ MakeWaitGroup
  \/ StartMonitor \/ StartLoop

ShutStep == ShutdownPanics \/ ShutdownMonitor \/ ShutdownReturns

ConStep(c) == WaitEnds(c) \/ ConReturn(c) \/ ConDone(c)

Next ==
  \/ StartCall \/ StartStep \/ Registration
  \/ LoopGain \/ LoopStarts \/ LoopExit
  \/ \E c \in Consumers :
       ConProcess(c) \/ ConStep(c) \/ Renewed(c) \/ RenewalEnds(c)
  \/ \E g \in Goroutines : RecordStep(g)
  \/ MonitorStep(Flush \/ MonitorStop \/ MonitorTimer)
  \/ ShutdownCall \/ ShutStep \/ ShutdownAgain

Spec == Init /\ [][Next]_vars

\* Every goroutine that can go on does.  A select, or a loop that comes back
\* to one, finds a closed stop channel some day: strong fairness.  Nothing is
\* assumed of the registration in Kinesis, of the leases, of who calls Start and
\* Shutdown, or of a consumer that waits for its parent: it does not look at the
\* stop channel.
FairSpec ==
  /\ Spec
  /\ WF_vars(StartStep)
  /\ WF_vars(ShutStep)
  /\ WF_vars(LoopStarts)
  /\ SF_vars(LoopExit)
  /\ WF_vars(MonitorStep(Flush))
  /\ SF_vars(MonitorStep(MonitorStop))
  /\ \A g \in Goroutines : WF_vars(RecordStep(g))
  /\ \A c \in Consumers :
       SF_vars(stop = "closed" /\ ConReturn(c)) /\ WF_vars(ConDone(c))

-----------------------------------------------------------------------------
(* Properties.                                                             *)

\* No measurement is lost, although the map of entries is read and written
\* without a lock and calls of PutMetricData fail: what was recorded was
\* published, or is in the entry that will be.  (More may be published than
\* was recorded, if an answer was lost.)
NothingLost ==
  \A k \in Kinds :
    recorded[k] <= published[k] + (IF entry = NoObject THEN 0 ELSE count[entry][k])

\* The gauge CurrentLeases is the number of consumers between LeaseGained
\* and LeaseLost, whoever is recording, and is 0 after the last.
Leased ==
  {c \in Consumers : con[c] \in {"wait", "run"} \/ (con[c] = "lost" /\ Recording(Polling(c)))}
GainPending == loop = "gain" /\ ~Recording(Loop)

HeldBalanced ==
  entry # NoObject =>
    held[entry] = Cardinality(Leased) + (IF GainPending THEN 1 ELSE 0)

\* When Shutdown returns, the event loop and the consumers have ended and
\* what they processed has been published, unless a call has failed or
\* Shutdown was called while Start was still under way.
ShutdownFlushes ==
  shut = "returned" /\ done /\ ~early =>
    /\ Drained
    /\ faults = 0 /\ entry # NoObject => count[entry]["records"] = 0

\* Start returns, whatever becomes of the registration: the retries end.  (A
\* Shutdown that panics takes it down.)
StartReturns == start = "arn" ~> start \in {"failed", "running", "dead"}

\* Consumers do not wait for their parents for ever.
NoEndlessWait == \A c \in Consumers : []<>(con[c] # "wait")

\* A Shutdown that finds a stop channel, even one called while Start is under
\* way, is heard by all: it returns, and the event loop, the consumers and
\* the monitoring service come to rest.  It is so unless a parent shard keeps a
\* consumer waiting for ever, or Shutdown panics because Start has not made
\* the wait group yet.
ShutdownHeard ==
  NoEndlessWait =>
    (done ~> \/ shut = "panic"
             \/ /\ shut \notin {"wait", "monitor"}
                /\ start = "running"
                /\ Drained
                /\ monPc = "done")
=============================================================================
