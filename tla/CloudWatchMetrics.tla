------------------------- MODULE CloudWatchMetrics --------------------------
(***************************************************************************)
(* The CloudWatch monitoring service of a worker, for one shard: the       *)
(* goroutines that record measurements in the shard's entry of             *)
(* shardMetrics, and the one that publishes them.  An entry is an object   *)
(* with a mutex; the map of entries has none, and a goroutine that does    *)
(* not find an entry makes one (Load, then Store).  WorkerLifecycle says   *)
(* when the goroutines run.                                                *)
(*                                                                         *)
(* Of the measurements there are two that add up, the records processed    *)
(* and the lease renewals, and the gauge of leases held; the others are    *)
(* recorded and reset like the first.                                      *)
(***************************************************************************)
EXTENDS Integers

CONSTANTS
  Consumers,    \* consumer slots of the worker (bound)
  Objects,      \* the entries that can be made (bound)
  NoObject,
  MaxRecorded,  \* bound on the measurements of each kind
  MaxFaults     \* bound on the calls that fail

ASSUME MetricsAssumption ==
  /\ NoObject \notin Objects
  /\ MaxRecorded \in Nat
  /\ MaxFaults \in Nat

\* The goroutines that record: the event loop, each consumer and its lease
\* renewal.
Loop       == <<"loop", NoObject>>
Polling(c) == <<"polling", c>>
Renewal(c) == <<"renewal", c>>
Goroutines == {Loop} \cup ({"polling", "renewal"} \X Consumers)

VARIABLES
  entry,      \* shardMetrics[shard]
  made,       \* the entries made so far
  count,      \* count[o][k]: what entry o has recorded since it was published
  held,       \* held[o]: its leasesHeld
  rec,        \* rec[g]: what goroutine g is recording, and how far it is
  recorded,   \* recorded[k]: all that was ever recorded
  published,  \* published[k]: all that CloudWatch was sent
  monStop,    \* the service's stop channel
  monPc,      \* where its goroutine is
  faults

entryVars   == <<entry, made, count, held, rec, recorded>>
monVars     == <<monStop, monPc>>
metricsVars == <<entryVars, published, monVars>>

Kinds == {"records", "renewals"}
Idle  == [pc |-> "idle", kind |-> "records", ref |-> NoObject]
Zero  == [k \in Kinds |-> 0]

Works == UNCHANGED faults
Fails == faults < MaxFaults /\ faults' = faults + 1

MetricsTypeOK ==
  /\ entry \in Objects \cup {NoObject}
  /\ made \subseteq Objects
  /\ count \in [Objects -> [Kinds -> Nat]]
  /\ held \in [Objects -> Int]
  /\ rec \in [Goroutines -> [pc   : {"idle", "store", "add"},
                             kind : Kinds \cup {"gained", "lost"},
                             ref  : Objects \cup {NoObject}]]
  /\ recorded \in [Kinds -> Nat]
  /\ published \in [Kinds -> Nat]
  /\ monStop \in {"nil", "open", "closed"}
  /\ monPc \in {"off", "flush", "select", "last", "done"}
  /\ faults \in 0 .. MaxFaults

MetricsInit ==
  /\ entry = NoObject
  /\ made = {}
  /\ count = [o \in Objects |-> Zero]
  /\ held = [o \in Objects |-> 0]
  /\ rec = [g \in Goroutines |-> Idle]
  /\ recorded = Zero
  /\ published = Zero
  /\ monStop = "nil"
  /\ monPc = "off"
  /\ faults = 0

-----------------------------------------------------------------------------
(* Recorders: IncrRecordsProcessed, LeaseRenewed, LeaseGained, LeaseLost.  *)

Recording(g) == rec[g].pc # "idle"

\* getOrCreatePerShardMetrics, up to its Load.
Load(g, kind) ==
  /\ ~Recording(g)
  /\ kind \in Kinds => recorded[kind] < MaxRecorded
  /\ rec' = [rec EXCEPT ![g] =
       [pc |-> IF entry = NoObject THEN "store" ELSE "add", kind |-> kind, ref |-> entry]]
  /\ UNCHANGED <<entry, made, count, held, recorded>>

\* There is no entry: it stores a new one.
Store(g) ==
  /\ rec[g].pc = "store"
  /\ \E o \in Objects \ made :
       /\ entry' = o
       /\ made' = made \cup {o}
       /\ rec' = [rec EXCEPT ![g].pc = "add", ![g].ref = o]
  /\ UNCHANGED <<count, held, recorded>>

\* The measurement is added to the entry found, under its lock.
Add(g) ==
  LET o == rec[g].ref
      k == rec[g].kind
  IN /\ rec[g].pc = "add"
     /\ rec' = [rec EXCEPT ![g] = Idle]
     /\ IF k \in Kinds
        THEN /\ count' = [count EXCEPT ![o][k] = @ + 1]
             /\ recorded' = [recorded EXCEPT ![k] = @ + 1]
             /\ UNCHANGED held
        ELSE /\ held' = [held EXCEPT ![o] = @ + (IF k = "gained" THEN 1 ELSE -1)]
             /\ UNCHANGED <<count, recorded>>
     /\ UNCHANGED <<entry, made>>

Record(g) == (Store(g) \/ Add(g)) /\ UNCHANGED <<published, monVars, faults>>

-----------------------------------------------------------------------------
(* The service.                                                            *)

\* Init: a new map and a new stop channel.
MonitorInit ==
  /\ entry' = NoObject
  /\ monStop' = "open"
  /\ UNCHANGED <<made, count, held, rec, recorded, published, monPc, faults>>

\* Start: the goroutine, which flushes first.
MonitorStart ==
  /\ monPc' = "flush"
  /\ UNCHANGED <<entryVars, published, monStop, faults>>

\* Shutdown, up to its Wait.
MonitorClose ==
  /\ monStop' = "closed"
  /\ UNCHANGED <<entryVars, published, monPc, faults>>

ResetAnyway == count' = [count EXCEPT ![entry] = Zero]  \* mutant: err not looked at
KeepCounts  == UNCHANGED count

Publish ==
  published' = [k \in Kinds |-> published[k] + count[entry][k]]

\* flushShard: PutMetricData succeeds, fails, or succeeds with its answer
\* lost; the entry is locked meanwhile.  What was not published is kept.
FlushShard ==
  \/ entry = NoObject /\ UNCHANGED <<count, published>> /\ Works
  \/ /\ entry # NoObject
     /\ \/ Publish /\ count' = [count EXCEPT ![entry] = Zero] /\ Works
        \/ UNCHANGED published /\ KeepCounts /\ Fails
        \/ Publish /\ KeepCounts /\ Fails

BackToSelect == "select"  \* mutant: the loop goes on after the last flush
AfterFlush   == IF monPc = "flush" THEN "select" ELSE "done"

Flush ==
  /\ monPc \in {"flush", "last"}
  /\ FlushShard
  /\ monPc' = AfterFlush
  /\ UNCHANGED <<entry, made, held, rec, recorded, monStop>>

\* The select: stop, or the buffer duration is over.
MonitorStop ==
  /\ monPc = "select" /\ monStop = "closed"
  /\ monPc' = "last"
  /\ UNCHANGED <<entryVars, published, monStop, faults>>

MonitorTimer ==
  /\ monPc = "select"
  /\ monPc' = "flush"
  /\ UNCHANGED <<entryVars, published, monStop, faults>>
=============================================================================
