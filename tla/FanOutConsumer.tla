--------------------------- MODULE FanOutConsumer ---------------------------
(***************************************************************************)
(* Enhanced fan-out: a consumer reads a root shard from an event stream it *)
(* subscribes to (FanOutShardConsumer.getRecords).  One goroutine does it  *)
(* all: a select takes an event, the end of the stream, the lease refresh  *)
(* timer or the worker's stop channel, whichever is ready.                 *)
(*                                                                         *)
(* A call of DynamoCheckpoint is one step, takes effect or fails, and each *)
(* worker has one consumer at a time: ShardLease is about what the parts   *)
(* of calls, lost answers and overlapping consumers do to one another.     *)
(* There is no lease stealing, and time is relative.                       *)
(***************************************************************************)
EXTENDS LeaseTable

CONSTANTS
  MaxFaults,   \* bound on the calls that fail, and on crashes
  Stoppable    \* the workers Shutdown may be called on

ASSUME FanOutAssumption ==
  /\ ~EnableLeaseStealing
  /\ MaxFaults \in Nat
  /\ Stoppable \subseteq Workers

VARIABLES
  row,        \* the shard's row in the lease table
  cache,      \* cache[w]: w's ShardStatus of the shard
  stop,       \* the workers whose stop channel is closed
  gone,       \* those whose event loop has returned
  loop,       \* loop[w]: what w's event loop knows of the lease
  pc,         \* pc[w]: where w's consumer is
  open,       \* open[w]: number of event streams w has not closed
  ended,      \* ended[w]: Kinesis has ended the stream w reads
  at,         \* at[w]: the last record before the stream's next event
  cont,       \* cont[w]: continuationSequenceNumber
  processed,  \* the records some processor has been given
  faults

conVars == <<pc, open, ended, at, cont>>
vars == <<row, cache, stop, gone, loop, conVars, processed, faults>>

NoCont == -1  \* continuationSequenceNumber is nil

\* "fetched": between FetchCheckpoint and GetLease; otherwise the outcome of the
\* last GetLease, if any, which the event loop itself does not remember.
LoopStates == {"none", "fetched", "granted", "refused"}

Pcs == {"off", "subscribe", "select", "process", "terminate", "release"}

TypeOK ==
  /\ row \in Item
  /\ cache \in [Workers -> ShardStatus]
  /\ stop \subseteq Stoppable
  /\ gone \subseteq stop
  /\ loop \in [Workers -> LoopStates]
  /\ pc \in [Workers -> Pcs]
  /\ open \in [Workers -> Nat]
  /\ ended \in [Workers -> BOOLEAN]
  /\ at \in [Workers -> 0 .. LastRecord]
  /\ cont \in [Workers -> 0 .. LastRecord \cup {NoCont}]
  /\ processed \subseteq 1 .. LastRecord
  /\ faults \in 0 .. MaxFaults

Init ==
  /\ row = NoItem
  /\ cache = [w \in Workers |-> NewShardStatus]
  /\ stop = {}
  /\ gone = {}
  /\ loop = [w \in Workers |-> "none"]
  /\ pc = [w \in Workers |-> "off"]
  /\ open = [w \in Workers |-> 0]
  /\ ended = [w \in Workers |-> FALSE]
  /\ at = [w \in Workers |-> 0]
  /\ cont = [w \in Workers |-> NoCont]
  /\ processed = {}
  /\ faults = 0

SetCache(w, shard) == cache' = [cache EXCEPT ![w] = shard]
Goto(w, p) == pc' = [pc EXCEPT ![w] = p]

Works == UNCHANGED faults
Fails == faults < MaxFaults /\ faults' = faults + 1

\* w is given the stream that starts after record k.
Stream(w, k) ==
  /\ at' = [at EXCEPT ![w] = k]
  /\ ended' = [ended EXCEPT ![w] = FALSE]

Streams(w, n) == open' = [open EXCEPT ![w] = n]

-----------------------------------------------------------------------------
(* The event loop.                                                         *)

LoopSees(w, l) == loop' = [loop EXCEPT ![w] = l]

\* FetchCheckpoint of the shard, unless the worker takes itself for its owner
\* (a goroutine of getRecords stops doing so before it returns).  When the call
\* fails or the shard is finished the turn is over.
LoopFetch(w) ==
  /\ pc[w] = "off" /\ w \notin gone /\ loop[w] # "fetched"
  /\ cache[w].owner # w
  /\ \/ /\ SetCache(w, FetchCheckpoint(row, cache[w]))
        /\ IF cache'[w].ckpt = ShardEnd THEN UNCHANGED loop ELSE LoopSees(w, "fetched")
        /\ Works
     \/ Fails /\ UNCHANGED <<cache, loop>>
  /\ UNCHANGED <<row, stop, gone, conVars, processed>>

\* GetLease, and the goroutine of getRecords; or nothing, and the cached owner
\* stays what FetchCheckpoint has made of it.
GetLease(w) ==
  /\ loop[w] = "fetched"
  /\ LET req == GetLeaseRequest(row, cache[w], w, Now)
     IN \/ /\ ~GetLeaseRefused(row, cache[w], w, Now)
           /\ row' = GetLeaseItem(req, w)
           /\ SetCache(w, GetLeaseGranted(cache[w], req, w))
           /\ LoopSees(w, "granted")
           /\ Goto(w, "subscribe")
           /\ Works
        \/ /\ (GetLeaseRefused(row, cache[w], w, Now) /\ Works) \/ Fails
           /\ LoopSees(w, "refused")
           /\ UNCHANGED <<row, cache, pc>>
  /\ UNCHANGED <<stop, gone, open, ended, at, cont, processed>>

LoopStep(w) == LoopFetch(w) \/ GetLease(w)

\* It finds the stop channel closed.
LoopExit(w) ==
  /\ w \in stop \ gone
  /\ loop[w] # "fetched"
  /\ gone' = gone \cup {w}
  /\ UNCHANGED <<row, cache, stop, loop, conVars, processed, faults>>

-----------------------------------------------------------------------------
(* Start and end of a consumer.                                            *)

\* getRecords returns: its deferred calls close the stream, if there is one,
\* and release the lease, first in the cache.
LeaveStream(w) == Streams(w, open[w])  \* mutant: the stream is not closed
CloseStream(w) == Streams(w, IF open[w] = 0 THEN 0 ELSE open[w] - 1)

KeepsOwner(shard) == shard  \* mutant: releaseLease without SetLeaseOwner
Released(shard) == [shard EXCEPT !.owner = EmptyOwner]

Return(w, shard) ==
  /\ CloseStream(w)
  /\ Stream(w, 0)
  /\ cont' = [cont EXCEPT ![w] = NoCont]
  /\ SetCache(w, Released(shard))
  /\ Goto(w, "release")

\* Then in the table.
Release(w) ==
  /\ pc[w] = "release"
  /\ \/ row' = RemoveLeaseOwner(row, w) /\ Works
     \/ UNCHANGED row /\ Fails
  /\ Goto(w, "off")
  /\ UNCHANGED <<cache, stop, gone, loop, open, ended, at, cont, processed>>

\* subscribeToShard, which has no position after SHARD_END.
Subscribe(w) ==
  /\ pc[w] = "subscribe"
  /\ LET shard == FetchCheckpoint(row, cache[w])
     IN \/ /\ shard.ckpt # ShardEnd
           /\ Works
           /\ SetCache(w, shard)
           /\ Stream(w, StartAfter(shard))
           /\ Streams(w, open[w] + 1)
           /\ Goto(w, "select")
           /\ UNCHANGED cont
        \/ /\ (shard.ckpt = ShardEnd /\ Works) \/ Fails
           /\ Return(w, shard)
        \/ /\ Fails  \* in FetchCheckpoint
           /\ Return(w, cache[w])
  /\ UNCHANGED <<row, stop, gone, loop, processed>>

-----------------------------------------------------------------------------
(* The select.                                                             *)

\* An event: a record or none, and the sequence number to go on from, which
\* is missing when the shard is closed.
Event(w) ==
  /\ pc[w] = "select" /\ ~ended[w]
  /\ \E k \in {at[w], at[w] + 1} \cap 0 .. LastRecord :
       /\ at' = [at EXCEPT ![w] = k]
       /\ processed' = processed \cup (at[w] + 1) .. k
       /\ \/ cont' = [cont EXCEPT ![w] = k]
          \/ k = LastRecord /\ cont' = [cont EXCEPT ![w] = NoCont]
  /\ Goto(w, "process")
  /\ UNCHANGED <<row, cache, stop, gone, loop, open, ended, faults>>

\* The processor checkpoints any record it was given, or none.
Checkpointed(w, ckpt) == [cache[w] EXCEPT !.ckpt = ckpt]
Save(shard) ==
  \/ row' = CheckpointItem(shard) /\ Works
  \/ UNCHANGED row /\ Fails

\* ProcessRecords returns.
Process(w) ==
  /\ pc[w] = "process"
  /\ \/ \E k \in 1 .. at[w] : /\ SetCache(w, Checkpointed(w, k))
                              /\ Save(Checkpointed(w, k))
     \/ UNCHANGED <<row, cache, faults>>
  /\ Goto(w, IF cont[w] = NoCont THEN "terminate" ELSE "select")
  /\ UNCHANGED <<stop, gone, loop, open, ended, at, cont, processed>>

\* Shutdown with TERMINATE, on the goroutine's way out.
Terminate(w) ==
  /\ pc[w] = "terminate"
  /\ \/ Save(Checkpointed(w, ShardEnd)) /\ Return(w, Checkpointed(w, ShardEnd))
     \/ Return(w, cache[w]) /\ UNCHANGED <<row, faults>>
  /\ UNCHANGED <<stop, gone, loop, processed>>

\* The worker is stopping: Shutdown with REQUESTED.
Stop(w) ==
  /\ pc[w] = "select" /\ w \in stop
  /\ \/ \E k \in 1 .. at[w] : Save(Checkpointed(w, k)) /\ Return(w, Checkpointed(w, k))
     \/ Return(w, cache[w]) /\ UNCHANGED <<row, faults>>
  /\ UNCHANGED <<stop, gone, loop, processed>>

KeepReading(w) == UNCHANGED <<cache, conVars>>  \* mutant: the error ignored
LeaseNotAcquired(w) == Return(w, cache[w])

\* refreshLeaseTimer fires (it may at any time: refresh periods are not
\* modelled) and the lease is refreshed, or the consumer returns.
Refresh(w) ==
  /\ pc[w] = "select"
  /\ LET req == GetLeaseRequest(row, cache[w], w, Now)
     IN \/ /\ ~GetLeaseRefused(row, cache[w], w, Now)
           /\ row' = GetLeaseItem(req, w)
           /\ SetCache(w, GetLeaseGranted(cache[w], req, w))
           /\ Works
           /\ UNCHANGED <<pc, open, ended, at, cont>>
        \/ /\ (GetLeaseRefused(row, cache[w], w, Now) /\ Works) \/ Fails
           /\ LeaseNotAcquired(w)
           /\ UNCHANGED row
  /\ UNCHANGED <<stop, gone, loop, processed>>

\* Where a subscription goes on.
FromCheckpoint(w) == cache[w].ckpt  \* mutant
FromContinuation(w) == cont[w]

\* The stream has ended.  Without a continuation number (no event came) the
\* consumer returns; otherwise it closes the stream and subscribes again.
Resubscribe(w) ==
  /\ pc[w] = "select" /\ ended[w]
  /\ \/ /\ cont[w] = NoCont
        /\ Return(w, cache[w])
        /\ Works
     \/ /\ cont[w] # NoCont
        /\ Stream(w, FromContinuation(w))
        /\ Works
        /\ UNCHANGED <<cache, pc, open, cont>>
     \/ \* closing or subscribing fails: there is no stream left to close
        /\ cont[w] # NoCont
        /\ Fails
        /\ Return(w, cache[w])
  /\ UNCHANGED <<row, stop, gone, loop, processed>>

-----------------------------------------------------------------------------
(* Environment.                                                            *)

\* Kinesis ends a stream: after five minutes, or because another worker has
\* subscribed to the shard with the same consumer ARN.
StreamEnds(w) ==
  /\ open[w] > 0 /\ ~ended[w]
  /\ ended' = [ended EXCEPT ![w] = TRUE]
  /\ UNCHANGED <<row, cache, stop, gone, loop, pc, open, at, cont, processed, faults>>

Tick ==
  /\ row' = [row EXCEPT !.timeout = Aged(@)]
  /\ cache' = [w \in Workers |-> [cache[w] EXCEPT !.timeout = Aged(@)]]
  /\ UNCHANGED <<stop, gone, loop, conVars, processed, faults>>

Shutdown(w) ==
  /\ w \in Stoppable \ stop
  /\ stop' = stop \cup {w}
  /\ UNCHANGED <<row, cache, gone, loop, conVars, processed, faults>>

Crash(w) ==
  /\ Fails
  /\ SetCache(w, NewShardStatus)
  /\ stop' = stop \ {w}
  /\ gone' = gone \ {w}
  /\ LoopSees(w, "none")
  /\ Goto(w, "off")
  /\ Streams(w, 0)
  /\ Stream(w, 0)
  /\ cont' = [cont EXCEPT ![w] = NoCont]
  /\ UNCHANGED <<row, processed>>

ConStep(w) ==
  \/ Subscribe(w) \/ Process(w) \/ Terminate(w) \/ Release(w)
  \/ Stop(w) \/ Resubscribe(w)

Next ==
  \/ Tick
  \/ \E w \in Workers :
       \/ LoopStep(w) \/ LoopExit(w)
       \/ ConStep(w) \/ Event(w) \/ Refresh(w)
       \/ StreamEnds(w) \/ Shutdown(w) \/ Crash(w)

Spec == Init /\ [][Next]_vars

-----------------------------------------------------------------------------
(* Fairness: time passes, the event loop looks for the lease and the       *)
(* consumer's goroutine goes on.  Go's select chooses at random among what *)
(* is ready, so that a stream full of events does not keep the refresh     *)
(* timer from being seen: strong fairness.  Kinesis may never send an      *)
(* event.                                                                  *)

FairSpec ==
  /\ Spec
  /\ WF_vars(Tick)
  /\ \A w \in Workers :
       /\ WF_vars(LoopStep(w))
       /\ WF_vars(ConStep(w))
       /\ SF_vars(Refresh(w))

-----------------------------------------------------------------------------
(* Properties.                                                             *)

\* Event streams do not leak: however a consumer returns, and whether or not
\* it could subscribe again, no stream of it is left open, and it never has
\* two.
NoStreamLeft ==
  \A w \in Workers :
    /\ open[w] <= 1
    /\ open[w] = 1 => pc[w] \in {"select", "process", "terminate"}

\* A consumer that subscribes again, after whatever its processor has or has
\* not checkpointed, goes on where the ended stream stopped: it neither skips
\* nor repeats a record.
ResumesInPlace ==
  [][\A w \in Workers :
       pc[w] = "select" /\ pc'[w] = "select" /\ ended[w] /\ ~ended'[w] =>
         at'[w] = at[w]]_vars

\* The shard and its row as an instance of ordered delivery.
Delivery == INSTANCE OrderedDelivery WITH
  Shards    <- {"shard"},
  NoShard   <- "none",
  Parent    <- [s \in {"shard"} |-> "none"],
  Records   <- [s \in {"shard"} |-> LastRecord],
  listed    <- {"shard"},
  processed <- [s \in {"shard"} |-> processed],
  saved     <- [s \in {"shard"} |-> IF row.ckpt = NoAttr THEN 0 ELSE row.ckpt]

\* Event streams that end anywhere, lost leases, failed calls and all: the
\* consumers implement ordered delivery of the shard.
ImplementsDelivery == Delivery!Spec

\* A consumer whose lease another worker has taken over stops, or gets the
\* lease back, even if its stream never runs dry.
LostLeaseNoticed ==
  \A w \in Workers :
    pc[w] # "off" /\ row.owner \in Workers \ {w} ~>
      pc[w] = "off" \/ row.owner \notin Workers \ {w}

\* The shard is finished, in the table or at least in the cache of a worker
\* whose checkpoint of SHARD_END has failed, or someone is subscribed to it.
Served == row.ckpt = ShardEnd \/ \E w \in Workers : open[w] > 0 \/ cache[w].ckpt = ShardEnd

\* w will not look for the lease again: it has been shut down, or a GetLease of
\* its event loop was refused, or failed, after FetchCheckpoint had made w the
\* owner in its cache.
Skips(w) ==
  \/ w \in gone
  \/ loop[w] = "refused" /\ cache[w].owner = w

\* Someone subscribes to the shard again and again, as long as there is a worker
\* that does not skip it: a stream that ends before its first event, a lost
\* lease, or a consumer that returns for any other reason, does not end the
\* consumption.
ShardServed == []<>(Served \/ \A w \in Workers : Skips(w))

\* What RemoveLeaseOwner is for: a lease that is given up is "available for
\* reassignment", to any worker that has not been shut down.
ReleasedIsReassigned == []<>(Served \/ gone = Workers)
=============================================================================
