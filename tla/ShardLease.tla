----------------------------- MODULE ShardLease -----------------------------
(***************************************************************************)
(* One root shard of the stream, its row in the DynamoDB lease table, and  *)
(* every goroutine of every worker that touches the two:                   *)
(*   - the event loop, which acquires the lease and, with lease stealing,  *)
(*     claims it from its owner (worker.go, eventLoop and rebalance);      *)
(*   - the shard consumers it starts: one goroutine polls the shard, calls *)
(*     the record processor and releases the lease when it returns         *)
(*     (getRecords, releaseLease); a second one renews the lease           *)
(*     (renewLease).  A worker can have an old consumer still winding down *)
(*     when it starts the next, so each worker has several slots.          *)
(* The goroutines of a worker share its ShardStatus, `cache'; workers share*)
(* the row only.  A step is what happens between two calls to DynamoDB,    *)
(* and each of ClaimShard's reads of the cache is a step of its own; each  *)
(* call takes effect at one instant, can fail, and a PutItem or an         *)
(* UpdateItem can take effect with its answer lost.                        *)
(***************************************************************************)
EXTENDS LeaseTable, FiniteSets

CONSTANTS
  Consumers,   \* consumer slots of a worker (bound)
  MaxTime,     \* bound of the clock
  MaxStarts,   \* bound: after so many consumers, no event loop looks for more
  MaxFaults,   \* bound on the failed calls and crashes of a behaviour
  Stoppable,   \* the workers Shutdown may be called on
  Acquirers,   \* bound: the workers whose event loops look for a lease
  Claimants    \* bound: the workers whose event loops rebalance

ASSUME ModelBoundsAssumption ==
  /\ MaxTime \in Nat \ {0}
  /\ MaxStarts \in Nat
  /\ MaxFaults \in Nat
  /\ Stoppable \subseteq Workers
  /\ Acquirers \subseteq Workers
  /\ Claimants \subseteq Workers

VARIABLES
  now,        \* the clock, common to the workers
  row,        \* the shard's row
  cache,      \* cache[w]: the ShardStatus of worker w
  stop,       \* stop[w]: Shutdown has closed w's stop channel
  loopPc,     \* loopPc[w]: where the event loop of w is
  loopReq,    \* loopReq[w]: the conditional PutItem of its GetLease
  loopRow,    \* loopRow[w]: the row its Scan returned
  loopShard,  \* loopShard[w]: what its ClaimShard is about to write
  loopIf,     \* loopIf[w]: the checkpoint the condition of that write compares
  alone,      \* history: no consumer of w ran when its ClaimShard began
  conPc,      \* conPc[w][c]: where consumer c of w is
  conPos,     \* conPos[w][c]: the last record delivered to its processor
  conShard,   \* conShard[w][c]: what its CheckpointSequence is about to write
  renPc,      \* renPc[w][c]: where its renewal goroutine is
  renReq,     \* renReq[w][c]: the conditional PutItem of that GetLease
  processed,  \* the records some processor has been given
  started,    \* number of consumers started so far
  faults      \* number of calls that failed and of crashes so far

claimVars == <<loopShard, loopIf, alone>>
loopVars == <<loopPc, loopReq, loopRow, claimVars>>
conVars  == <<conPc, conPos, conShard>>
renVars  == <<renPc, renReq>>
vars == <<now, row, cache, stop, loopVars, conVars, renVars, processed, started, faults>>

LoopPcs == {"sleep", "read", "put", "set", "sync", "steal",
            "timeout", "checkpoint", "owner", "condition", "claim", "done"}
ConPcs  == {"off", "start", "poll", "save", "select", "saveLast", "release"}
RenPcs  == {"off", "timer", "fired", "put", "set", "failed"}

TypeOK ==
  /\ now \in Nat \ {0}
  /\ row \in Item
  /\ cache \in [Workers -> ShardStatus]
  /\ stop \in [Workers -> BOOLEAN]
  /\ loopPc \in [Workers -> LoopPcs]
  /\ loopReq \in [Workers -> LeaseRequest]
  /\ loopRow \in [Workers -> Item]
  /\ loopShard \in [Workers -> ShardStatus]
  /\ loopIf \in [Workers -> Checkpoints]
  /\ alone \in [Workers -> BOOLEAN]
  /\ conPc \in [Workers -> [Consumers -> ConPcs]]
  /\ conPos \in [Workers -> [Consumers -> 0 .. LastRecord]]
  /\ conShard \in [Workers -> [Consumers -> ShardStatus]]
  /\ renPc \in [Workers -> [Consumers -> RenPcs]]
  /\ renReq \in [Workers -> [Consumers -> LeaseRequest]]
  /\ processed \subseteq 1 .. LastRecord
  /\ started \in Nat
  /\ faults \in Nat

Init ==
  /\ now = 1
  /\ row = NoItem
  /\ cache = [w \in Workers |-> NewShardStatus]
  /\ stop = [w \in Workers |-> FALSE]
  /\ loopPc = [w \in Workers |-> "sleep"]
  /\ loopReq = [w \in Workers |-> NoRequest]
  /\ loopRow = [w \in Workers |-> NoItem]
  /\ loopShard = [w \in Workers |-> NewShardStatus]
  /\ loopIf = [w \in Workers |-> 0]
  /\ alone = [w \in Workers |-> FALSE]
  /\ conPc = [w \in Workers |-> [c \in Consumers |-> "off"]]
  /\ conPos = [w \in Workers |-> [c \in Consumers |-> 0]]
  /\ conShard = [w \in Workers |-> [c \in Consumers |-> NewShardStatus]]
  /\ renPc = [w \in Workers |-> [c \in Consumers |-> "off"]]
  /\ renReq = [w \in Workers |-> [c \in Consumers |-> NoRequest]]
  /\ processed = {}
  /\ started = 0
  /\ faults = 0

\* Assignments to one worker's, or one consumer's, entry of a function.
AtLoop(w, p)   == loopPc' = [loopPc EXCEPT ![w] = p]
AtCon(w, c, p) == conPc' = [conPc EXCEPT ![w][c] = p]
AtRen(w, c, p) == renPc' = [renPc EXCEPT ![w][c] = p]

\* A call works, or is one of the faults of the behaviour.
Works == UNCHANGED faults
Fails == faults < MaxFaults /\ faults' = faults + 1

\* The conditional PutItem of a GetLease of w: it takes effect and says so;
\* its condition does not hold; it fails or its answer is lost.
PutGranted(req, w) ==
  /\ GetLeaseCondition(row, req)
  /\ row' = GetLeaseItem(req, w)
  /\ Works
PutRefused(req) ==
  ~GetLeaseCondition(row, req) /\ UNCHANGED row /\ Works
PutFails(req, w) ==
  /\ Fails
  /\ \/ UNCHANGED row
     \/ /\ GetLeaseCondition(row, req)
        /\ row' = GetLeaseItem(req, w)

-----------------------------------------------------------------------------
(* Event loop: acquiring the lease.                                        *)

\* A worker that is not the owner in its own cache refreshes the cache and
\* goes on to GetLease unless the shard is finished.  (A failed read changes
\* nothing; nor does an iteration that finds the worker at MaxLeasesForWorker
\* or the lease already its own.)
LoopFetch(w) ==
  /\ loopPc[w] = "sleep"
  /\ w \in Acquirers /\ started < MaxStarts
  /\ cache[w].owner # w
  /\ cache' = [cache EXCEPT ![w] = FetchCheckpoint(row, @)]
  /\ AtLoop(w, IF cache'[w].ckpt = ShardEnd THEN "sleep" ELSE "read")
  /\ UNCHANGED <<now, row, stop, loopReq, loopRow, claimVars, conVars, renVars,
                 processed, started, faults>>

\* GetLease up to its PutItem.
LoopRead(w) ==
  /\ loopPc[w] = "read"
  /\ \/ /\ ~GetLeaseRefused(row, cache[w], w, now)
        /\ loopReq' = [loopReq EXCEPT ![w] = GetLeaseRequest(row, cache[w], w, now)]
        /\ AtLoop(w, "put")
        /\ Works
     \/ /\ (GetLeaseRefused(row, cache[w], w, now) /\ Works) \/ Fails
        /\ AtLoop(w, "sleep")
        /\ UNCHANGED loopReq
  /\ UNCHANGED <<now, row, cache, stop, loopRow, claimVars, conVars, renVars,
                 processed, started>>

LoopPut(w) ==
  /\ loopPc[w] = "put"
  /\ \/ /\ PutGranted(loopReq[w], w)
        /\ AtLoop(w, "set")
        /\ UNCHANGED loopReq
     \/ /\ PutRefused(loopReq[w]) \/ PutFails(loopReq[w], w)
        /\ AtLoop(w, "sleep")
        /\ loopReq' = [loopReq EXCEPT ![w] = NoRequest]
  /\ UNCHANGED <<now, cache, stop, loopRow, claimVars, conVars, renVars,
                 processed, started>>

\* GetLease's assignments to the cache, and the goroutine of getRecords.
LoopSet(w) ==
  /\ loopPc[w] = "set"
  /\ cache' = [cache EXCEPT ![w] = GetLeaseGranted(@, loopReq[w], w)]
  /\ loopReq' = [loopReq EXCEPT ![w] = NoRequest]
  /\ AtLoop(w, "sleep")
  /\ \E c \in Consumers :
       /\ conPc[w][c] = "off" /\ renPc[w][c] = "off"
       /\ AtCon(w, c, "start")
  /\ started' = started + 1
  /\ UNCHANGED <<now, row, stop, loopRow, claimVars, conPos, conShard, renVars,
                 processed, faults>>

-----------------------------------------------------------------------------
(* Event loop: stealing.  Which shard rebalance picks depends on the other *)
(* shards of the stream: here it may pick this one whenever the cache says *)
(* that another worker owns it and that it is not finished.                *)

MayBeStolen(w, shard) ==
  /\ shard.owner \notin {w, EmptyOwner}
  /\ shard.ckpt # ShardEnd

\* syncLeases is due: the Scan returns a row ...
RebalanceScan(w) ==
  /\ EnableLeaseStealing /\ w \in Claimants
  /\ loopPc[w] = "sleep"
  /\ loopRow' = [loopRow EXCEPT ![w] = row]
  /\ AtLoop(w, "sync")
  /\ UNCHANGED <<now, row, cache, stop, loopReq, claimVars, conVars, renVars,
                 processed, started, faults>>

\* ... which by now may be stale, and is copied to the cache.
RebalanceSync(w) ==
  /\ loopPc[w] = "sync"
  /\ cache' = [cache EXCEPT ![w] = SyncLease(loopRow[w], @)]
  /\ loopRow' = [loopRow EXCEPT ![w] = NoItem]
  /\ \/ MayBeStolen(w, cache'[w]) /\ AtLoop(w, "steal")
     \/ AtLoop(w, "sleep")
  /\ UNCHANGED <<now, row, stop, loopReq, claimVars, conVars, renVars,
                 processed, started, faults>>

\* syncLeases is not due: rebalance goes by the cache as it is.
RebalanceCached(w) ==
  /\ EnableLeaseStealing /\ w \in Claimants
  /\ loopPc[w] = "sleep"
  /\ MayBeStolen(w, cache[w])
  /\ AtLoop(w, "steal")
  /\ UNCHANGED <<now, row, cache, stop, loopReq, loopRow, claimVars, conVars,
                 renVars, processed, started, faults>>

\* ClaimShard: its FetchCheckpoint, which may fail.
ClaimFetch(w) ==
  /\ loopPc[w] = "steal"
  /\ \/ /\ cache' = [cache EXCEPT ![w] = FetchCheckpoint(row, @)]
        /\ alone' = [alone EXCEPT ![w] = \A c \in Consumers : conPc[w][c] = "off"]
        /\ AtLoop(w, "timeout")
        /\ Works
     \/ /\ Fails
        /\ AtLoop(w, "sleep")
        /\ UNCHANGED <<cache, alone>>
  /\ UNCHANGED <<now, row, stop, loopReq, loopRow, loopShard, loopIf, conVars,
                 renVars, processed, started>>

\* Then it reads the cache one field at a time, and the checkpoint twice: the
\* one it writes, and the one its condition compares.  The consumers of the
\* worker may change the cache in between.
ClaimRead(w) ==
  /\ \/ /\ loopPc[w] = "timeout"
        /\ loopShard' = [loopShard EXCEPT ![w].timeout = cache[w].timeout]
        /\ AtLoop(w, "checkpoint")
        /\ UNCHANGED loopIf
     \/ /\ loopPc[w] = "checkpoint"
        /\ loopShard' = [loopShard EXCEPT ![w].ckpt = cache[w].ckpt]
        /\ AtLoop(w, "owner")
        /\ UNCHANGED loopIf
     \/ /\ loopPc[w] = "owner"
        /\ loopShard' = [loopShard EXCEPT ![w].owner = cache[w].owner]
        /\ AtLoop(w, "condition")
        /\ UNCHANGED loopIf
     \/ /\ loopPc[w] = "condition"
        /\ loopIf' = [loopIf EXCEPT ![w] = cache[w].ckpt]
        /\ AtLoop(w, "claim")
        /\ UNCHANGED loopShard
  /\ UNCHANGED <<now, row, cache, stop, loopReq, loopRow, alone, conVars,
                 renVars, processed, started, faults>>

\* ClaimShard's conditional PutItem.
ClaimPut(w) ==
  /\ loopPc[w] = "claim"
  /\ LET accepted == ClaimCondition(row, loopShard[w], loopIf[w])
     IN \/ accepted /\ row' = ClaimItem(loopShard[w], w) /\ (Works \/ Fails)
        \/ UNCHANGED row /\ ((~accepted /\ Works) \/ Fails)
  /\ loopShard' = [loopShard EXCEPT ![w] = NewShardStatus]
  /\ loopIf' = [loopIf EXCEPT ![w] = 0]
  /\ alone' = [alone EXCEPT ![w] = FALSE]
  /\ AtLoop(w, "sleep")
  /\ UNCHANGED <<now, cache, stop, loopReq, loopRow, conVars, renVars,
                 processed, started>>

\* The sleeping event loop sees the stop channel closed.
LoopExit(w) ==
  /\ loopPc[w] = "sleep"
  /\ stop[w]
  /\ AtLoop(w, "done")
  /\ UNCHANGED <<now, row, cache, stop, loopReq, loopRow, claimVars, conVars,
                 renVars, processed, started, faults>>

-----------------------------------------------------------------------------
(* Shard consumer.                                                         *)

\* getRecords has returned, or is about to: its context is cancelled.
Cancelled(w, c) == conPc[w][c] \in {"release", "off"}

\* getRecords returns: its deferred function cancels the renewal goroutine
\* and releaseLease forgets the owner in the cache.  `shard' is the cache as
\* the returning step has left it.
Return(w, c, shard) ==
  /\ AtCon(w, c, "release")
  /\ cache' = [cache EXCEPT ![w] = [shard EXCEPT !.owner = EmptyOwner]]
  /\ conPos' = [conPos EXCEPT ![w][c] = 0]
  /\ AtRen(w, c, IF renPc[w][c] = "failed" THEN "off" ELSE renPc[w][c])

\* The processor calls Checkpoint(ckpt): SetCheckpoint, then the attributes
\* CheckpointSequence is going to write, which it writes at `pc'.
Checkpoint(w, c, ckpt, pc) ==
  /\ cache' = [cache EXCEPT ![w].ckpt = ckpt]
  /\ conShard' = [conShard EXCEPT ![w][c] = cache'[w]]
  /\ AtCon(w, c, pc)

\* getStartingPosition and GetShardIterator; then the renewal goroutine
\* starts.
ConStart(w, c) ==
  /\ conPc[w][c] = "start"
  /\ LET shard == FetchCheckpoint(row, cache[w])
     IN \/ /\ shard.ckpt # ShardEnd
           /\ Works
           /\ cache' = [cache EXCEPT ![w] = shard]
           /\ conPos' = [conPos EXCEPT ![w][c] = StartAfter(shard)]
           /\ AtCon(w, c, "poll")
           /\ AtRen(w, c, "timer")
        \/ \* GetShardIterator has no position after SHARD_END, or fails
           /\ (shard.ckpt = ShardEnd /\ Works) \/ Fails
           /\ Return(w, c, shard)
        \/ \* GetItem fails
           /\ Fails
           /\ Return(w, c, cache[w])
  /\ UNCHANGED <<now, row, stop, loopVars, conShard, renReq, processed, started>>

\* GetRecords returns a record and ProcessRecords gets it; the processor
\* checkpoints it, or an older one, or none.
ConDeliver(w, c) ==
  /\ conPc[w][c] = "poll"
  /\ conPos[w][c] < LastRecord
  /\ conPos' = [conPos EXCEPT ![w][c] = @ + 1]
  /\ processed' = processed \cup {conPos[w][c] + 1}
  /\ \/ \E k \in 1 .. conPos[w][c] + 1 : Checkpoint(w, c, k, "save")
     \/ AtCon(w, c, "select") /\ UNCHANGED <<cache, conShard>>
  /\ UNCHANGED <<now, row, stop, loopVars, renVars, started, faults>>

\* CheckpointSequence's PutItem takes effect, or fails.
SaveItem(w, c) ==
  \/ row' = CheckpointItem(conShard[w][c]) /\ Works
  \/ UNCHANGED row /\ Fails

ConSave(w, c) ==
  /\ conPc[w][c] = "save"
  /\ SaveItem(w, c)
  /\ conShard' = [conShard EXCEPT ![w][c] = NewShardStatus]
  /\ AtCon(w, c, "select")
  /\ UNCHANGED <<now, cache, stop, loopVars, conPos, renVars, processed, started>>

\* GetRecords returns no record.
ConPollEmpty(w, c) ==
  /\ conPc[w][c] = "poll"
  /\ AtCon(w, c, "select")
  /\ UNCHANGED <<now, row, cache, stop, loopVars, conPos, conShard, renVars,
                 processed, started, faults>>

\* GetRecords fails for good.
ConPollFails(w, c) ==
  /\ conPc[w][c] = "poll"
  /\ Fails
  /\ Return(w, c, cache[w])
  /\ UNCHANGED <<now, row, stop, loopVars, conShard, renReq, processed, started>>

\* GetRecords says that the shard is closed: Shutdown(TERMINATE), in which
\* the processor checkpoints SHARD_END, or only a record, or nothing.
ConClosed(w, c) ==
  /\ conPc[w][c] = "poll"
  /\ conPos[w][c] = LastRecord
  /\ \/ /\ \E k \in 1 .. ShardEnd : Checkpoint(w, c, k, "saveLast")
        /\ UNCHANGED <<conPos, renPc>>
     \/ Return(w, c, cache[w]) /\ UNCHANGED conShard
  /\ UNCHANGED <<now, row, stop, loopVars, renReq, processed, started, faults>>

\* The select at the end of an iteration.  A consumer told to stop calls
\* Shutdown(REQUESTED), in which the processor may checkpoint; one whose
\* renewal has failed just returns.
ConSelect(w, c) ==
  /\ conPc[w][c] = "select"
  /\ \/ /\ stop[w]
        /\ \E k \in 1 .. conPos[w][c] : Checkpoint(w, c, k, "saveLast")
        /\ UNCHANGED <<conPos, renPc>>
     \/ /\ stop[w] \/ renPc[w][c] = "failed"
        /\ Return(w, c, cache[w])
        /\ UNCHANGED conShard
     \/ /\ ~stop[w] /\ renPc[w][c] # "failed"
        /\ AtCon(w, c, "poll")
        /\ UNCHANGED <<cache, conPos, conShard, renPc>>
  /\ UNCHANGED <<now, row, stop, loopVars, renReq, processed, started, faults>>

ConSaveLast(w, c) ==
  /\ conPc[w][c] = "saveLast"
  /\ SaveItem(w, c)
  /\ conShard' = [conShard EXCEPT ![w][c] = NewShardStatus]
  /\ Return(w, c, cache[w])
  /\ UNCHANGED <<now, stop, loopVars, renReq, processed, started>>

\* The rest of releaseLease: RemoveLeaseOwner takes effect, or fails.
ConRelease(w, c) ==
  /\ conPc[w][c] = "release"
  /\ \/ row' = RemoveLeaseOwner(row, w) /\ Works
     \/ UNCHANGED row /\ Fails
  /\ AtCon(w, c, "off")
  /\ UNCHANGED <<now, cache, stop, loopVars, conPos, conShard, renVars, processed, started>>

-----------------------------------------------------------------------------
(* Lease renewal.                                                          *)

\* The timer fires before the context is cancelled.
RenewFire(w, c) ==
  /\ renPc[w][c] = "timer"
  /\ ~Cancelled(w, c)
  /\ AtRen(w, c, "fired")
  /\ UNCHANGED <<now, row, cache, stop, loopVars, conVars, renReq, processed, started, faults>>

\* The context is cancelled.
RenewCancel(w, c) ==
  /\ renPc[w][c] = "timer"
  /\ Cancelled(w, c)
  /\ AtRen(w, c, "off")
  /\ UNCHANGED <<now, row, cache, stop, loopVars, conVars, renReq, processed, started, faults>>

\* renewLease returns its error to getRecords, if that is still there.
RenewRetries(w, c) == AtRen(w, c, IF Cancelled(w, c) THEN "off" ELSE "timer")  \* mutant
RenewBlocks(w, c) == AtRen(w, c, "failed")  \* mutant: leaseRenewalErrChan not buffered
RenewFails(w, c) == AtRen(w, c, IF Cancelled(w, c) THEN "off" ELSE "failed")

RenewRead(w, c) ==
  /\ renPc[w][c] = "fired"
  /\ \/ /\ ~GetLeaseRefused(row, cache[w], w, now)
        /\ renReq' = [renReq EXCEPT ![w][c] = GetLeaseRequest(row, cache[w], w, now)]
        /\ AtRen(w, c, "put")
        /\ Works
     \/ /\ (GetLeaseRefused(row, cache[w], w, now) /\ Works) \/ Fails
        /\ RenewFails(w, c)
        /\ UNCHANGED renReq
  /\ UNCHANGED <<now, row, cache, stop, loopVars, conVars, processed, started>>

RenewPut(w, c) ==
  /\ renPc[w][c] = "put"
  /\ \/ /\ PutGranted(renReq[w][c], w)
        /\ AtRen(w, c, "set")
        /\ UNCHANGED renReq
     \/ /\ PutRefused(renReq[w][c]) \/ PutFails(renReq[w][c], w)
        /\ RenewFails(w, c)
        /\ renReq' = [renReq EXCEPT ![w][c] = NoRequest]
  /\ UNCHANGED <<now, cache, stop, loopVars, conVars, processed, started>>

RenewSet(w, c) ==
  /\ renPc[w][c] = "set"
  /\ cache' = [cache EXCEPT ![w] = GetLeaseGranted(@, renReq[w][c], w)]
  /\ renReq' = [renReq EXCEPT ![w][c] = NoRequest]
  /\ AtRen(w, c, "timer")
  /\ UNCHANGED <<now, row, stop, loopVars, conVars, processed, started, faults>>

-----------------------------------------------------------------------------
(* Environment.                                                            *)

Tick ==
  /\ now < MaxTime
  /\ now' = now + 1
  /\ UNCHANGED <<row, cache, stop, loopVars, conVars, renVars, processed, started, faults>>

\* Worker.Shutdown closes the stop channel.
Shutdown(w) ==
  /\ w \in Stoppable
  /\ ~stop[w]
  /\ stop' = [stop EXCEPT ![w] = TRUE]
  /\ UNCHANGED <<now, row, cache, loopVars, conVars, renVars, processed, started, faults>>

\* The process of worker w dies and is started again under the same
\* identifier: its memory is gone, the row is not.
Crash(w) ==
  /\ Fails
  /\ cache' = [cache EXCEPT ![w] = NewShardStatus]
  /\ stop' = [stop EXCEPT ![w] = FALSE]
  /\ AtLoop(w, "sleep")
  /\ loopReq' = [loopReq EXCEPT ![w] = NoRequest]
  /\ loopRow' = [loopRow EXCEPT ![w] = NoItem]
  /\ loopShard' = [loopShard EXCEPT ![w] = NewShardStatus]
  /\ loopIf' = [loopIf EXCEPT ![w] = 0]
  /\ alone' = [alone EXCEPT ![w] = FALSE]
  /\ conPc' = [conPc EXCEPT ![w] = [c \in Consumers |-> "off"]]
  /\ conPos' = [conPos EXCEPT ![w] = [c \in Consumers |-> 0]]
  /\ conShard' = [conShard EXCEPT ![w] = [c \in Consumers |-> NewShardStatus]]
  /\ renPc' = [renPc EXCEPT ![w] = [c \in Consumers |-> "off"]]
  /\ renReq' = [renReq EXCEPT ![w] = [c \in Consumers |-> NoRequest]]
  /\ UNCHANGED <<now, row, processed, started>>

LoopStep(w) ==
  \/ LoopFetch(w) \/ LoopRead(w) \/ LoopPut(w) \/ LoopSet(w)
  \/ RebalanceScan(w) \/ RebalanceSync(w) \/ RebalanceCached(w)
  \/ ClaimFetch(w) \/ ClaimRead(w) \/ ClaimPut(w) \/ LoopExit(w)

ConStep(w, c) ==
  \/ ConStart(w, c) \/ ConDeliver(w, c) \/ ConSave(w, c) \/ ConPollEmpty(w, c)
  \/ ConPollFails(w, c) \/ ConClosed(w, c) \/ ConSelect(w, c)
  \/ ConSaveLast(w, c) \/ ConRelease(w, c)

RenewStep(w, c) ==
  \/ RenewFire(w, c) \/ RenewCancel(w, c) \/ RenewRead(w, c)
  \/ RenewPut(w, c) \/ RenewSet(w, c)

Next ==
  \/ Tick
  \/ \E w \in Workers :
       \/ LoopStep(w)
       \/ Shutdown(w)
       \/ Crash(w)
       \/ \E c \in Consumers : ConStep(w, c) \/ RenewStep(w, c)

Spec == Init /\ [][Next]_vars

-----------------------------------------------------------------------------
(* Properties.                                                             *)

\* At-least-once delivery.  The row never holds a checkpoint beyond a record
\* that no processor has been given, SHARD_END included: wherever the next
\* consumer starts (getStartingPosition), it skips nothing.  This is in spite
\* of the unconditional, possibly late, PutItem of CheckpointSequence and of
\* GetLease writing back a checkpoint it has cached.
CheckpointCovered == CoveredBy(row.ckpt, processed)

\* Its inductive form: so is every checkpoint on its way to the row, in the
\* caches and in the calls in flight, and every consumer's position.
CheckpointInv ==
  /\ CheckpointCovered
  /\ \A w \in Workers :
       /\ CoveredBy(cache[w].ckpt, processed)
       /\ CoveredBy(loopReq[w].ckpt, processed)
       /\ CoveredBy(loopRow[w].ckpt, processed)
       /\ CoveredBy(loopShard[w].ckpt, processed)
       /\ \A c \in Consumers :
            /\ CoveredBy(conPos[w][c], processed)
            /\ CoveredBy(conShard[w][c].ckpt, processed)
            /\ CoveredBy(renReq[w][c].ckpt, processed)

\* The step is the PutItem of a GetLease of w, by its event loop or by a
\* renewal goroutine, and it has taken effect.
LeaseWritten(w) ==
  /\ row' # row
  /\ \/ loopPc[w] = "put" /\ loopPc'[w] # "put"
     \/ \E c \in Consumers : renPc[w][c] = "put" /\ renPc'[w][c] # "put"

\* Without lease stealing, GetLease never takes a lease that another worker
\* holds and that has not expired, however long ago it read the row: what it
\* decided on then is still true when its PutItem is accepted (GetLease's
\* condition on AssignedTo and LeaseTimeout).
LiveLeaseNotTaken ==
  [][\A w \in Workers :
       LeaseWritten(w) /\ row.owner \in Workers \ {w} => row.timeout <= now]_vars

\* Its inductive part: a GetLease that is about to write over another
\* worker's lease has seen that lease expired.
RequestExpired(w, req) ==
  req.ifOwner \in Workers \ {w} => req.ifTimeout <= now

RequestsExpired ==
  \A w \in Workers :
    /\ RequestExpired(w, loopReq[w])
    /\ \A c \in Consumers : RequestExpired(w, renReq[w][c])

\* A lease loses its owner only to a consumer of that owner: a consumer that
\* returns after another worker has taken the lease over leaves the lease of
\* its successor alone (releaseLease, RemoveLeaseOwner).
OnlyOwnerReleases ==
  [][\A w \in Workers :
       row.owner = w /\ row'.owner = NoOwner =>
         \E c \in Consumers : conPc[w][c] = "release"]_vars

\* A claim (ClaimShard) is built from a cache that may be stale, and replaces
\* the whole row; still it leaves the owner and its lease timeout as they
\* are.  Nor does it move the checkpoint back, unless the claimant had a
\* consumer of its own when the call began: such a consumer may checkpoint
\* between the two reads of the cached checkpoint, and the claim then puts an
\* older checkpoint in the place of the one its condition has compared.
ClaimKeepsLease ==
  [][\A w \in Workers :
       row'.claim = w /\ row.claim # w =>
         /\ row'.owner = row.owner
         /\ row'.timeout = row.timeout
         /\ alone[w] => row'.ckpt >= row.ckpt]_vars

\* Its inductive part: while a claim is in progress and no consumer of the
\* claimant runs, the cached checkpoint stays the one that was read.
ClaimAlone ==
  \A w \in Workers :
    alone[w] =>
      /\ \A c \in Consumers : conPc[w][c] = "off"
      /\ loopPc[w] \in {"timeout", "checkpoint", "owner", "condition", "claim"}
      /\ loopPc[w] \in {"owner", "condition", "claim"} =>
           loopShard[w].ckpt = cache[w].ckpt
      /\ loopPc[w] = "claim" => loopIf[w] = cache[w].ckpt

\* What the interface documents of Checkpoint (ShutdownError once another
\* instance may have started): a processor cannot checkpoint a shard that
\* another worker now owns.
CheckpointByHolder ==
  [][\A w \in Workers, c \in Consumers :
       conPc[w][c] \in {"save", "saveLast"} /\ row' # row =>
         row.owner \notin Workers \ {w}]_vars

\* This shard and its row as an instance of ordered delivery.
Delivery == INSTANCE OrderedDelivery WITH
  Shards    <- {"shard"},
  NoShard   <- "none",
  Parent    <- [s \in {"shard"} |-> "none"],
  Records   <- [s \in {"shard"} |-> LastRecord],
  listed    <- {"shard"},
  processed <- [s \in {"shard"} |-> processed],
  saved     <- [s \in {"shard"} |-> IF row.ckpt = NoAttr THEN 0 ELSE row.ckpt]

\* The goroutines of the workers, in whatever order they read, write and
\* fail, implement ordered delivery of the shard.
ImplementsDelivery == Delivery!Spec

-----------------------------------------------------------------------------
(* Liveness.  Every goroutine goes on as long as it has something to do.   *)
(* The select of the event loop chooses at random between a closed stop    *)
(* channel and an expired timer, so an exit that is possible again and     *)
(* again is taken: strong fairness.  Nothing is assumed of time, faults,   *)
(* Shutdown, or of what the processor and Kinesis answer.                  *)

Fairness ==
  \A w \in Workers :
    /\ WF_vars(loopPc[w] # "sleep" /\ LoopStep(w))
    /\ SF_vars(LoopExit(w))
    /\ \A c \in Consumers :
         /\ WF_vars(ConStep(w, c))
         /\ WF_vars(RenewStep(w, c))

FairSpec == Spec /\ Fairness

Polling(w, c) == conPc[w][c] \in {"poll", "save", "select"}

\* A consumer whose lease another worker has taken over stops polling,
\* unless its worker gets the lease back (by renewing the lease when the
\* successor's has expired or was released, or by a late checkpoint).
LostLeaseStops ==
  \A w \in Workers, c \in Consumers :
    Polling(w, c) /\ row.owner \in Workers \ {w} ~>
      ~Polling(w, c) \/ row.owner \notin Workers \ {w}

\* All goroutines of w have ended: Shutdown's waitGroup.Wait returns, and no
\* renewal goroutine, which the wait group does not count, is left behind.
Quiet(w) ==
  /\ loopPc[w] = "done"
  /\ \A c \in Consumers : conPc[w][c] = "off" /\ renPc[w][c] = "off"

\* After Shutdown the worker comes to rest (unless it crashes, and starts
\* again, before it does).
ShutdownCompletes == \A w \in Workers : stop[w] ~> Quiet(w) \/ ~stop[w]
=============================================================================
