# A verification of vmware-go-kcl-v2

TLA+ models, TLC runs and TLAPS proofs of the Kinesis client library in this
repository.  The library lets a fleet of *workers* consume the shards of a
Kinesis stream.  The workers share nothing but a DynamoDB table with one row per
shard, which carries the lease (owner, expiry), the checkpoint and, with lease
stealing, a claim.  All that makes the library correct is in the protocol on that
row, in the goroutines that run it inside each worker, and in the loops that
poll Kinesis.

`PROJECT.json` is the index: components, runs, the code lines of each definition
("map"), the hazards and the properties that address them, the mutants that show
each property can fail, the findings and the theorems.

## Inventory

| Component (under `src/clientlibrary`) | State | Operations | What must be right |
|---|---|---|---|
| `checkpoint/dynamodb-checkpointer.go` | the lease table; `lastLeaseSync` | GetLease, FetchCheckpoint, CheckpointSequence, RemoveLeaseOwner, RemoveLeaseInfo, ListActiveWorkers (syncLeases), ClaimShard | a live lease is not taken; the checkpoint never passes a record that was not delivered |
| `partition/partition.go` | ShardStatus: a worker's cache of a row | locked getters and setters, IsClaimRequestExpired | the cache may be stale, and what is written from it must not do harm |
| `worker/worker.go` event loop | shardStatus, stop, waitGroup, shardStealInProgress | eventLoop, rebalance, syncShard, Start, Shutdown | a released shard is taken up again; shutdown ends |
| `worker/polling-shard-consumer.go` | iterator, rate limiter, retry count | getRecords, renewLease, callGetRecordsAPI, checkCoolOffPeriod, waitASecond | no consumption without a lease; Kinesis' limits; it stops when told |
| `worker/common-shard-consumer.go` | - | getStartingPosition, waitOnParentShard, processRecords, releaseLease | start after the checkpoint; parent before child; release only one's own lease |
| `worker/fan-out-shard-consumer.go` | subscription, continuation number, renewal timer | getRecords, subscribeToShard, resubscribe | no gap over a resubscription |
| `worker/worker-fan-out.go` | consumer ARN | fetchConsumerARN(WithRetry) | the retries outlast the registration |
| `worker/record-processor-checkpointer.go` | - | Checkpoint, PrepareCheckpoint | SHARD_END only when asked |
| `metrics/cloudwatch/cloudwatch.go` | per-shard counters | flush loop, recorders, Shutdown | nothing recorded is lost; the last flush comes after the last record |
| `metrics/prometheus`, `config`, `interfaces`, `utils`, `logger` | - | - | plain assignments or output: not modelled |

How they interact: the event loop goroutine of a worker acquires a lease and
starts a *consumer* goroutine for the shard; the polling consumer starts a
*renewal* goroutine, polls Kinesis, calls the record processor (which calls
`Checkpoint` back) and, by `defer`, cancels the renewal and releases the lease.
The three share the worker's ShardStatus under a lock that is held for single
assignments only, never across a call.  Workers interact through conditional and
unconditional PutItem and UpdateItem calls.

The hard behaviours: the gap between GetLease's read and its conditional write;
the gap between a lock's release and the next; goroutines of a consumer that is
winding down next to those of its successor in the same worker; a worker that
does not know it has lost its lease; calls that fail or whose answer is lost;
processes that die and restart with the same worker id; sleeps, retries and rate
limits that keep a loop from its `select`.

## Modules

| Module | Stands for |
|---|---|
| `OrderedDelivery` | the abstract specification: what an application is promised of its shards, without workers or leases |
| `LeaseTable` | one row, one ShardStatus and the calls of DynamoCheckpoint on the two, as operators on values |
| `ShardLease` | EXTENDS `LeaseTable`: the state machine of one root shard, all workers, and all the goroutines of each; implements `OrderedDelivery` |
| `MCLease` | model values for `ShardLease` |
| `GetRecordsLoop` | the polling loop's rate limiter, sleeps and retries, and the shard's side of the budget |
| `ParentShards` | EXTENDS `LeaseTable`: the shards of a stream over a reshard, their leases and consumers, syncShard and waitOnParentShard; implements `OrderedDelivery` |
| `MCParents` | a parent and its child, for `ParentShards` |
| `Rebalance` | EXTENDS `LeaseTable`: lease stealing over several shards: the views of the table, who claims which shard, and what becomes of claims |
| `MCRebalance` | two shards, one or two workers, for `Rebalance` |
| `FanOutConsumer` | EXTENDS `LeaseTable`: the enhanced fan-out consumer of a root shard, its event streams and lease refresh; implements `OrderedDelivery` |
| `MCFanOut` | two workers, for `FanOutConsumer` |
| `CloudWatchMetrics` | the metrics of one shard: the goroutines that record, and the one that publishes |
| `WorkerLifecycle` | EXTENDS `CloudWatchMetrics`: Start, the registration of the fan-out consumer, the event loop, the consumers and Shutdown of one worker |
| `MCLifecycle` | model values for `WorkerLifecycle` |
| `LeaseTableTheorems` | lemmas: the operators of `LeaseTable` return rows, caches and requests |
| `DeliveryProofs` | EXTENDS `OrderedDelivery`: what its promise comes to |
| `ShardLeaseProofs` | types, at-least-once delivery, the refinement, and exclusion: leases, releases and claims |
| `ParentProofs` | types, parent before child, the refinement |
| `FanOutProofs` | types, event streams and their continuation, the refinement |
| `GetRecordsProofs` | types, the byte budget and the call budget |
| `LifecycleProofs` | types, the metrics, and what Shutdown has done when it returns |
| `RebalanceProofs` | types |

### OrderedDelivery

Three variables: the shards of the stream, the records of each that some processor
has been given, and `saved`, where the next consumer of the shard would start.  A
record is delivered only after all before it, and only when the parent shard is
finished or gone; `saved` may go back, but never beyond a record that was not
delivered.  `ShardLease`, `ParentShards` and `FanOutConsumer` each instantiate it
(`Delivery`) with `saved` read off the row of the lease table, and
`ImplementsDelivery` is the refinement: each step of a worker is one of the
abstract steps, or none.  Everything that makes it hard - stale caches, late
writes, consumers that overlap or believe to hold a lease - is hidden by the
mapping and must therefore not show.

### LeaseTable and ShardLease

A row is a record `[owner, timeout, ckpt, claim]`; a missing attribute is
`NoOwner` or `NoAttr`, distinct from the empty string (`EmptyOwner`, checkpoint
0), because conditions such as `attribute_not_exists` tell them apart.  Sequence
numbers are `1..LastRecord`, `SHARD_END` is `LastRecord + 1`.  Time is a natural
number common to the workers (clock skew is not modelled).

A step of `ShardLease` is what happens between two calls to DynamoDB; ClaimShard's
reads of the shared ShardStatus are steps of their own:

- *event loop* (`loopPc`): `LoopFetch` (FetchCheckpoint), `LoopRead` (GetLease up
  to its PutItem), `LoopPut` (the conditional PutItem), `LoopSet` (the assignments
  to the cache and the start of a consumer), `LoopExit`; with lease stealing
  `RebalanceScan`, `RebalanceSync`, `RebalanceCached` (syncLeases with and without
  its Scan), `ClaimFetch`, `ClaimRead`, `ClaimPut` (ClaimShard).  `ClaimRead` is the
  four reads of the cache one after the other: lease timeout, the checkpoint that is
  going to be written (line 414), owner, and the checkpoint that the condition compares
  (line 429); `loopShard` and `loopIf` hold what they found.
- *consumer* (`conPc`): `ConStart` (getStartingPosition and the shard iterator),
  `ConDeliver` and `ConSave` (ProcessRecords and the Checkpoint it calls),
  `ConPollEmpty`, `ConPollFails`, `ConClosed`, `ConSelect`, `ConSaveLast`
  (Shutdown of the processor, which may checkpoint), and `Return` followed by
  `ConRelease`: the two halves of releaseLease, because the cached owner is
  emptied before the row's owner is removed.
- *renewal* (`renPc`): `RenewFire`, `RenewRead`, `RenewPut`, `RenewSet`,
  `RenewCancel`.  `RenewFails` is the buffered error channel, whose error reaches
  the consumer at its next select.
- *environment*: `Tick`, `Shutdown`, `Crash` (the process dies and restarts with
  the same id: its memory is gone, the row is not).

`Acquirers`, `Claimants`, `Stoppable`, `MaxTime`, `MaxStarts` and `MaxFaults` are bounds of an
instance.  `Consumers` are slots: a worker starts its next consumer while an old one has not
yet returned.  `Fails` is a call that fails; a PutItem that fails may still have
taken effect.  The record processor is environment: within a call it checkpoints
any record up to the last it has been given, SHARD_END at the end, or nothing.  `LATEST` and `AT_TIMESTAMP` are left out (they skip
records by design), so a consumer without a checkpoint starts at the first record.

### GetRecordsLoop

`checkCoolOffPeriod`, `callGetRecordsAPI`, `waitASecond` and the error paths of
`getRecords`, for one consumer, in ticks of time.  Points in time are kept as
ages, with a cap beyond which the code cannot tell them apart.  Two history
variables stand for the other side: `bucket`, the bytes the shard could still
deliver at its own rate, and `ages`, how long ago the last calls of GetRecords were,
as many as the call budget speaks of.

### ParentShards

Several shards, `LeaseTable` again for their rows.  A shard is closed by `Reshard`,
which adds its children, and leaves the stream by `Retire`.  Each worker has a
`known` set and a cache (`Sync` is syncShard with its RemoveLeaseInfo), acquires at
most `MaxLeasesForWorker` leases, each by a `Fetch` (FetchCheckpoint) and then a
`GetLease`, with `look` the shard it has fetched; a consumer goes through
`WaitOnParentShard`, `Start`, `Deliver`, then `End`, `Expired` or a `Renew` that is
refused.  A call of DynamoCheckpoint is one step: its parts are `ShardLease`'s
business.  A child has one parent, leases are not stolen, RemoveLeaseInfo is the only
call that fails, a worker has one consumer per shard, and the processor checkpoints
the record it has just been given or none (older ones are in `ShardLease`).

### Rebalance

Several open shards; each worker has a cache of all of them.  `View` is syncLeases
(with or without its Scan, as its interval is over or not), the operators after it are
ListActiveWorkers and the arithmetic of rebalance, `Steal` ends in ClaimShard and
`RebalanceIdle` is every way out before it.  `Fetch` and `GetLease` are the event
loop's visit of a shard, in two steps as in `ParentShards`, `Renew` the renewal, which
a claim makes fail, `Checkpoint` the processor's (it drops the claim), and `Crash` a
restart with the same identifier.  Calls do not fail here.
`shardStealInProgress` is left out: the first shard without a `ClaimRequest` resets
it, and no code sets `ClaimRequest`, so that it keeps nobody from anything.

Time is relative here and in `FanOutConsumer`: `Now` is a constant, and a tick ages
every lease timeout (`Aged`) down to the point where the code cannot tell it from an
older one.  So time can go on for ever in a finite model, and liveness can assume it.

### FanOutConsumer

The event loop (`loop`) tries for the lease in two steps, `LoopFetch` and `GetLease`,
either of which may fail, and skips a shard whose cached owner the worker is, as
worker.go:311 does.  The consumer is one goroutine (`pc`): `Subscribe`, then the select, whose ready cases are
`Event` followed by `Process` (and `Terminate` at the end of the shard), `Resubscribe`
when the stream has ended, `Refresh` of the lease, and `Stop`.  Every way out is
`Return` (the deferred close of the stream and the cached half of releaseLease) and
`Release`.  `open` counts the event streams not closed.  `StreamEnds` is Kinesis,
which ends a stream whenever it likes.  The parent shard is `ParentShards`' business.

### CloudWatchMetrics and WorkerLifecycle

A recorder is two steps, because the map of entries is read (`Load`) and written
(`Store`) without a lock, and a third for the entry itself (`Add`, under its mutex).
Two of the measurements that add up, records and renewals, and the gauge of leases
stand for the rest.  `Flush` publishes and resets, or fails, or succeeds with
its answer lost.  `recorded` and `published` are history variables.

`WorkerLifecycle` says who runs when: the steps of `initialize` and `Start`, the
retries of fetchConsumerARN against the state of the registration, the event loop,
which records a lease before it starts the consumer, consumers and renewals that
record, and Shutdown up to the `Wait` of the wait group and that of the monitoring
service.  Shutdown may be called before, during or after Start, and again.
`initialize` makes the stop channel (`MakeStop`) before the wait group
(`MakeWaitGroup`): a Shutdown in between waits for a wait group that is nil, and the
process dies (`ShutdownPanics`).  A consumer starts in waitOnParentShard ("wait") or
after it; nothing but its parent's end or a failed call ends the wait (`WaitEnds`), the
stop channel does not.  Which leases are gained and when consumers end is free.

## Runs

| Run | Question | Instance |
|---|---|---|
| `lease_handover` | Does no GetLease take a lease that is live and another's, is a lease released by its owner only, does the row never skip a record, and does a consumer whose lease is gone stop polling? `TypeOK`, `LiveLeaseNotTaken`, `OnlyOwnerReleases`, `CheckpointCovered`, `LostLeaseStops` | two workers with one slot each, one record, time to 2 with leases of 1, no fault: a worker that stalls leaves the row as one that dies does, and faults are in `lease_restart`. No event loop looks for the lease after the first consumer has started (`MaxStarts` = 1), but one that has looked before goes on, so both can start one |
| `lease_restart` | Do consumers of one worker that overlap keep every checkpoint covered, is what they do ordered delivery, and does the worker come to rest after Shutdown? `CheckpointInv`, `ImplementsDelivery`, `ShutdownCompletes` | one worker, two slots, three consumers started, one fault (failed call, lost answer or crash), one record; a single instant, since no other worker waits for an expiry |
| `lease_steal` | Does a claim built from a stale cache leave owner, timeout and checkpoint alone? `ClaimKeepsLease` | two workers, stealing on, one that acquires and one that claims, two records, one consumer started, one fault. The claimant has no consumer here: with two workers that do both there are over 20 million states, and that case is left to the theorem `ClaimSafe` |
| `get_records` | Do the limiters bound what is taken without locking the loop out, and does the loop end when told? `TypeOK`, `ByteBudget`, `CallBudget`, `PollsAgain`, `StopHonoured` | a second of 2 ticks, a response of up to 2 seconds' worth of bytes, 2 calls a second, 1 retry |
| `parent_shards` | Does a child wait for its parent, and does the waiting end, while leases move? `TypeOK`, `ParentFirst`, `EveryRecordDelivered`, `ImplementsDelivery` | two workers, one that may have two leases and one that may have one; a parent (two records, one checkpointed) and its child (one), leases of 1 and time to 2; a shard retires at the end of the clock only, as a retention period outlasts any lease, with the first worker's consumer perhaps still at it |
| `rebalance` | Does a claim nobody makes use of leave a shard without a lease? `TypeOK`, `FreeShardLeased` | two shards, two workers that may take two and one; the second may crash once, and stay down; leases of 1, claims that expire with them |
| `fan_out` | Do event streams that end, lost leases, faults and Shutdown leave delivery ordered, no stream open and the shard served? `TypeOK`, `NoStreamLeft`, `ResumesInPlace`, `ImplementsDelivery`, `LostLeaseNoticed`, `ShardServed` | two workers, one of which may be shut down, one record, leases of 1, one fault |
| `lifecycle` | Does Start return, is Shutdown heard by all, is no measurement lost, and are the last ones published? `TypeOK`, `NothingLost`, `HeldBalanced`, `ShutdownFlushes`, `StartReturns`, `ShutdownHeard` | one consumer slot, two leases one after the other, one measurement of each kind, two entries that can be made, one fault, two retries |

Why the bounds suffice: what a property of the lease protocol can see is the order
of the reads, writes and assignments of at most two parties for the row.  Two
workers (or two consumers of one worker), an acquisition each and two instants give
an expiry in each gap between a read and its write, a takeover, and a late write
of the one that was taken over.  For resharding, one parent and one child show every
order of their leases, ends and removals by two workers.  Two shards and two
workers with different limits are the least for which rebalance claims anything and
a claim can turn out to be of no use.  In `lifecycle`, two goroutines that record for
the first time and two entries are enough for the unlocked map to lose one, and one
failed call for a flush to lose what was recorded.  The passing runs have between 10^5 and 5*10^5 states each.
Every property has a mutant (listed in
`PROJECT.json`) that the same bounds catch, and the safety properties are proved
for all values of the constants below.  `CHECK_DEADLOCK FALSE` in the lease runs and in `parent_shards`:
the clock, the number of consumers and of faults are bounded, so a behaviour stops;
in `lifecycle` because a worker that was shut down has nothing left to do.

### Findings

Four runs are expected to end in a counterexample: the code does not do what its
comments and interfaces say.

| Run | Property | What happens |
|---|---|---|
| `zombie_checkpoint` | `CheckpointByHolder` | CheckpointSequence is unconditional; a consumer that has lost its lease checkpoints without an error and writes itself back as the owner |
| `parent_order` | `ParentFirst` | a parent whose row has no checkpoint yet counts as deleted, so its child is consumed first (the same instance as `parent_shards`, but nothing checkpointed at the start) |
| `restart_orphan` | `EveryShardConsumed` | with lease stealing, a worker that restarts under its own identifier is told by syncLeases that it owns the shards of its former life; its event loop skips them before it looks at the timeout, and nobody consumes them |
| `owner_orphan` | `ReleasedIsReassigned` | the same without lease stealing: FetchCheckpoint makes a restarted worker the owner in its cache, its GetLease is refused or fails, and the event loop skips the shard from then on; when the worker that has it is shut down and gives it up, nobody takes it (the same instance as `fan_out`, whose `ShardServed` excepts the case) |

Other consequences of the same gaps that the modules show, without a run of their own:
between the two halves of releaseLease the event loop can acquire the lease, which
RemoveLeaseOwner then takes from the new consumer; a renewal in flight can write an
older checkpoint over a newer one, or make the worker the owner again after it has
released the shard; with lease stealing an old cached timeout lets a worker take a
live lease; and the child of a parent that left the stream before its SHARD_END was
checkpointed, and whose row stays, waits for ever (`EveryRecordDelivered` excepts it).
Four properties would be false if they were stated without their exceptions, and each
exception is what the code does:

- `ClaimKeepsLease`, the checkpoint: a consumer of the claimant that is still winding
  down may checkpoint between ClaimShard's two reads, and its PutItem come first; the
  claim's condition then holds and its row carries the older checkpoint.
- `ShardServed`: a worker that skips the shard for good (`Skips`, the case of
  `owner_orphan`).
- `EveryRecordDelivered`: event loops that fetched a checkpoint before SHARD_END was
  written, and lease the shard after it was released, write the older checkpoint back,
  each in its turn and for ever (`Unfinish`).
- `ShutdownHeard`: a Shutdown that panics because Start has not made the wait group, and
  a consumer that waits for a parent which never ends (`NoEndlessWait`).

In a stream that is resharded twice, the grandchild does not wait for a child that has
not checkpointed yet, whose missing checkpoint looks like that of a deleted row: it is
the finding of `parent_order` one generation on, and the reason for the hypothesis of
`ParentsFirst` below.

None of them skips a record: `CheckpointCovered` and the refinements of
`OrderedDelivery` are proved with all of these allowed, but for those about the order
of parent and child.

### Fairness

`FairSpec` of `ShardLease`: weak fairness for each goroutine that is not idle in
its event loop's sleep (Go schedules every runnable goroutine), strong fairness
for `LoopExit`, because the event loop's `select` picks at random among a closed
stop channel and an expired timer, so an exit that is possible again and again is
taken.  Nothing is assumed of time, of faults, of Shutdown, or of what Kinesis and
the processor answer, except that calls return.  `FairSpec` of `GetRecordsLoop`:
the loop goes on and time passes.  `FairSpec` of `ParentShards`: every event loop comes
round to syncShard and to each shard (strong fairness: Go ranges over a map in random
order), goes on to GetLease, and every consumer that can go on does; nothing is assumed
of time, of renewals or of the stream.
`FairSpec` of `Rebalance`: time passes and the event loops of the workers that do not
die visit the shards they do not own; not that they rebalance, that consumers renew,
that processors checkpoint or that a dead worker comes back.  `RestartSpec`, for
`restart_orphan`, adds that it does.
`FairSpec` of `FanOutConsumer`: time passes, the event loop visits the shard, the
consumer goes on, and, strongly, its refresh timer is seen, since `select` picks at
random among what is ready; Kinesis may never send an event.  `FairSpec` of
`WorkerLifecycle`: each goroutine goes on; the two `select`s with a stop channel, and
consumers that poll and have been told to stop, find it closed some day.  Nothing is
assumed of the registration in Kinesis, nobody need call anything, and a consumer need
not get out of waitOnParentShard.

## Proofs

TLAPS checks them for every value of the constants that satisfies the named
assumptions (`OwnersAssumption`, `BoundsAssumption`, `ModelBoundsAssumption`,
`LoopAssumption`, `ShardsAssumption`, `RebalanceAssumption`, `FanOutAssumption`,
`MetricsAssumption`, `LifecycleAssumption`): any number of workers, consumers, shards,
records and faults, any clock, any limit.  The assumptions say that the constants are
what their names promise (numbers, an owner that is no other value, a parent that is a
shard) and little else, except that `ParentShards` and `FanOutConsumer` are about a
stream without lease stealing, and `Rebalance` about one with it.  Every safety property that a passing run checks is a theorem, and
every invariant below was checked by TLC on the instance of its run before it was proved.

### Ordered delivery

`DeliveredPrefix` (`DeliveryProofs`) says what `OrderedDelivery` promises: at any time
the delivered records of each shard are a prefix of it, `saved` is within it, and a
shard is finished after its last record only.  `DeliveryImplemented`, of `ShardLeaseProofs`,
`ParentProofs` and `FanOutProofs`, is the refinement (`ImplementsDelivery`), one step
per action: it is a `Deliver`, a `Save`, a `Reshard` or `Retire`, or leaves the mapped
variables alone.  `DeliveredInOrder` is the conclusion from the two, in the terms of the
code: what some worker's processor was given, and what the row holds.

What the refinement needs of the detailed state is that nothing in it is ahead of what
was delivered.

- `ShardLease`: `CheckpointInvariant` and `AtLeastOnce`.  `CheckpointCovered` speaks of
  the row only and is not inductive: a row is written from caches and requests filled
  long before.  `CheckpointInv` adds the same for every cache, every request in flight
  and every consumer's position; each action copies a checkpoint from one of these
  places to another, or advances one by a record that is delivered in the same step.
  No condition on PutItem is used, which is why a zombie's unconditional write is
  harmless here.
- `FanOutConsumer`: `CoveredInvariant`, the same for its row, caches and positions.
- `ParentShards`: `CoveredInv`, per shard, since sequence numbers of one shard mean
  nothing in another.

### Parent before child

`ParentsFirst`: `ParentFirst` holds if the parents are shards without a parent and have
a checkpoint at the start (`ParentsCheckpointed`, what `parent_shards` instantiates).
Without it the code does not have the property, as the run `parent_order` shows.  The
property says nothing of the row from which the child learns that its parent is done,
so two facts are added.  `KeptInv`: the row of a parent that is still listed never
loses its checkpoint - GetLease and renewals write it back from a cache, and each cache
of a worker that may do so has one, since a worker forgets a shard only when it is
gone.  `OrderInv`: whoever has passed waitOnParentShard, and not only who has delivered, has
a parent that is finished or gone.  `Invariant` (`TypeOK /\ CoveredInv /\ KeptInv`) is
proved first.  Its induction has one lemma that says what a step of one worker on one
shard leaves behind (`Effect`), and one per action that says its effect is sound.

### Exclusion

- `LiveLeaseSafe` (assuming no lease stealing), from the invariant
  `RequestsExpired`: a GetLease about to write over another worker's lease has
  seen that lease expired.  Time does not run backwards, and the condition of the
  PutItem ties the row to the timeout that was seen.
- `ReleaseByOwner`: an action property from the type invariant and the condition of
  RemoveLeaseOwner.
- `ClaimSafe`: owner and lease timeout are read once and compared with the row as they
  are written, so the condition of ClaimShard is enough for them.  The checkpoint is
  read twice.  `ClaimAlone` is the invariant that says the two readings are the same as
  long as the claimant has no consumer: nobody else writes a worker's cached checkpoint
  while its own event loop is in ClaimShard.  With a consumer of its own the claim is
  not safe, and the theorem does not say so.

### Event streams

`StreamInvariant`: a worker has one open stream exactly while its consumer is at the
select or in a call of its processor, and the continuation number, if there is one, is
where the consumer stands.  `StreamsClosed` (`NoStreamLeft`) follows from its first part.
`ResumedInPlace` (`ResumesInPlace`) needs the second: the property compares two consecutive
states, and says nothing of how the number came about that was kept since the last event.

### The polling loop's limits

- `BudgetInvariant` and `ByteBudgetHolds`: what the limiter believes is left, less
  the response it has not yet charged, is never more than the shard can deliver.
  `ByteBudget` alone is not inductive since it does not mention the limiter.
- `CallInvariant` and `CallBudgetHolds`: `CallBudget` is about any second, wherever it
  starts, and the limiter about the window it is in.  `CallInv` joins them: calls before
  those of this window are older than it, and all but `TPSLimit` of those are more than
  a second old, as the window before this one ended after a second.
- `TypeCorrect` is not immediate here: the exponential backoff is a sleep only if 2^n is
  a number, which is proved as a cardinality (`PowerType`), and the retry counter is
  bounded only since a loop that goes on has retries left (`RetryInv`).

### Metrics and shutdown

`TypeCorrect` of `LifecycleProofs` has `RefInv` with it: a goroutine about to add has an
entry to add to.  `LifecycleInvariant` is what makes an unlocked map safe: nothing is
recorded before the event loop runs (`StartInv`), it is the loop that finds no entry and
makes one, and whoever else adds finds that one (`RecordInv`).  From it follow
`NothingIsLost` (`NothingLost`) and `GaugeBalanced` (`HeldBalanced`, where lemmas say how the
number of leases changes with one consumer).  `ShutdownHasFlushed` (`ShutdownFlushes`) needs
`StopInv`, how far Shutdown has come: a Shutdown that found Start finished closes the
monitoring service only after the event loop and the consumers have ended, and
returns only after the last flush.

### Types

`TypeCorrect` is proved for each state machine, from lemmas (`LeaseTableTheorems`) about
each operator of `LeaseTable`; of `Rebalance` it is all there is to prove, as its other
property is liveness.

### Only model-checked

The liveness properties (`ShutdownCompletes`, `LostLeaseStops`, `PollsAgain`,
`StopHonoured`, `EveryRecordDelivered`, `FreeShardLeased`, `LostLeaseNoticed`,
`ShardServed`, `StartReturns`, `ShutdownHeard`): they rest on fairness, hence on
ENABLED, which the prover does not reach.  The four findings are counterexamples and
have nothing to prove.

## Not modelled, and the plan

Not in any module: logging, configuration setters, Prometheus (never read back),
table creation, KPL de-aggregation (a bad aggregate is skipped by the library on
purpose), clock skew between workers, merged shards (two parents).

The unlocked read of the checkpoint at dynamodb-checkpointer.go:414 is a data race with
SetCheckpoint; `ClaimRead` gives it the value before or after.  Go may also tear the
string, whose halves have the same length unless one is SHARD_END or empty; a torn value
is not modelled.

Also left out: two calls of Shutdown at the same time and Start after Shutdown
(`done` stays true, so that such a worker could not be stopped), and the positions
LATEST and AT_TIMESTAMP, which skip records by design.

What is left, in this order:

1. Exclusion across shards: what `LiveLeaseSafe` says of one row holds of the rows of
   `ParentShards` and `FanOutConsumer`, whose calls are one step each; no run asks for
   it yet.
2. `ParentsFirst` for a stream that is resharded more than once.  It is false as it
   stands; which hypothesis on a child's checkpoint the code can meet is open.
3. The hazards of `PROJECT.json` that no property covers; each says why.

What the plan keeps small on purpose: a run per question, and a theorem wherever
a property is safety.
