----------------------------- MODULE Rebalance ------------------------------
(***************************************************************************)
(* Lease stealing: workers that find themselves with fewer shards than     *)
(* their share claim one of the busiest worker's (rebalance), whose owner  *)
(* gives it up at its next renewal.  Several shards, all open; processes   *)
(* die and restart with their identifiers.                                 *)
(*                                                                         *)
(* A call of DynamoCheckpoint is one step here, as in ParentShards: the    *)
(* event loop's FetchCheckpoint is one, its GetLease the next.  ShardLease *)
(* is about what happens within a call, and about calls that fail.         *)
(*                                                                         *)
(* Time is relative (Now, Aged), so that it can go on for ever.            *)
(***************************************************************************)
EXTENDS LeaseTable, FiniteSets

CONSTANTS
  Shards,
  NoShard,
  MaxLeasesForWorker,  \* of each worker's configuration
  Mortal               \* bound: the workers that may crash, once each

ASSUME RebalanceAssumption ==
  /\ Shards # {}
  /\ IsFiniteSet(Shards)
  /\ NoShard \notin Shards
  /\ EnableLeaseStealing
  /\ MaxLeasesForWorker \in [Workers -> Nat]
  /\ Mortal \subseteq Workers

VARIABLES
  row,       \* row[s]: the row of s in the lease table
  cache,     \* cache[w][s]: w's ShardStatus of s
  look,      \* look[w]: the shard whose checkpoint w's event loop has fetched
             \* and whose lease it is about to get, or NoShard
  con,       \* con[w]: the shards w has a consumer of
  crashed    \* the workers that have

vars == <<row, cache, look, con, crashed>>

TypeOK ==
  /\ row \in [Shards -> Item]
  /\ cache \in [Workers -> [Shards -> ShardStatus]]
  /\ look \in [Workers -> Shards \cup {NoShard}]
  /\ con \in [Workers -> SUBSET Shards]
  /\ crashed \subseteq Mortal

\* Workers start on shards that have been consumed, and released, before.
Init ==
  /\ row = [s \in Shards |-> [NoItem EXCEPT !.timeout = 1, !.ckpt = LastRecord]]
  /\ cache = [w \in Workers |-> [s \in Shards |-> NewShardStatus]]
  /\ look = [w \in Workers |-> NoShard]
  /\ con = [w \in Workers |-> {}]
  /\ crashed = {}

Tick ==
  /\ row' = [s \in Shards |-> [row[s] EXCEPT !.timeout = Aged(@)]]
  /\ cache' = [w \in Workers |-> [s \in Shards |->
                 [cache[w][s] EXCEPT !.timeout = Aged(@)]]]
  /\ UNCHANGED <<look, con, crashed>>

SetRow(s, item) == row' = [row EXCEPT ![s] = item]
SetCache(w, s, shard) == cache' = [cache EXCEPT ![w][s] = shard]

-----------------------------------------------------------------------------
(* Event loop: leases that are free.                                       *)

LeasesHeld(w) ==
  {s \in Shards : cache[w][s].owner = w /\ cache[w][s].ckpt # ShardEnd}

\* FetchCheckpoint of a shard the worker does not take itself for the owner
\* of.  (One consumer per worker and shard: ShardLease has overlapping ones.)
Fetch(w, s) ==
  /\ look[w] = NoShard
  /\ cache[w][s].owner # w
  /\ s \notin con[w]
  /\ Cardinality(LeasesHeld(w)) < MaxLeasesForWorker[w]
  /\ SetCache(w, s, FetchCheckpoint(row[s], cache[w][s]))
  /\ look' = [look EXCEPT ![w] = s]
  /\ UNCHANGED <<row, con, crashed>>

\* GetLease, and the goroutine of getRecords; or the next shard's turn.
GetLease(w) ==
  /\ look[w] # NoShard
  /\ LET s   == look[w]
         req == GetLeaseRequest(row[s], cache[w][s], w, Now)
     IN \/ /\ ~GetLeaseRefused(row[s], cache[w][s], w, Now)
           /\ SetRow(s, GetLeaseItem(req, w))
           /\ SetCache(w, s, GetLeaseGranted(cache[w][s], req, w))
           /\ con' = [con EXCEPT ![w] = @ \cup {s}]
        \/ /\ GetLeaseRefused(row[s], cache[w][s], w, Now)
           /\ UNCHANGED <<row, cache, con>>
  /\ look' = [look EXCEPT ![w] = NoShard]
  /\ UNCHANGED crashed

-----------------------------------------------------------------------------
(* Event loop: rebalance.                                                  *)

\* The cache after syncLeases, which reads the table only if its interval
\* is over.
View(w, due) ==
  [s \in Shards |-> IF due THEN SyncLease(row[s], cache[w][s]) ELSE cache[w][s]]

\* ListActiveWorkers: shards by owner, the finished ones left out; an error
\* if one of them has none.
Unfinished(view)  == {s \in Shards : view[s].ckpt # ShardEnd}
AllAssigned(view) == \A s \in Unfinished(view) : view[s].owner # EmptyOwner
ActiveWorkers(view) == {view[s].owner : s \in Unfinished(view)}
ShardsOf(view, v) == {s \in Unfinished(view) : view[s].owner = v}

NumShards(view, v) == Cardinality(ShardsOf(view, v))
OptimalShards(view, w) ==
  Cardinality(Unfinished(view)) \div Cardinality(ActiveWorkers(view) \cup {w})

\* w has less than its share.
WantsMore(view, w) ==
  /\ Cardinality(ActiveWorkers(view)) < Cardinality(Unfinished(view))
  /\ NumShards(view, w) < OptimalShards(view, w)
  /\ NumShards(view, w) # MaxLeasesForWorker[w]

\* The workers it may steal from: those with most shards, above the share.
Busiest(view, w) ==
  {v \in ActiveWorkers(view) \ {w} :
     /\ NumShards(view, v) > OptimalShards(view, w)
     /\ \A u \in ActiveWorkers(view) \ {w} : NumShards(view, u) <= NumShards(view, v)}

\* (shardStealInProgress is left out, as it keeps no worker from going on:
\* the first shard whose ClaimRequest is empty resets it, and nothing in the
\* code sets ClaimRequest.)
RebalanceIdle(w) ==
  /\ look[w] = NoShard
  /\ \E due \in BOOLEAN :
       LET view == View(w, due)
       IN /\ ~AllAssigned(view) \/ ~WantsMore(view, w) \/ Busiest(view, w) = {}
          /\ cache' = [cache EXCEPT ![w] = view]
  /\ UNCHANGED <<row, look, con, crashed>>

\* A random shard of a busiest worker is claimed (ClaimShard).
Steal(w) ==
  /\ look[w] = NoShard
  /\ \E due \in BOOLEAN, s \in Shards :
       LET view  == View(w, due)
           shard == FetchCheckpoint(row[s], view[s])
           accepted == ClaimCondition(row[s], shard, shard.ckpt)
       IN /\ AllAssigned(view)
          /\ WantsMore(view, w)
          /\ \E v \in Busiest(view, w) : s \in ShardsOf(view, v)
          /\ cache' = [cache EXCEPT ![w] = [view EXCEPT ![s] = shard]]
          /\ \/ accepted /\ SetRow(s, ClaimItem(shard, w))
             \/ ~accepted /\ UNCHANGED row
  /\ UNCHANGED <<look, con, crashed>>

-----------------------------------------------------------------------------
(* Shard consumer.                                                         *)

\* The processor checkpoints, which drops a claim.
Checkpoint(w, s) ==
  /\ s \in con[w]
  /\ LET shard == [cache[w][s] EXCEPT !.ckpt = LastRecord]
     IN SetCache(w, s, shard) /\ SetRow(s, CheckpointItem(shard))
  /\ UNCHANGED <<look, con, crashed>>

\* The lease is renewed, or was taken or is claimed: then the consumer
\* returns and releases what is its own.
Renew(w, s) ==
  /\ s \in con[w]
  /\ \/ /\ ~GetLeaseRefused(row[s], cache[w][s], w, Now)
        /\ LET req == GetLeaseRequest(row[s], cache[w][s], w, Now)
           IN /\ SetRow(s, GetLeaseItem(req, w))
              /\ SetCache(w, s, GetLeaseGranted(cache[w][s], req, w))
        /\ UNCHANGED con
     \/ /\ GetLeaseRefused(row[s], cache[w][s], w, Now)
        /\ SetRow(s, RemoveLeaseOwner(row[s], w))
        /\ SetCache(w, s, [cache[w][s] EXCEPT !.owner = EmptyOwner])
        /\ con' = [con EXCEPT ![w] = @ \ {s}]
  /\ UNCHANGED <<look, crashed>>

-----------------------------------------------------------------------------
Crash(w) ==
  /\ w \in Mortal \ crashed
  /\ crashed' = crashed \cup {w}
  /\ cache' = [cache EXCEPT ![w] = [s \in Shards |-> NewShardStatus]]
  /\ look' = [look EXCEPT ![w] = NoShard]
  /\ con' = [con EXCEPT ![w] = {}]
  /\ UNCHANGED row

Next ==
  \/ Tick
  \/ \E w \in Workers :
       \/ GetLease(w) \/ RebalanceIdle(w) \/ Steal(w) \/ Crash(w)
       \/ \E s \in Shards : Fetch(w, s) \/ Checkpoint(w, s) \/ Renew(w, s)

Spec == Init /\ [][Next]_vars

\* An event loop looks at every shard it does not own: in the random order of
\* Go's maps, so none is passed over for ever.
FairLoop(w) ==
  /\ WF_vars(GetLease(w))
  /\ \A s \in Shards : SF_vars(Fetch(w, s))

\* Time passes, and the event loops of the workers that do not die go on.
\* Nothing is assumed of rebalance, of the consumers, of what the processors
\* checkpoint, of crashes, or of a mortal worker, which may stay down.
FairSpec ==
  /\ Spec
  /\ WF_vars(Tick)
  /\ \A w \in Workers \ Mortal : FairLoop(w)

\* The same when every process that dies is started again.
RestartSpec == FairSpec /\ \A w \in Mortal : FairLoop(w)

-----------------------------------------------------------------------------
(* Properties.                                                             *)

\* No worker has a consumer of the shard, or believes to have one.
Free(s) == \A w \in Workers : s \notin con[w] /\ cache[w][s].owner # w

\* Whatever is claimed, by whom, with what view of the table, and whoever
\* dies: a free shard does not stay free.  A claim its claimant has no use
\* for (it is at MaxLeasesForWorker by then, or has restarted) keeps the
\* others away only until it expires, although the clock it expires by is
\* the lease timeout in each worker's own cache.
FreeShardLeased == \A s \in Shards : []<>~Free(s)

\* What releaseLease says of a lease that is not released (it "will eventually
\* be expired"), and a restart relies on: every shard is consumed again by the
\* worker that owns it, whatever happens to the one that did.
EveryShardConsumed ==
  \A s \in Shards : []<>(\E w \in Workers : s \in con[w] /\ row[s].owner = w)
=============================================================================
