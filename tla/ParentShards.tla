---------------------------- MODULE ParentShards ----------------------------
(***************************************************************************)
(* The shards of a stream over a reshard: shards are closed, their         *)
(* children appear, and a retention period later they leave the stream.    *)
(* Workers keep a cache of the shards they know (syncShard), lease them,   *)
(* and a consumer of a child waits for its parent (waitOnParentShard)      *)
(* before it reads.                                                        *)
(*                                                                         *)
(* A call of DynamoCheckpoint is one step here, and so is a consumer's     *)
(* return with its releaseLease; the event loop's FetchCheckpoint and      *)
(* GetLease of a shard are two.  ShardLease is about what the parts of     *)
(* calls and of returns, and checkpoints of older records, do to one       *)
(* another.  Calls other than RemoveLeaseInfo do not fail, leases are not  *)
(* stolen, and a processor that is told of the end of a closed shard       *)
(* checkpoints SHARD_END, as its interface asks.                           *)
(***************************************************************************)
EXTENDS LeaseTable, FiniteSets

CONSTANTS
  Shards,
  NoShard,
  Parent,             \* Parent[s]: ShardStatus.ParentShardId
  Records,            \* Records[s]: number of records of the shard
  MaxLeasesForWorker, \* of each worker's configuration
  Checkpointed,       \* the checkpoint of the first shards at the start
  Retirable,          \* bound: the shards that may leave the stream
  Late,               \* bound: the workers that may still consume them then
  MaxTime             \* bound of the clock

ASSUME ShardsAssumption ==
  /\ NoShard \notin Shards
  /\ Parent \in [Shards -> Shards \cup {NoShard}]
  /\ ~EnableLeaseStealing
  /\ Records \in [Shards -> 0 .. LastRecord]
  /\ Checkpointed \in Nat
  /\ \A s \in Shards : Parent[s] = NoShard => Checkpointed <= Records[s]
  /\ Retirable \subseteq Shards
  /\ Late \subseteq Workers
  /\ MaxLeasesForWorker \in [Workers -> Nat]
  /\ MaxTime \in Nat

VARIABLES
  now,
  listed,     \* the shards of the stream (ListShards)
  closed,     \* the shards that get no further record
  row,        \* row[s]: the row of s in the lease table
  look,       \* look[w]: the shard whose checkpoint w's event loop has fetched
              \* and whose lease it is about to get, or NoShard
  known,      \* known[w]: the keys of w's shardStatus
  cache,      \* cache[w][s]: the ShardStatus of s, if w knows s or consumes it
  con,        \* con[w][s]: where w's consumer of s is
  pos,        \* pos[w][s]: the last record it has delivered
  processed   \* processed[s]: the records some processor has been given

conVars == <<con, pos, processed>>
vars == <<now, listed, closed, row, look, known, cache, conVars>>

ConPcs == {"off", "wait", "start", "poll"}

TypeOK ==
  /\ now \in Nat \ {0}
  /\ listed \subseteq Shards
  /\ closed \subseteq Shards
  /\ row \in [Shards -> Item]
  /\ look \in [Workers -> Shards \cup {NoShard}]
  /\ known \in [Workers -> SUBSET Shards]
  /\ cache \in [Workers -> [Shards -> ShardStatus]]
  /\ con \in [Workers -> [Shards -> ConPcs]]
  /\ pos \in [Workers -> [Shards -> 0 .. LastRecord]]
  /\ processed \in [Shards -> SUBSET (1 .. LastRecord)]

IsRoot(s) == Parent[s] = NoShard

\* An application that has consumed the first shards up to Checkpointed
\* starts its workers.
Init ==
  /\ now = 1
  /\ listed = {s \in Shards : IsRoot(s)}
  /\ closed = {}
  /\ row = [s \in Shards |->
              IF IsRoot(s) /\ Checkpointed > 0
              THEN [NoItem EXCEPT !.timeout = 1, !.ckpt = Checkpointed]
              ELSE NoItem]
  /\ look = [w \in Workers |-> NoShard]
  /\ known = [w \in Workers |-> {}]
  /\ cache = [w \in Workers |-> [s \in Shards |-> NewShardStatus]]
  /\ con = [w \in Workers |-> [s \in Shards |-> "off"]]
  /\ pos = [w \in Workers |-> [s \in Shards |-> 0]]
  /\ processed = [s \in Shards |-> IF IsRoot(s) THEN 1 .. Checkpointed ELSE {}]

AtCon(w, s, p) == con' = [con EXCEPT ![w][s] = p]
SetCache(w, s, shard) == cache' = [cache EXCEPT ![w][s] = shard]

-----------------------------------------------------------------------------
(* Event loop.                                                             *)

\* syncShard: new shards enter the cache; shards that have left the stream
\* leave it, but for the consumers that still hold the ShardStatus, and their
\* rows are removed, whoever still consumes them; a RemoveLeaseInfo that fails
\* is forgotten.
Sync(w) ==
  /\ look[w] = NoShard
  /\ known[w] # listed
  /\ known' = [known EXCEPT ![w] = listed]
  /\ cache' = [cache EXCEPT ![w] =
                 [s \in Shards |-> IF s \in listed \cap known[w] \/ con[w][s] # "off"
                                   THEN @[s] ELSE NewShardStatus]]
  /\ \E removed \in SUBSET (known[w] \ listed) :
       row' = [s \in Shards |-> IF s \in removed THEN NoItem ELSE row[s]]
  /\ UNCHANGED <<now, listed, closed, look, conVars>>

\* Leases counted against MaxLeasesForWorker.
LeasesHeld(w) ==
  {s \in known[w] : cache[w][s].owner = w /\ cache[w][s].ckpt # ShardEnd}

\* FetchCheckpoint of a shard that the worker does not take itself for the owner
\* of; the turn of a finished one is over.  (A worker has one consumer per shard
\* here; ShardLease has the overlapping ones.)
Fetch(w, s) ==
  /\ look[w] = NoShard
  /\ s \in known[w]
  /\ cache[w][s].owner # w
  /\ con[w][s] = "off"
  /\ Cardinality(LeasesHeld(w)) < MaxLeasesForWorker[w]
  /\ SetCache(w, s, FetchCheckpoint(row[s], cache[w][s]))
  /\ look' = [look EXCEPT ![w] = IF cache'[w][s].ckpt = ShardEnd THEN NoShard ELSE s]
  /\ UNCHANGED <<now, listed, closed, row, known, conVars>>

\* GetLease, and the consumer's goroutine; or the next shard's turn.
GetLease(w) ==
  /\ look[w] # NoShard
  /\ LET s   == look[w]
         req == GetLeaseRequest(row[s], cache[w][s], w, now)
     IN \/ /\ ~GetLeaseRefused(row[s], cache[w][s], w, now)
           /\ row' = [row EXCEPT ![s] = GetLeaseItem(req, w)]
           /\ SetCache(w, s, GetLeaseGranted(cache[w][s], req, w))
           /\ AtCon(w, s, IF IsRoot(s) THEN "start" ELSE "wait")
        \/ /\ GetLeaseRefused(row[s], cache[w][s], w, now)
           /\ UNCHANGED <<row, cache, con>>
  /\ look' = [look EXCEPT ![w] = NoShard]
  /\ UNCHANGED <<now, listed, closed, known, pos, processed>>

-----------------------------------------------------------------------------
(* Shard consumer.                                                         *)

\* getRecords returns and releaseLease runs; `shard' and `item' are the
\* cache and the row as the returning step has left them.
Return(w, s, shard, item) ==
  /\ AtCon(w, s, "off")
  /\ pos' = [pos EXCEPT ![w][s] = 0]
  /\ SetCache(w, s, IF s \in known[w] THEN [shard EXCEPT !.owner = EmptyOwner]
                                      ELSE NewShardStatus)
  /\ row' = [row EXCEPT ![s] = RemoveLeaseOwner(item, w)]

\* waitOnParentShard ends: the parent is finished, or FetchCheckpoint finds
\* no checkpoint of it, which is taken for a parent that has been deleted.
WaitNothing(s) == TRUE  \* mutant: does not wait
ParentDone(s) == row[Parent[s]].ckpt \in {NoAttr, ShardEnd}

WaitOnParentShard(w, s) ==
  /\ con[w][s] = "wait"
  /\ ParentDone(s)
  /\ AtCon(w, s, "start")
  /\ UNCHANGED <<now, listed, closed, row, look, known, cache, pos, processed>>

\* getStartingPosition and GetShardIterator, which has no position in a
\* shard that is gone, or after SHARD_END.
Start(w, s) ==
  /\ con[w][s] = "start"
  /\ LET shard == FetchCheckpoint(row[s], cache[w][s])
     IN \/ /\ s \in listed /\ shard.ckpt # ShardEnd
           /\ AtCon(w, s, "poll")
           /\ pos' = [pos EXCEPT ![w][s] = shard.ckpt]
           /\ SetCache(w, s, shard)
           /\ UNCHANGED row
        \/ /\ s \notin listed \/ shard.ckpt = ShardEnd
           /\ Return(w, s, shard, row[s])
  /\ UNCHANGED <<now, listed, closed, look, known, processed>>

\* A record is delivered; the processor checkpoints it or does not.
Deliver(w, s) ==
  /\ con[w][s] = "poll"
  /\ s \in listed
  /\ pos[w][s] < Records[s]
  /\ pos' = [pos EXCEPT ![w][s] = @ + 1]
  /\ processed' = [processed EXCEPT ![s] = @ \cup {pos[w][s] + 1}]
  /\ \/ LET shard == [cache[w][s] EXCEPT !.ckpt = pos[w][s] + 1]
        IN /\ SetCache(w, s, shard)
           /\ row' = [row EXCEPT ![s] = CheckpointItem(shard)]
     \/ UNCHANGED <<cache, row>>
  /\ UNCHANGED <<now, listed, closed, look, known, con>>

\* The end of a closed shard: the processor checkpoints SHARD_END.
EndForgotten(w, s) ==  \* mutant: the end is not checkpointed
  /\ con[w][s] = "poll"
  /\ pos[w][s] = Records[s] /\ s \in closed
  /\ Return(w, s, cache[w][s], row[s])
  /\ UNCHANGED <<now, listed, closed, look, known, processed>>

End(w, s) ==
  /\ con[w][s] = "poll"
  /\ pos[w][s] = Records[s] /\ s \in closed
  /\ LET shard == [cache[w][s] EXCEPT !.ckpt = ShardEnd]
     IN Return(w, s, shard, CheckpointItem(shard))
  /\ UNCHANGED <<now, listed, closed, look, known, processed>>

\* GetRecords fails: the records have expired with their shard.
Expired(w, s) ==
  /\ con[w][s] = "poll"
  /\ s \notin listed
  /\ Return(w, s, cache[w][s], row[s])
  /\ UNCHANGED <<now, listed, closed, look, known, processed>>

\* renewLease, which runs once the consumer has its iterator.
Renew(w, s) ==
  /\ con[w][s] = "poll"
  /\ \/ /\ GetLeaseRefused(row[s], cache[w][s], w, now)
        /\ Return(w, s, cache[w][s], row[s])
     \/ /\ ~GetLeaseRefused(row[s], cache[w][s], w, now)
        /\ LET req == GetLeaseRequest(row[s], cache[w][s], w, now)
           IN /\ row' = [row EXCEPT ![s] = GetLeaseItem(req, w)]
              /\ SetCache(w, s, GetLeaseGranted(cache[w][s], req, w))
        /\ UNCHANGED <<con, pos>>
  /\ UNCHANGED <<now, listed, closed, look, known, processed>>

-----------------------------------------------------------------------------
(* The stream.                                                             *)

Tick ==
  /\ now < MaxTime
  /\ now' = now + 1
  /\ UNCHANGED <<listed, closed, row, look, known, cache, conVars>>

Children(s) == {c \in Shards : Parent[c] = s}

\* A reshard closes s and adds its children.
Reshard(s) ==
  /\ Children(s) # {}
  /\ s \in listed \ closed
  /\ closed' = closed \cup {s}
  /\ listed' = listed \cup Children(s)
  /\ UNCHANGED <<now, row, look, known, cache, conVars>>

\* Its retention period, which is the longest time there is, is over (bound:
\* at the end of the clock, with few consumers that have not finished it).
Retire(s) ==
  /\ s \in Retirable
  /\ now = MaxTime
  /\ s \in listed \cap closed
  /\ \A w \in Workers \ Late : con[w][s] = "off"
  /\ listed' = listed \ {s}
  /\ UNCHANGED <<now, closed, row, look, known, cache, conVars>>

ConStep(w, s) ==
  \/ WaitOnParentShard(w, s) \/ Start(w, s) \/ Deliver(w, s)
  \/ End(w, s) \/ Expired(w, s)

Next ==
  \/ Tick
  \/ \E s \in Shards : Reshard(s) \/ Retire(s)
  \/ \E w \in Workers :
       \/ Sync(w) \/ GetLease(w)
       \/ \E s \in Shards : Fetch(w, s) \/ ConStep(w, s) \/ Renew(w, s)

Spec == Init /\ [][Next]_vars

\* Event loops come round, to syncShard and to each of their shards (the order in
\* which Go ranges over shardStatus is random), and consumers go on.
FairSpec ==
  /\ Spec
  /\ \A w \in Workers :
       /\ SF_vars(Sync(w))
       /\ WF_vars(GetLease(w))
       /\ \A s \in Shards : SF_vars(Fetch(w, s)) /\ WF_vars(ConStep(w, s))

-----------------------------------------------------------------------------
(* Properties.                                                             *)

AllRecords(s) == 1 .. Records[s]

\* Order over a reshard: no record of a child is delivered before all of its
\* parent's, as long as the parent is in the stream (waitOnParentShard).  It
\* takes that the parent never loses the checkpoint it has, whoever leases
\* it, renews its lease or checkpoints late: a parent without one is taken
\* for deleted.
ParentFirst ==
  \A s \in Shards :
    ~IsRoot(s) /\ processed[s] # {} =>
      Parent[s] \notin listed \/ processed[Parent[s]] = AllRecords(Parent[s])

\* The row of a finished shard loses its SHARD_END, to a GetLease whose
\* FetchCheckpoint came before it.
Unfinish == \E s \in listed : row[s].ckpt = ShardEnd /\ row'[s].ckpt # ShardEnd

\* (bound of the clock) A lease nobody uses that would still expire.
Abandoned ==
  \E s \in listed, w \in Workers :
    row[s].owner = w /\ now < row[s].timeout /\ con[w][s] = "off"

\* Every record of the stream is delivered some day, unless its shard, or
\* the parent of it, leaves the stream before: some worker leases the shard,
\* waits no longer than the parent takes, and the parent's consumer gets to
\* checkpoint SHARD_END, in spite of the leases that expire on the way.  (A
\* parent that leaves before its SHARD_END is checkpointed holds its child
\* back for ever if its row stays, or is written once more; and so do event
\* loops that take the parent's lease with what they read before its end was
\* checkpointed, each after the other, for ever.)
EveryRecordDelivered ==
  \/ []<><<Unfinish>>_vars
  \/ <>[](\/ Abandoned
         \/ \A s \in listed : \/ processed[s] = AllRecords(s)
                              \/ ~IsRoot(s) /\ Parent[s] \notin listed)

\* Where the next consumer of s starts, for the abstract specification.
Saved(s) ==
  CASE row[s].ckpt = NoAttr   -> 0
    [] row[s].ckpt = ShardEnd -> Records[s] + 1
    [] OTHER                  -> row[s].ckpt

Delivery == INSTANCE OrderedDelivery WITH saved <- [s \in Shards |-> Saved(s)]

\* Workers that lease, lose and re-acquire shards, with caches that may be
\* stale and rows that come and go, implement ordered delivery: every step
\* of theirs is a delivery, a checkpoint that skips nothing, a change of the
\* stream, or nothing an application can see.
ImplementsDelivery == Delivery!Spec
=============================================================================
