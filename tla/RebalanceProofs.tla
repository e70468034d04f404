--------------------------- MODULE RebalanceProofs --------------------------
(***************************************************************************)
(* Type correctness of Rebalance, for every set of workers and shards and  *)
(* all limits of leases.                                                   *)
(***************************************************************************)
EXTENDS Rebalance, LeaseTableTheorems

\* One row, and one entry of one worker's cache, are written at a time.
LEMMA WriteTypes ==
  ASSUME TypeOK, NEW w \in Workers, NEW s \in Shards,
         NEW item \in Item, NEW shard \in ShardStatus
  PROVE  /\ SetRow(s, item) => row' \in [Shards -> Item]
         /\ SetCache(w, s, shard) => cache' \in [Workers -> [Shards -> ShardStatus]]
<1>1. row \in [Shards -> Item] /\ cache \in [Workers -> [Shards -> ShardStatus]]
  BY DEF TypeOK
<1>2. SetRow(s, item) => row' \in [Shards -> Item]
  BY <1>1 DEF SetRow
<1>3. SetCache(w, s, shard) => cache' \in [Workers -> [Shards -> ShardStatus]]
  BY <1>1 DEF SetCache
<1> QED
  BY <1>2, <1>3

\* What the calls of an event loop, or of a consumer, on a shard yield.
LEMMA CallTypes ==
  ASSUME TypeOK, NEW w \in Workers, NEW s \in Shards,
         NEW shard \in {cache[w][s], FetchCheckpoint(row[s], cache[w][s])}
  PROVE  /\ row[s] \in Item /\ shard \in ShardStatus
         /\ GetLeaseItem(GetLeaseRequest(row[s], shard, w, Now), w) \in Item
         /\ GetLeaseGranted(shard, GetLeaseRequest(row[s], shard, w, Now), w)
              \in ShardStatus
<1>1. row[s] \in Item /\ cache[w][s] \in ShardStatus
  BY DEF TypeOK
<1>2. shard \in ShardStatus
  BY <1>1, FetchCheckpointType
<1>3. GetLeaseRequest(row[s], shard, w, Now) \in LeaseRequest
  BY <1>1, <1>2, GetLeaseRequestType, AgedType
<1> QED
  BY <1>1, <1>2, <1>3, GetLeaseItemType, GetLeaseGrantedType

\* The event loop's leases keep the types ...
LEMMA LeaseTypes ==
  ASSUME TypeOK, NEW w \in Workers, GetLease(w) \/ \E s \in Shards : Fetch(w, s)
  PROVE  TypeOK'
<1>1. ASSUME NEW s \in Shards, Fetch(w, s)
      PROVE  TypeOK'
  <2>1. FetchCheckpoint(row[s], cache[w][s]) \in ShardStatus
    BY CallTypes
  <2>2. cache' \in [Workers -> [Shards -> ShardStatus]]
    BY <1>1, <2>1, WriteTypes DEF Fetch, TypeOK
  <2>3. look' \in [Workers -> Shards \cup {NoShard}]
    BY <1>1 DEF Fetch, TypeOK
  <2> QED
    BY <1>1, <2>2, <2>3 DEF Fetch, TypeOK
<1>2. CASE GetLease(w)
  <2> DEFINE s   == look[w]
             req == GetLeaseRequest(row[s], cache[w][s], w, Now)
  <2>1. s \in Shards
    BY <1>2 DEF GetLease, TypeOK
  <2>2. /\ GetLeaseItem(req, w) \in Item
        /\ GetLeaseGranted(cache[w][s], req, w) \in ShardStatus
    BY <2>1, CallTypes
  <2>3. /\ \/ /\ SetRow(s, GetLeaseItem(req, w))
              /\ SetCache(w, s, GetLeaseGranted(cache[w][s], req, w))
              /\ con' = [con EXCEPT ![w] = @ \cup {s}]
           \/ UNCHANGED <<row, cache, con>>
        /\ look' = [look EXCEPT ![w] = NoShard]
        /\ UNCHANGED crashed
    BY <1>2, Zenon DEF GetLease
  <2> HIDE DEF s, req
  <2>4. /\ row' \in [Shards -> Item]
        /\ cache' \in [Workers -> [Shards -> ShardStatus]]
    <3>1. CASE SetRow(s, GetLeaseItem(req, w))
               /\ SetCache(w, s, GetLeaseGranted(cache[w][s], req, w))
      BY <2>1, <2>2, <3>1, WriteTypes
    <3>2. CASE UNCHANGED <<row, cache, con>>
      BY <3>2 DEF TypeOK
    <3> QED
      BY <2>3, <3>1, <3>2
  <2>5. con' \in [Workers -> SUBSET Shards] /\ look' \in [Workers -> Shards \cup {NoShard}]
    BY <2>1, <2>3 DEF TypeOK
  <2> QED
    BY <2>3, <2>4, <2>5 DEF TypeOK
<1> QED
  BY <1>1, <1>2

\* ... rebalance does ...
LEMMA StealTypes ==
  ASSUME TypeOK, NEW w \in Workers, RebalanceIdle(w) \/ Steal(w)
  PROVE  TypeOK'
<1>1. \A due \in BOOLEAN : View(w, due) \in [Shards -> ShardStatus]
  <2>1. \A s \in Shards : /\ cache[w][s] \in ShardStatus
                          /\ SyncLease(row[s], cache[w][s]) \in ShardStatus
    BY SyncLeaseType DEF TypeOK
  <2> QED
    BY <2>1 DEF View
<1>2. CASE RebalanceIdle(w)
  <2>1. PICK due \in BOOLEAN : /\ cache' = [cache EXCEPT ![w] = View(w, due)]
                               /\ UNCHANGED <<row, look, con, crashed>>
    BY <1>2, Zenon DEF RebalanceIdle
  <2> QED
    BY <1>1, <2>1 DEF TypeOK
<1>3. CASE Steal(w)
  <2>1. PICK due \in BOOLEAN, s \in Shards :
          LET view  == View(w, due)
              shard == FetchCheckpoint(row[s], view[s])
          IN /\ cache' = [cache EXCEPT ![w] = [view EXCEPT ![s] = shard]]
             /\ SetRow(s, ClaimItem(shard, w)) \/ UNCHANGED row
             /\ UNCHANGED <<look, con, crashed>>
    BY <1>3, Zenon DEF Steal
  <2> DEFINE view  == View(w, due)
             shard == FetchCheckpoint(row[s], view[s])
  <2>2. view \in [Shards -> ShardStatus] /\ shard \in ShardStatus
    BY <1>1, FetchCheckpointType DEF TypeOK
  <2>3. ClaimItem(shard, w) \in Item
    BY <2>2, ClaimItemType
  <2>4. /\ cache' = [cache EXCEPT ![w] = [view EXCEPT ![s] = shard]]
        /\ SetRow(s, ClaimItem(shard, w)) \/ UNCHANGED row
        /\ UNCHANGED <<look, con, crashed>>
    BY <2>1
  <2> HIDE DEF view, shard
  <2>5. cache' \in [Workers -> [Shards -> ShardStatus]]
    BY <2>2, <2>4 DEF TypeOK
  <2>6. row' \in [Shards -> Item]
    BY <2>3, <2>4 DEF TypeOK, SetRow
  <2> QED
    BY <2>4, <2>5, <2>6 DEF TypeOK
<1> QED
  BY <1>2, <1>3

\* ... and so do the consumers ...
LEMMA ConsumerTypes ==
  ASSUME TypeOK, NEW w \in Workers, NEW s \in Shards, Checkpoint(w, s) \/ Renew(w, s)
  PROVE  TypeOK'
<1>1. row[s] \in Item /\ cache[w][s] \in ShardStatus
  BY DEF TypeOK
<1>2. CASE Checkpoint(w, s)
  <2> DEFINE shard == [cache[w][s] EXCEPT !.ckpt = LastRecord]
  <2>1. shard \in ShardStatus
    BY <1>1, BoundsAssumption DEF ShardStatus, Checkpoints, ShardEnd
  <2>2. CheckpointItem(shard) \in Item
    BY <2>1, CheckpointItemType
  <2>3. /\ SetCache(w, s, shard) /\ SetRow(s, CheckpointItem(shard))
        /\ UNCHANGED <<look, con, crashed>>
    BY <1>2 DEF Checkpoint
  <2> HIDE DEF shard
  <2> QED
    BY <2>1, <2>2, <2>3, WriteTypes DEF TypeOK
<1>3. CASE Renew(w, s)
  <2> DEFINE req == GetLeaseRequest(row[s], cache[w][s], w, Now)
  <2>1. CASE /\ SetRow(s, GetLeaseItem(req, w))
             /\ SetCache(w, s, GetLeaseGranted(cache[w][s], req, w))
             /\ UNCHANGED <<look, con, crashed>>
    <3>1. /\ GetLeaseItem(req, w) \in Item
          /\ GetLeaseGranted(cache[w][s], req, w) \in ShardStatus
      BY CallTypes
    <3> HIDE DEF req
    <3> QED
      BY <2>1, <3>1, WriteTypes DEF TypeOK
  <2>2. CASE /\ SetRow(s, RemoveLeaseOwner(row[s], w))
             /\ SetCache(w, s, [cache[w][s] EXCEPT !.owner = EmptyOwner])
             /\ con' = [con EXCEPT ![w] = @ \ {s}] /\ UNCHANGED <<look, crashed>>
    <3>1. /\ RemoveLeaseOwner(row[s], w) \in Item
          /\ [cache[w][s] EXCEPT !.owner = EmptyOwner] \in ShardStatus
      BY <1>1, RemoveLeaseOwnerType DEF ShardStatus
    <3>2. /\ row' \in [Shards -> Item]
          /\ cache' \in [Workers -> [Shards -> ShardStatus]]
      BY <2>2, <3>1, WriteTypes
    <3> QED
      BY <2>2, <3>2 DEF TypeOK
  <2> QED
    BY <1>3, <2>1, <2>2, Zenon DEF Renew
<1> QED
  BY <1>2, <1>3

\* ... time and crashes.
LEMMA OtherTypes ==
  ASSUME TypeOK, Tick \/ (\E w \in Workers : Crash(w)) \/ UNCHANGED vars
  PROVE  TypeOK'
<1>1. CASE Tick
  <2>1. row' \in [Shards -> Item]
    BY <1>1, AgedType DEF Tick, TypeOK
  <2>2. cache' \in [Workers -> [Shards -> ShardStatus]]
    BY <1>1, AgedType DEF Tick, TypeOK
  <2> QED
    BY <1>1, <2>1, <2>2 DEF Tick, TypeOK
<1>2. ASSUME NEW w \in Workers, Crash(w)
      PROVE  TypeOK'
  BY <1>2, InitialValuesType DEF Crash, TypeOK
<1>3. CASE UNCHANGED vars
  BY <1>3 DEF vars, TypeOK
<1> QED
  BY <1>1, <1>2, <1>3

\* Rows and caches are what the code can hold, whoever claims, renews,
\* checkpoints or dies.
THEOREM TypeCorrect == Spec => []TypeOK
<1>1. Init => TypeOK
  <2> SUFFICES ASSUME Init PROVE TypeOK
    OBVIOUS
  <2>1. NoItem \in Item /\ NewShardStatus \in ShardStatus
    BY InitialValuesType
  <2>2. LastRecord \in Checkpoints /\ 1 \in Times
    BY BoundsAssumption DEF Checkpoints, ShardEnd, Times
  <2>3. [NoItem EXCEPT !.timeout = 1] \in Item
    BY <2>1, <2>2 DEF Item
  <2>4. [NoItem EXCEPT !.timeout = 1, !.ckpt = LastRecord] \in Item
    BY <2>2, <2>3 DEF Item
  <2>5. row \in [Shards -> Item]
    BY <2>4 DEF Init
  <2> QED
    BY <2>1, <2>5 DEF Init, TypeOK
<1>2. TypeOK /\ [Next]_vars => TypeOK'
  BY LeaseTypes, StealTypes, ConsumerTypes, OtherTypes DEF Next
<1> QED
  BY <1>1, <1>2, PTL DEF Spec
=============================================================================
