------------------------- MODULE LeaseTableTheorems -------------------------
(***************************************************************************)
(* What the operators of LeaseTable yield: rows, cached statuses and       *)
(* requests of the right type, and the facts about GetLease's decision     *)
(* that the invariants of its callers rest on.                             *)
(***************************************************************************)
EXTENDS LeaseTable, TLAPS

\* The initial values are a row, a cached status and a request.
LEMMA InitialValuesType ==
  /\ NoItem \in Item
  /\ NewShardStatus \in ShardStatus
  /\ NoRequest \in LeaseRequest
  BY BoundsAssumption
     DEF NoItem, Item, NewShardStatus, ShardStatus, NoRequest, LeaseRequest,
         NoAttr, Times, Checkpoints, ShardEnd

\* Assigning to one field leaves a cached status behind.
LEMMA ShardStatusFields ==
  ASSUME NEW shard \in ShardStatus, NEW owner \in Workers \cup {EmptyOwner},
         NEW timeout \in Times, NEW ckpt \in Checkpoints
  PROVE  /\ [shard EXCEPT !.owner = owner] \in ShardStatus
         /\ [shard EXCEPT !.timeout = timeout] \in ShardStatus
         /\ [shard EXCEPT !.ckpt = ckpt] \in ShardStatus
  BY DEF ShardStatus

\* FetchCheckpoint leaves a cached status behind.
LEMMA FetchCheckpointType ==
  ASSUME NEW item \in Item, NEW shard \in ShardStatus
  PROVE  FetchCheckpoint(item, shard) \in ShardStatus
  BY OwnersAssumption
     DEF FetchCheckpoint, SequenceIDFound, Item, ShardStatus

\* What GetLease sends is a request, for a worker that asks at a time t.
LEMMA GetLeaseRequestType ==
  ASSUME NEW item \in Item, NEW shard \in ShardStatus,
         NEW me \in Workers, NEW t \in Nat
  PROVE  GetLeaseRequest(item, shard, me, t) \in LeaseRequest
  BY BoundsAssumption
     DEF GetLeaseRequest, LeaseRequest, Item, ShardStatus, Times, NoAttr

\* What GetLease writes is a row.
LEMMA GetLeaseItemType ==
  ASSUME NEW req \in LeaseRequest, NEW me \in Workers
  PROVE  GetLeaseItem(req, me) \in Item
  BY DEF GetLeaseItem, LeaseRequest, Item

\* GetLease's assignments leave a cached status behind.
LEMMA GetLeaseGrantedType ==
  ASSUME NEW shard \in ShardStatus, NEW req \in LeaseRequest, NEW me \in Workers
  PROVE  GetLeaseGranted(shard, req, me) \in ShardStatus
  BY DEF GetLeaseGranted, LeaseRequest, ShardStatus

\* What CheckpointSequence writes is a row.
LEMMA CheckpointItemType ==
  ASSUME NEW shard \in ShardStatus
  PROVE  CheckpointItem(shard) \in Item
  BY DEF CheckpointItem, ShardStatus, Item

\* What RemoveLeaseOwner leaves is a row.
LEMMA RemoveLeaseOwnerType ==
  ASSUME NEW item \in Item, NEW me \in Workers
  PROVE  RemoveLeaseOwner(item, me) \in Item
  BY DEF RemoveLeaseOwner, Item

\* What ClaimShard writes is a row.
LEMMA ClaimItemType ==
  ASSUME NEW shard \in ShardStatus, NEW me \in Workers
  PROVE  ClaimItem(shard, me) \in Item
  BY DEF ClaimItem, ShardStatus, Item

\* syncLeases leaves a cached status behind.
LEMMA SyncLeaseType ==
  ASSUME NEW item \in Item, NEW shard \in ShardStatus
  PROVE  SyncLease(item, shard) \in ShardStatus
  BY DEF SyncLease, Item, ShardStatus

\* Without lease stealing, a GetLease that goes on to its PutItem has either
\* seen no other owner or an expired lease.
LEMMA RequestOnlyExpired ==
  ASSUME ~EnableLeaseStealing,
         NEW item \in Item, NEW shard \in ShardStatus,
         NEW me \in Workers, NEW t \in Nat,
         ~GetLeaseRefused(item, shard, me, t),
         GetLeaseRequest(item, shard, me, t).ifOwner \in Workers \ {me}
  PROVE  GetLeaseRequest(item, shard, me, t).ifTimeout <= t
  BY OwnersAssumption
     DEF GetLeaseRefused, LeaseHeldByOther, GetLeaseRequest, Item, Times, NoAttr

\* Time that passes leaves a row a row and a cached status one, with the
\* checkpoint they had; and the relative clock shows a time.
LEMMA AgedType ==
  /\ Now \in Nat
  /\ \A item \in Item :
       /\ [item EXCEPT !.timeout = Aged(@)] \in Item
       /\ [item EXCEPT !.timeout = Aged(@)].ckpt = item.ckpt
  /\ \A shard \in ShardStatus :
       /\ [shard EXCEPT !.timeout = Aged(@)] \in ShardStatus
       /\ [shard EXCEPT !.timeout = Aged(@)].ckpt = shard.ckpt
<1>1. \A t \in Times \cup {NoAttr} : Aged(t) \in Times \cup {NoAttr}
  BY DEF Aged, Times, NoAttr
<1>2. \A t \in Times : Aged(t) \in Times
  BY DEF Aged, Times
<1> QED
  BY <1>1, <1>2, BoundsAssumption DEF Now, Item, ShardStatus

-----------------------------------------------------------------------------
\* Checkpoints that stand for nothing processed are covered by any set of
\* records, and what is covered stays so when more records are processed.
LEMMA CoveredFacts ==
  ASSUME NEW done, NEW more, done \subseteq more
  PROVE  /\ \A k : CoveredBy(k, done) => CoveredBy(k, more)
         /\ CoveredBy(NoItem.ckpt, done)
         /\ CoveredBy(NewShardStatus.ckpt, done)
         /\ CoveredBy(NoRequest.ckpt, done)
         /\ CoveredBy(0, done)
  BY BoundsAssumption
     DEF CoveredBy, NoItem, NewShardStatus, NoRequest, NoAttr

\* The calls pass on checkpoints they were given, or none.
LEMMA CallsCovered ==
  ASSUME NEW item \in Item, NEW shard \in ShardStatus, NEW req \in LeaseRequest,
         NEW me \in Workers, NEW t \in Nat, NEW done,
         CoveredBy(item.ckpt, done), CoveredBy(shard.ckpt, done),
         CoveredBy(req.ckpt, done)
  PROVE  /\ CoveredBy(FetchCheckpoint(item, shard).ckpt, done)
         /\ CoveredBy(SyncLease(item, shard).ckpt, done)
         /\ CoveredBy(GetLeaseRequest(item, shard, me, t).ckpt, done)
         /\ CoveredBy(GetLeaseItem(req, me).ckpt, done)
         /\ CoveredBy(GetLeaseGranted(shard, req, me).ckpt, done)
         /\ CoveredBy(CheckpointItem(shard).ckpt, done)
         /\ CoveredBy(ClaimItem(shard, me).ckpt, done)
         /\ CoveredBy(RemoveLeaseOwner(item, me).ckpt, done)
<1>1. CoveredBy(NoAttr, done)
  BY BoundsAssumption DEF CoveredBy, NoAttr
<1>2. CoveredBy(FetchCheckpoint(item, shard).ckpt, done)
  BY DEF FetchCheckpoint
<1>3. CoveredBy(SyncLease(item, shard).ckpt, done)
  BY DEF SyncLease, ShardStatus
<1>4. CoveredBy(GetLeaseItem(req, me).ckpt, done)
  BY <1>1 DEF GetLeaseItem
<1>5. CoveredBy(GetLeaseGranted(shard, req, me).ckpt, done)
  BY DEF GetLeaseGranted, ShardStatus
<1>6. CoveredBy(RemoveLeaseOwner(item, me).ckpt, done)
  BY DEF RemoveLeaseOwner, Item
<1> QED
  BY <1>2, <1>3, <1>4, <1>5, <1>6
     DEF GetLeaseRequest, CheckpointItem, ClaimItem
=============================================================================
