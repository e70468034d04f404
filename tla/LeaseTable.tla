----------------------------- MODULE LeaseTable -----------------------------
(***************************************************************************)
(* One item of the DynamoDB lease table, the cached ShardStatus a worker   *)
(* keeps of it, and the calls of DynamoCheckpoint on the two               *)
(* (clientlibrary/checkpoint/dynamodb-checkpointer.go), as operators on    *)
(* values.  The state machines that call them decide in which order the    *)
(* reads, the writes and the assignments to the cache interleave.          *)
(*                                                                         *)
(* A point in time is a natural number.  The clock starts at 1: 0 is Go's  *)
(* zero time, which a fresh ShardStatus holds in LeaseTimeout.  A          *)
(* checkpoint is a natural number: 0 is the empty string, 1..LastRecord    *)
(* are the sequence numbers of the shard's records, ShardEnd is SHARD_END. *)
(* NoAttr (-1) says that the item has no such attribute.  AssignedTo is a  *)
(* worker, NoOwner when the item has no such attribute, or EmptyOwner for  *)
(* the empty string.  An item that is not in the table has no attribute.   *)
(***************************************************************************)
EXTENDS Integers

CONSTANTS
  Workers,             \* worker identifiers
  NoOwner,             \* the attribute AssignedTo / ClaimRequest is missing
  EmptyOwner,          \* the empty string as AssignedTo
  LastRecord,          \* number of records of the shard
  LeaseDuration,       \* FailoverTimeMillis
  ClaimTimeout,        \* LeaseStealingClaimTimeoutMillis
  EnableLeaseStealing  \* kclConfig.EnableLeaseStealing

ASSUME OwnersAssumption ==
  /\ NoOwner \notin Workers
  /\ EmptyOwner \notin Workers
  /\ NoOwner # EmptyOwner

ASSUME BoundsAssumption ==
  /\ LastRecord \in Nat
  /\ LeaseDuration \in Nat
  /\ ClaimTimeout \in Nat
  /\ EnableLeaseStealing \in BOOLEAN

NoAttr   == -1
ShardEnd == LastRecord + 1

Checkpoints == 0 .. ShardEnd
Times       == Nat

\* A row of the table.
Item == [owner   : Workers \cup {NoOwner, EmptyOwner},
         timeout : Times \cup {NoAttr},
         ckpt    : Checkpoints \cup {NoAttr},
         claim   : Workers \cup {NoOwner}]

\* The row of a shard nobody has leased yet: there is none.
NoItem == [owner |-> NoOwner, timeout |-> NoAttr, ckpt |-> NoAttr, claim |-> NoOwner]

\* What a worker caches of the row (the fields of ShardStatus that change).
ShardStatus == [owner   : Workers \cup {EmptyOwner},
                timeout : Times,
                ckpt    : Checkpoints]

NewShardStatus == [owner |-> EmptyOwner, timeout |-> 0, ckpt |-> 0]

-----------------------------------------------------------------------------
\* FetchCheckpoint.  A row without Checkpoint leaves the cache as it is, the
\* lease owner and the lease timeout included (ErrSequenceIDNotFound).

SequenceIDFound(item) == item.ckpt # NoAttr

FetchCheckpointUnchecked(item, shard) ==  \* mutant: no ErrSequenceIDNotFound
  [shard EXCEPT !.ckpt = item.ckpt]

FetchCheckpoint(item, shard) ==
  IF ~SequenceIDFound(item) THEN shard
  ELSE [owner   |-> IF item.owner = NoOwner THEN shard.owner ELSE item.owner,
        timeout |-> IF item.timeout = NoAttr THEN shard.timeout ELSE item.timeout,
        ckpt    |-> item.ckpt]

-----------------------------------------------------------------------------
\* GetLease.  The caller `me' has read `item' at time t and holds the cached
\* `shard': the call is refused at once, or yields a conditional write.

\* The claim is judged by the lease timeout in the local cache, not by the
\* row's.
ClaimExpiresNever(shard, t) == FALSE  \* mutant: the claim timeout not looked at

IsClaimRequestExpired(shard, t) ==
  /\ shard.timeout # 0
  /\ shard.timeout < t - ClaimTimeout

ClaimedByOther(item, shard, me, t) ==
  /\ EnableLeaseStealing
  /\ item.claim \notin {NoOwner, me}
  /\ ~IsClaimRequestExpired(shard, t)

LeaseHeldByOther(item, shard, me, t) ==
  /\ item.owner \notin {NoOwner, me}
  /\ item.timeout # NoAttr
  /\ t < item.timeout
  /\ ~(EnableLeaseStealing /\ IsClaimRequestExpired(shard, t))

GetLeaseRefused(item, shard, me, t) ==
  \/ ClaimedByOther(item, shard, me, t)
  \/ LeaseHeldByOther(item, shard, me, t)

\* Everything the pending PutItem carries: the attributes its condition
\* compares (ifOwner = NoOwner stands for attribute_not_exists(AssignedTo),
\* ifClaim = NoOwner for no condition on ClaimRequest) and the new values.
LeaseRequest == [ifOwner   : Workers \cup {NoOwner, EmptyOwner},
                 ifTimeout : Times \cup {NoAttr},
                 ifClaim   : Workers \cup {NoOwner},
                 timeout   : Times,
                 ckpt      : Checkpoints]

NoRequest == [ifOwner |-> NoOwner, ifTimeout |-> NoAttr, ifClaim |-> NoOwner,
              timeout |-> 0, ckpt |-> 0]

GetLeaseRequest(item, shard, me, t) ==
  [ifOwner   |-> IF item.timeout = NoAttr THEN NoOwner ELSE item.owner,
   ifTimeout |-> item.timeout,
   ifClaim   |-> IF /\ EnableLeaseStealing
                    /\ item.claim = me
                    /\ ~IsClaimRequestExpired(shard, t)
                 THEN me ELSE NoOwner,
   timeout   |-> t + LeaseDuration,
   ckpt      |-> shard.ckpt]

GetLeaseConditionOwner(item, req) ==  \* mutant: LeaseTimeout not compared
  item.owner = req.ifOwner

GetLeaseCondition(item, req) ==
  /\ item.owner = req.ifOwner
  /\ req.ifOwner # NoOwner => item.timeout = req.ifTimeout
  /\ req.ifClaim # NoOwner => item.claim = req.ifClaim

\* PutItem replaces the whole row: ClaimRequest goes, and so does Checkpoint
\* when the cache holds none.
GetLeaseItem(req, me) ==
  [owner   |-> me,
   timeout |-> req.timeout,
   ckpt    |-> IF req.ckpt = 0 THEN NoAttr ELSE req.ckpt,
   claim   |-> NoOwner]

\* The assignments after a successful PutItem.
GetLeaseGranted(shard, req, me) ==
  [shard EXCEPT !.owner = me, !.timeout = req.timeout]

-----------------------------------------------------------------------------
\* CheckpointSequence: an unconditional PutItem of what the cache holds.
CheckpointItem(shard) ==
  [owner |-> shard.owner, timeout |-> shard.timeout, ckpt |-> shard.ckpt,
   claim |-> NoOwner]

\* RemoveLeaseOwner: the worker removes AssignedTo if it is its own.
RemoveAnyOwner(item, me) ==  \* mutant: no condition
  [item EXCEPT !.owner = NoOwner]

RemoveLeaseOwner(item, me) ==
  IF item.owner = me THEN [item EXCEPT !.owner = NoOwner] ELSE item

-----------------------------------------------------------------------------
\* ClaimShard, after its FetchCheckpoint.  Every attribute is compared with
\* what was read of the cache, the checkpoint with a second reading of its
\* own, `ckpt'; the row written carries the first reading and the claim.

ClaimConditionUnclaimed(item, shard, ckpt) ==  \* mutant: the cache not compared
  item.claim = NoOwner

ClaimCondition(item, shard, ckpt) ==
  /\ item.timeout = shard.timeout
  /\ item.claim = NoOwner
  /\ IF shard.owner = EmptyOwner THEN item.owner = NoOwner
                                 ELSE item.owner = shard.owner
  /\ CASE ckpt = 0        -> item.ckpt = NoAttr
       [] ckpt = ShardEnd -> item.ckpt # ShardEnd
       [] OTHER           -> item.ckpt = ckpt

ClaimItem(shard, me) ==
  [owner   |-> IF shard.owner = EmptyOwner THEN NoOwner ELSE shard.owner,
   timeout |-> shard.timeout,
   ckpt    |-> shard.ckpt,
   claim   |-> me]

\* syncLeases: only a row that has both attributes updates the cache, and
\* the cached lease timeout is never part of it.
SyncLeaseAny(item, shard) ==  \* mutant: AssignedTo missing not noticed
  [shard EXCEPT !.owner = item.owner]

SyncLease(item, shard) ==
  IF item.owner # NoOwner /\ item.ckpt # NoAttr
  THEN [shard EXCEPT !.owner = item.owner, !.ckpt = item.ckpt]
  ELSE shard

-----------------------------------------------------------------------------
\* getStartingPosition: after the checkpoint, or at TRIM_HORIZON when there
\* is none; and the events and iterators that go on from there.
StartPastNext(shard) == shard.ckpt + 1  \* mutant: skips a record
StartAfter(shard) == shard.ckpt

-----------------------------------------------------------------------------
\* Relative time, for the modules in which time goes on for ever: it is always
\* Now, and when it passes every timestamp ages, down to the oldest one the
\* code can tell from a younger one.
Now == ClaimTimeout + 2
Aged(t) == IF t <= 1 THEN t ELSE t - 1

-----------------------------------------------------------------------------
\* For the properties: all the records up to checkpoint k are among those in
\* `done'.
CoveredBy(k, done) == \A r \in 1 .. LastRecord : r <= k => r \in done
=============================================================================
