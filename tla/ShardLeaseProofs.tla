-------------------------- MODULE ShardLeaseProofs --------------------------
(***************************************************************************)
(* Theorems of ShardLease, for every set of workers and of consumer slots, *)
(* every number of records, lease duration and claim timeout, and without  *)
(* any of the bounds that TLC needs: no checkpoint passes a record that    *)
(* was not delivered, what the workers do is the delivery OrderedDelivery  *)
(* promises, and who may change whose lease.                               *)
(***************************************************************************)
EXTENDS ShardLease, LeaseTableTheorems

\* Every step keeps the types: the event loop's.
LEMMA LoopTypes ==
  ASSUME TypeOK, NEW w \in Workers, LoopStep(w)
  PROVE  TypeOK'
<1> USE DEF TypeOK, AtLoop, AtCon, Works, Fails, claimVars
<1>1. CASE LoopFetch(w)
  <2>1. cache' \in [Workers -> ShardStatus]
    BY <1>1, FetchCheckpointType DEF LoopFetch
  <2>2. loopPc' \in [Workers -> LoopPcs]
    BY <1>1 DEF LoopFetch, LoopPcs
  <2> QED
    BY <1>1, <2>1, <2>2 DEF LoopFetch, conVars, renVars
<1>2. CASE LoopRead(w)
  <2>1. GetLeaseRequest(row, cache[w], w, now) \in LeaseRequest
    BY GetLeaseRequestType
  <2>a. /\ \/ loopReq' = [loopReq EXCEPT ![w] = GetLeaseRequest(row, cache[w], w, now)]
           \/ loopReq' = loopReq
        /\ \/ loopPc' = [loopPc EXCEPT ![w] = "put"]
           \/ loopPc' = [loopPc EXCEPT ![w] = "sleep"]
    BY <1>2, Zenon DEF LoopRead
  <2>2. loopReq' \in [Workers -> LeaseRequest]
    BY <2>a, <2>1, ZenonT(30)
  <2>3. loopPc' \in [Workers -> LoopPcs]
    BY <2>a DEF LoopPcs
  <2> QED
    BY <1>2, <2>2, <2>3 DEF LoopRead, conVars, renVars
<1>3. CASE LoopPut(w)
  <2>1. row' \in Item
    BY <1>3, GetLeaseItemType DEF LoopPut, PutGranted, PutRefused, PutFails
  <2>2. loopReq' \in [Workers -> LeaseRequest]
    BY <1>3, InitialValuesType DEF LoopPut
  <2>3. loopPc' \in [Workers -> LoopPcs]
    BY <1>3 DEF LoopPut, LoopPcs
  <2>4. faults' \in Nat
    BY <1>3 DEF LoopPut, PutGranted, PutRefused, PutFails
  <2> QED
    BY <1>3, <2>1, <2>2, <2>3, <2>4 DEF LoopPut, conVars, renVars
<1>4. CASE LoopSet(w)
  <2>1. PICK c \in Consumers : AtCon(w, c, "start")
    BY <1>4 DEF LoopSet
  <2>2. conPc' \in [Workers -> [Consumers -> ConPcs]]
    BY <2>1 DEF ConPcs
  <2> QED
    BY <1>4, <2>2, GetLeaseGrantedType, InitialValuesType
       DEF LoopSet, LoopPcs, renVars
<1>5. CASE RebalanceScan(w)
  BY <1>5 DEF RebalanceScan, LoopPcs, conVars, renVars
<1>6. CASE RebalanceSync(w)
  BY <1>6, SyncLeaseType, InitialValuesType
     DEF RebalanceSync, LoopPcs, conVars, renVars
<1>7. CASE RebalanceCached(w)
  BY <1>7 DEF RebalanceCached, LoopPcs, conVars, renVars
<1>8. CASE ClaimFetch(w)
  <2>1. loopPc' \in [Workers -> LoopPcs]
    BY <1>8 DEF ClaimFetch, LoopPcs
  <2>2. cache' \in [Workers -> ShardStatus]
    <3>1. \/ cache' = [cache EXCEPT ![w] = FetchCheckpoint(row, cache[w])]
          \/ cache' = cache
      BY <1>8 DEF ClaimFetch
    <3>2. FetchCheckpoint(row, cache[w]) \in ShardStatus
      BY FetchCheckpointType
    <3> QED
      BY <3>1, <3>2
  <2>3. alone' \in [Workers -> BOOLEAN]
    BY <1>8 DEF ClaimFetch
  <2>4. faults' \in Nat
    BY <1>8 DEF ClaimFetch
  <2> QED
    BY <1>8, <2>1, <2>2, <2>3, <2>4 DEF ClaimFetch, conVars, renVars
<1>9. CASE ClaimRead(w)
  <2>1. loopPc' \in [Workers -> LoopPcs]
    <3>1. \E p \in {"checkpoint", "owner", "condition", "claim"} :
             loopPc' = [loopPc EXCEPT ![w] = p]
      BY <1>9, Zenon DEF ClaimRead
    <3> QED
      BY <3>1 DEF LoopPcs
  <2>2. loopShard' \in [Workers -> ShardStatus]
    <3>1. cache[w] \in ShardStatus /\ loopShard[w] \in ShardStatus
      OBVIOUS
    <3>2. /\ cache[w].owner \in Workers \cup {EmptyOwner}
          /\ cache[w].timeout \in Times /\ cache[w].ckpt \in Checkpoints
      BY <3>1 DEF ShardStatus
    <3>3. \/ loopShard' = [loopShard EXCEPT ![w].timeout = cache[w].timeout]
          \/ loopShard' = [loopShard EXCEPT ![w].ckpt = cache[w].ckpt]
          \/ loopShard' = [loopShard EXCEPT ![w].owner = cache[w].owner]
          \/ loopShard' = loopShard
      BY <1>9, Zenon DEF ClaimRead
    <3>4. /\ [loopShard[w] EXCEPT !.timeout = cache[w].timeout] \in ShardStatus
          /\ [loopShard[w] EXCEPT !.ckpt = cache[w].ckpt] \in ShardStatus
          /\ [loopShard[w] EXCEPT !.owner = cache[w].owner] \in ShardStatus
      BY <3>1, <3>2, ShardStatusFields
    <3> QED
      BY <3>3, <3>4
  <2>3. loopIf' \in [Workers -> Checkpoints]
    BY <1>9 DEF ClaimRead, ShardStatus
  <2> QED
    BY <1>9, <2>1, <2>2, <2>3 DEF ClaimRead, conVars, renVars
<1>10. CASE ClaimPut(w)
  <2>1. loopPc' \in [Workers -> LoopPcs]
    BY <1>10 DEF ClaimPut, LoopPcs
  <2>2. row' \in Item /\ faults' \in Nat
    BY <1>10, ClaimItemType DEF ClaimPut
  <2>3. loopShard' \in [Workers -> ShardStatus] /\ loopIf' \in [Workers -> Checkpoints]
    BY <1>10, InitialValuesType, BoundsAssumption DEF ClaimPut, Checkpoints, ShardEnd
  <2> QED
    BY <1>10, <2>1, <2>2, <2>3 DEF ClaimPut, conVars, renVars
<1>11. CASE LoopExit(w)
  BY <1>11 DEF LoopExit, LoopPcs, conVars, renVars
<1> QED
  BY <1>1, <1>2, <1>3, <1>4, <1>5, <1>6, <1>7, <1>8, <1>9, <1>10, <1>11 DEF LoopStep

\* ... those of a consumer.
LEMMA ConTypes ==
  ASSUME TypeOK, NEW w \in Workers, NEW c \in Consumers, ConStep(w, c)
  PROVE  TypeOK'
<1> USE DEF TypeOK, AtCon, AtRen, Works, Fails, claimVars
<1>a. ASSUME NEW shard \in ShardStatus, Return(w, c, shard)
      PROVE  /\ conPc' \in [Workers -> [Consumers -> ConPcs]]
             /\ cache' \in [Workers -> ShardStatus]
             /\ conPos' \in [Workers -> [Consumers -> 0 .. LastRecord]]
             /\ renPc' \in [Workers -> [Consumers -> RenPcs]]
  <2>1. conPc' \in [Workers -> [Consumers -> ConPcs]]
    BY <1>a DEF Return, ConPcs
  <2>2. cache' \in [Workers -> ShardStatus]
    BY <1>a DEF Return, ShardStatus
  <2>3. conPos' \in [Workers -> [Consumers -> 0 .. LastRecord]]
    BY <1>a, BoundsAssumption DEF Return
  <2>4. renPc' \in [Workers -> [Consumers -> RenPcs]]
    BY <1>a DEF Return, RenPcs
  <2> QED
    BY <2>1, <2>2, <2>3, <2>4
<1>b. ASSUME NEW k \in Checkpoints, NEW pc \in ConPcs, Checkpoint(w, c, k, pc)
      PROVE  /\ conPc' \in [Workers -> [Consumers -> ConPcs]]
             /\ cache' \in [Workers -> ShardStatus]
             /\ conShard' \in [Workers -> [Consumers -> ShardStatus]]
  <2>1. conPc' \in [Workers -> [Consumers -> ConPcs]]
    BY <1>b DEF Checkpoint
  <2>2. cache' \in [Workers -> ShardStatus]
    <3>1. /\ cache[w] \in ShardStatus
          /\ EmptyOwner \in Workers \cup {EmptyOwner} /\ 0 \in Times
      BY DEF Times
    <3>2. [cache[w] EXCEPT !.ckpt = k] \in ShardStatus
      BY <3>1, ShardStatusFields
    <3> QED
      BY <1>b, <3>2 DEF Checkpoint
  <2>3. conShard' \in [Workers -> [Consumers -> ShardStatus]]
    BY <1>b, <2>2 DEF Checkpoint
  <2> QED
    BY <2>1, <2>2, <2>3
<1>d. SaveItem(w, c) => row' \in Item /\ faults' \in Nat
  BY CheckpointItemType DEF SaveItem
<1>1. CASE ConStart(w, c)
  <2> DEFINE shard == FetchCheckpoint(row, cache[w])
  <2>1. shard \in ShardStatus
    BY FetchCheckpointType
  <2>2. CASE Return(w, c, shard)
    BY <1>1, <1>a, <2>1, <2>2 DEF ConStart, loopVars
  <2>3. CASE Return(w, c, cache[w])
    BY <1>1, <1>a, <2>3 DEF ConStart, loopVars
  <2>4. CASE /\ shard.ckpt # ShardEnd
             /\ Works
             /\ cache' = [cache EXCEPT ![w] = shard]
             /\ conPos' = [conPos EXCEPT ![w][c] = StartAfter(shard)]
             /\ AtCon(w, c, "poll")
             /\ AtRen(w, c, "timer")
    <3>1. StartAfter(shard) \in 0 .. LastRecord
      BY <2>1, <2>4, BoundsAssumption
         DEF StartAfter, ShardStatus, Checkpoints, ShardEnd
    <3>2. conPos' \in [Workers -> [Consumers -> 0 .. LastRecord]]
      BY <2>4, <3>1
    <3>3. conPc' \in [Workers -> [Consumers -> ConPcs]]
      BY <2>4 DEF ConPcs
    <3>4. renPc' \in [Workers -> [Consumers -> RenPcs]]
      BY <2>4 DEF RenPcs
    <3>5. cache' \in [Workers -> ShardStatus]
      BY <2>1, <2>4
    <3> QED
      BY <1>1, <2>4, <3>2, <3>3, <3>4, <3>5 DEF ConStart, loopVars
  <2> QED
    BY <1>1, <2>2, <2>3, <2>4 DEF ConStart
<1>2. CASE ConDeliver(w, c)
  <2>1. conPos[w][c] + 1 \in 1 .. LastRecord
    BY <1>2, BoundsAssumption DEF ConDeliver
  <2>2. conPos' \in [Workers -> [Consumers -> 0 .. LastRecord]]
    BY <1>2, <2>1, BoundsAssumption DEF ConDeliver
  <2>3. processed' \subseteq 1 .. LastRecord
    BY <1>2, <2>1 DEF ConDeliver
  <2>4. ASSUME NEW k \in 1 .. conPos[w][c] + 1, Checkpoint(w, c, k, "save")
        PROVE  TypeOK'
    <3>1. k \in Checkpoints /\ "save" \in ConPcs
      BY <2>1, BoundsAssumption DEF Checkpoints, ShardEnd, ConPcs
    <3> QED
      BY <1>2, <1>b, <2>2, <2>3, <2>4, <3>1 DEF ConDeliver, loopVars, renVars
  <2>5. CASE AtCon(w, c, "select") /\ UNCHANGED <<cache, conShard>>
    <3>1. conPc' \in [Workers -> [Consumers -> ConPcs]]
      BY <2>5 DEF ConPcs
    <3> QED
      BY <1>2, <2>2, <2>3, <2>5, <3>1 DEF ConDeliver, loopVars, renVars
  <2> QED
    BY <1>2, <2>4, <2>5 DEF ConDeliver
<1>3. CASE ConSave(w, c)
  <2>1. conPc' \in [Workers -> [Consumers -> ConPcs]]
    BY <1>3 DEF ConSave, ConPcs
  <2>2. conShard' \in [Workers -> [Consumers -> ShardStatus]]
    BY <1>3, InitialValuesType DEF ConSave
  <2> QED
    BY <1>3, <1>d, <2>1, <2>2 DEF ConSave, loopVars, renVars
<1>4. CASE ConPollEmpty(w, c)
  <2>1. conPc' \in [Workers -> [Consumers -> ConPcs]]
    BY <1>4 DEF ConPollEmpty, ConPcs
  <2> QED
    BY <1>4, <2>1 DEF ConPollEmpty, loopVars, renVars
<1>5. CASE ConPollFails(w, c)
  BY <1>5, <1>a DEF ConPollFails, loopVars
<1>6. CASE ConClosed(w, c)
  <2>1. 1 .. ShardEnd \subseteq Checkpoints /\ "saveLast" \in ConPcs
    BY BoundsAssumption DEF ShardEnd, Checkpoints, ConPcs
  <2>2. ASSUME NEW k \in 1 .. ShardEnd, Checkpoint(w, c, k, "saveLast"),
               UNCHANGED <<conPos, renPc>>
        PROVE  TypeOK'
    BY <1>6, <1>b, <2>1, <2>2 DEF ConClosed, loopVars
  <2>3. CASE Return(w, c, cache[w]) /\ UNCHANGED conShard
    BY <1>6, <1>a, <2>3 DEF ConClosed, loopVars
  <2> QED
    BY <1>6, <2>2, <2>3 DEF ConClosed
<1>7. CASE ConSelect(w, c)
  <2>1. 1 .. conPos[w][c] \subseteq Checkpoints /\ "saveLast" \in ConPcs
    BY BoundsAssumption DEF ShardEnd, Checkpoints, ConPcs
  <2>2. ASSUME NEW k \in 1 .. conPos[w][c], Checkpoint(w, c, k, "saveLast"),
               UNCHANGED <<conPos, renPc>>
        PROVE  TypeOK'
    BY <1>7, <1>b, <2>1, <2>2 DEF ConSelect, loopVars
  <2>3. CASE Return(w, c, cache[w]) /\ UNCHANGED conShard
    BY <1>7, <1>a, <2>3 DEF ConSelect, loopVars
  <2>4. CASE AtCon(w, c, "poll") /\ UNCHANGED <<cache, conPos, conShard, renPc>>
    <3>1. conPc' \in [Workers -> [Consumers -> ConPcs]]
      BY <2>4 DEF ConPcs
    <3> QED
      BY <1>7, <2>4, <3>1 DEF ConSelect, loopVars
  <2> QED
    BY <1>7, <2>2, <2>3, <2>4 DEF ConSelect
<1>8. CASE ConSaveLast(w, c)
  <2>1. conShard' \in [Workers -> [Consumers -> ShardStatus]]
    BY <1>8, InitialValuesType DEF ConSaveLast
  <2> QED
    BY <1>8, <1>a, <1>d, <2>1 DEF ConSaveLast, loopVars
<1>9. CASE ConRelease(w, c)
  <2>1. conPc' \in [Workers -> [Consumers -> ConPcs]]
    BY <1>9 DEF ConRelease, ConPcs
  <2>2. row' \in Item
    BY <1>9, RemoveLeaseOwnerType DEF ConRelease
  <2> QED
    BY <1>9, <2>1, <2>2 DEF ConRelease, loopVars, renVars
<1> QED
  BY <1>1, <1>2, <1>3, <1>4, <1>5, <1>6, <1>7, <1>8, <1>9 DEF ConStep

\* ... and those of a renewal goroutine.
LEMMA RenewTypes ==
  ASSUME TypeOK, NEW w \in Workers, NEW c \in Consumers, RenewStep(w, c)
  PROVE  TypeOK'
<1> USE DEF TypeOK, AtRen, Works, Fails, claimVars
<1>a. ASSUME NEW p \in RenPcs
      PROVE  AtRen(w, c, p) => renPc' \in [Workers -> [Consumers -> RenPcs]]
  OBVIOUS
<1>c. ASSUME NEW r \in LeaseRequest
      PROVE  [renReq EXCEPT ![w][c] = r] \in [Workers -> [Consumers -> LeaseRequest]]
  OBVIOUS
<1>b. RenewFails(w, c) => renPc' \in [Workers -> [Consumers -> RenPcs]]
  BY DEF RenewFails, RenPcs
<1>1. CASE RenewFire(w, c)
  BY <1>1, <1>a DEF RenewFire, RenPcs, loopVars, conVars
<1>2. CASE RenewCancel(w, c)
  BY <1>2, <1>a DEF RenewCancel, RenPcs, loopVars, conVars
<1>3. CASE RenewRead(w, c)
  <2>1. GetLeaseRequest(row, cache[w], w, now) \in LeaseRequest
    BY GetLeaseRequestType
  <2> DEFINE req == GetLeaseRequest(row, cache[w], w, now)
  <2>a. \/ renReq' = [renReq EXCEPT ![w][c] = req] /\ AtRen(w, c, "put")
        \/ UNCHANGED renReq /\ RenewFails(w, c)
    BY <1>3, Zenon DEF RenewRead
  <2> HIDE DEF req
  <2>2. renReq' \in [Workers -> [Consumers -> LeaseRequest]]
    <3>1. renReq' = [renReq EXCEPT ![w][c] = req] \/ UNCHANGED renReq
      BY <2>a, Zenon
    <3> QED
      BY <1>c, <2>1, <3>1, Zenon DEF req
  <2>3. renPc' \in [Workers -> [Consumers -> RenPcs]]
    BY <2>a, <1>a, <1>b DEF RenPcs
  <2> QED
    BY <1>3, <2>2, <2>3 DEF RenewRead, loopVars, conVars
<1>4. CASE RenewPut(w, c)
  <2>1. row' \in Item
    BY <1>4, GetLeaseItemType DEF RenewPut, PutGranted, PutRefused, PutFails
  <2>a. \/ UNCHANGED renReq /\ AtRen(w, c, "set")
        \/ renReq' = [renReq EXCEPT ![w][c] = NoRequest] /\ RenewFails(w, c)
    BY <1>4, Zenon DEF RenewPut
  <2>2. renReq' \in [Workers -> [Consumers -> LeaseRequest]]
    <3>1. renReq' = [renReq EXCEPT ![w][c] = NoRequest] \/ UNCHANGED renReq
      BY <2>a, Zenon
    <3>2. renReq' = [renReq EXCEPT ![w][c] = NoRequest] =>
            renReq' \in [Workers -> [Consumers -> LeaseRequest]]
      BY <1>c, InitialValuesType, Zenon
    <3>3. UNCHANGED renReq => renReq' \in [Workers -> [Consumers -> LeaseRequest]]
      BY DEF TypeOK
    <3> QED
      BY <3>1, <3>2, <3>3, Zenon
  <2>3. renPc' \in [Workers -> [Consumers -> RenPcs]]
    BY <2>a, <1>a, <1>b DEF RenPcs
  <2>4. faults' \in Nat
    BY <1>4 DEF RenewPut, PutGranted, PutRefused, PutFails
  <2> QED
    BY <1>4, <2>1, <2>2, <2>3, <2>4 DEF RenewPut, loopVars, conVars
<1>5. CASE RenewSet(w, c)
  <2>1. cache' \in [Workers -> ShardStatus]
    BY <1>5, GetLeaseGrantedType DEF RenewSet
  <2>2. renReq' \in [Workers -> [Consumers -> LeaseRequest]]
    BY <1>5, InitialValuesType DEF RenewSet
  <2> QED
    BY <1>5, <1>a, <2>1, <2>2 DEF RenewSet, RenPcs, loopVars, conVars
<1> QED
  BY <1>1, <1>2, <1>3, <1>4, <1>5 DEF RenewStep

\* ... and the environment's.
LEMMA EnvironmentTypes ==
  ASSUME TypeOK, Tick \/ \E w \in Workers : Shutdown(w) \/ Crash(w)
  PROVE  TypeOK'
<1> USE DEF TypeOK, AtLoop, Fails
<1>1. CASE Tick
  BY <1>1 DEF Tick, loopVars, claimVars, conVars, renVars
<1>2. ASSUME NEW w \in Workers, Shutdown(w)
      PROVE  TypeOK'
  BY <1>2 DEF Shutdown, loopVars, claimVars, conVars, renVars
<1>3. ASSUME NEW w \in Workers, Crash(w)
      PROVE  TypeOK'
  <2>1. /\ cache' \in [Workers -> ShardStatus]
        /\ stop' \in [Workers -> BOOLEAN]
        /\ faults' \in Nat
    BY <1>3, InitialValuesType DEF Crash
  <2>2. /\ loopPc' \in [Workers -> LoopPcs]
        /\ loopReq' \in [Workers -> LeaseRequest]
        /\ loopRow' \in [Workers -> Item]
        /\ loopShard' \in [Workers -> ShardStatus]
        /\ loopIf' \in [Workers -> Checkpoints]
        /\ alone' \in [Workers -> BOOLEAN]
    BY <1>3, InitialValuesType, BoundsAssumption
       DEF Crash, LoopPcs, Checkpoints, ShardEnd
  <2>3. /\ conPc' \in [Workers -> [Consumers -> ConPcs]]
        /\ conPos' \in [Workers -> [Consumers -> 0 .. LastRecord]]
        /\ conShard' \in [Workers -> [Consumers -> ShardStatus]]
    BY <1>3, InitialValuesType, BoundsAssumption DEF Crash, ConPcs
  <2>4. /\ renPc' \in [Workers -> [Consumers -> RenPcs]]
        /\ renReq' \in [Workers -> [Consumers -> LeaseRequest]]
    BY <1>3, InitialValuesType DEF Crash, RenPcs
  <2> QED
    BY <1>3, <2>1, <2>2, <2>3, <2>4 DEF Crash
<1> QED
  BY <1>1, <1>2, <1>3

\* Every variable keeps its type.
THEOREM TypeCorrect == Spec => []TypeOK
<1>1. Init => TypeOK
  BY InitialValuesType, BoundsAssumption
     DEF Init, TypeOK, LoopPcs, ConPcs, RenPcs, Checkpoints, ShardEnd
<1>2. TypeOK /\ [Next]_vars => TypeOK'
  <2> SUFFICES ASSUME TypeOK, [Next]_vars
               PROVE  TypeOK'
    OBVIOUS
  <2>1. CASE Next
    BY <2>1, LoopTypes, ConTypes, RenewTypes, EnvironmentTypes DEF Next
  <2>2. CASE UNCHANGED vars
    BY <2>2 DEF TypeOK, vars, loopVars, claimVars, conVars, renVars
  <2> QED
    BY <2>1, <2>2
<1> QED
  BY <1>1, <1>2, PTL DEF Spec

-----------------------------------------------------------------------------
\* The event loop's steps keep every checkpoint covered.
LEMMA LoopCovered ==
  ASSUME TypeOK, CheckpointInv, NEW w \in Workers, LoopStep(w)
  PROVE  CheckpointInv'
<1> USE DEF TypeOK, CheckpointInv, CheckpointCovered, AtLoop, claimVars
<1>a. CoveredBy(FetchCheckpoint(row, cache[w]).ckpt, processed)
  BY CallsCovered
<1>b. /\ CoveredBy(GetLeaseRequest(row, cache[w], w, now).ckpt, processed)
      /\ CoveredBy(GetLeaseItem(loopReq[w], w).ckpt, processed)
  <2>1. CoveredBy(row.ckpt, processed) /\ CoveredBy(cache[w].ckpt, processed)
        /\ CoveredBy(loopReq[w].ckpt, processed)
    OBVIOUS
  <2>2. row \in Item /\ cache[w] \in ShardStatus /\ loopReq[w] \in LeaseRequest
        /\ now \in Nat
    OBVIOUS
  <2> HIDE DEF TypeOK, CheckpointInv, CheckpointCovered
  <2> QED
    BY <2>1, <2>2, CallsCovered
<1>1. CASE LoopFetch(w)
  <2>1. cache' = [cache EXCEPT ![w] = FetchCheckpoint(row, cache[w])]
    BY <1>1 DEF LoopFetch
  <2>2. \A v \in Workers : CoveredBy(cache'[v].ckpt, processed)
    BY <1>a, <2>1
  <2> QED
    BY <1>1, <2>2 DEF LoopFetch, conVars, renVars
<1>2. CASE LoopRead(w)
  <2>1. \/ loopReq' = [loopReq EXCEPT ![w] = GetLeaseRequest(row, cache[w], w, now)]
        \/ loopReq' = loopReq
    BY <1>2, Zenon DEF LoopRead
  <2>2. \A v \in Workers : CoveredBy(loopReq'[v].ckpt, processed)
    BY <1>b, <2>1
  <2> QED
    BY <1>2, <2>2 DEF LoopRead, conVars, renVars
<1>3. CASE LoopPut(w)
  <2>1. row' = row \/ row' = GetLeaseItem(loopReq[w], w)
    BY <1>3, Zenon DEF LoopPut, PutGranted, PutRefused, PutFails
  <2>3. CoveredBy(row'.ckpt, processed)
    BY <1>b, <2>1
  <2>4. loopReq' = [loopReq EXCEPT ![w] = NoRequest] \/ loopReq' = loopReq
    BY <1>3, Zenon DEF LoopPut
  <2>5. \A v \in Workers : CoveredBy(loopReq'[v].ckpt, processed)
    <3>1. CoveredBy(NoRequest.ckpt, processed)
      BY CoveredFacts
    <3>2. loopReq \in [Workers -> LeaseRequest]
          /\ \A v \in Workers : CoveredBy(loopReq[v].ckpt, processed)
      OBVIOUS
    <3> HIDE DEF TypeOK, CheckpointInv, CheckpointCovered
    <3> QED
      BY <2>4, <3>1, <3>2
  <2> QED
    BY <1>3, <2>3, <2>5 DEF LoopPut, conVars, renVars
<1>4. CASE LoopSet(w)
  <2>1. /\ cache' = [cache EXCEPT ![w] = GetLeaseGranted(cache[w], loopReq[w], w)]
        /\ loopReq' = [loopReq EXCEPT ![w] = NoRequest]
    BY <1>4 DEF LoopSet
  <2>2. GetLeaseGranted(cache[w], loopReq[w], w).ckpt = cache[w].ckpt
    BY DEF GetLeaseGranted, ShardStatus
  <2>3. CoveredBy(NoRequest.ckpt, processed)
    BY CoveredFacts
  <2>4. \A v \in Workers : CoveredBy(cache'[v].ckpt, processed)
    BY <2>1, <2>2
  <2>5. \A v \in Workers : CoveredBy(loopReq'[v].ckpt, processed)
    BY <2>1, <2>3
  <2> QED
    BY <1>4, <2>4, <2>5 DEF LoopSet, renVars
<1>5. CASE RebalanceScan(w)
  BY <1>5 DEF RebalanceScan, conVars, renVars
<1>6. CASE RebalanceSync(w)
  <2>1. /\ cache' = [cache EXCEPT ![w] = SyncLease(loopRow[w], cache[w])]
        /\ loopRow' = [loopRow EXCEPT ![w] = NoItem]
    BY <1>6 DEF RebalanceSync
  <2>2. CoveredBy(SyncLease(loopRow[w], cache[w]).ckpt, processed)
    BY CallsCovered
  <2>3. \A v \in Workers : /\ CoveredBy(cache'[v].ckpt, processed)
                           /\ CoveredBy(loopRow'[v].ckpt, processed)
    BY <2>1, <2>2, CoveredFacts
  <2> QED
    BY <1>6, <2>3 DEF RebalanceSync, conVars, renVars
<1>7. CASE RebalanceCached(w)
  BY <1>7 DEF RebalanceCached, conVars, renVars
<1>8. CASE ClaimFetch(w)
  <2>1. \/ cache' = [cache EXCEPT ![w] = FetchCheckpoint(row, cache[w])]
        \/ cache' = cache
    BY <1>8, Zenon DEF ClaimFetch
  <2>2. \A v \in Workers : CoveredBy(cache'[v].ckpt, processed)
    BY <1>a, <2>1
  <2> QED
    BY <1>8, <2>2 DEF ClaimFetch, conVars, renVars
<1>9. CASE ClaimRead(w)
  <2>1. \/ loopShard' = [loopShard EXCEPT ![w].timeout = cache[w].timeout]
        \/ loopShard' = [loopShard EXCEPT ![w].ckpt = cache[w].ckpt]
        \/ loopShard' = [loopShard EXCEPT ![w].owner = cache[w].owner]
        \/ loopShard' = loopShard
    BY <1>9, Zenon DEF ClaimRead
  <2>2. \A v \in Workers : loopShard'[v].ckpt \in {loopShard[v].ckpt, cache[v].ckpt}
    <3>1. \A v \in Workers : loopShard[v] \in ShardStatus
      BY DEF TypeOK
    <3>2. loopShard \in [Workers -> ShardStatus]
      BY DEF TypeOK
    <3> HIDE DEF TypeOK, CheckpointInv, CheckpointCovered
    <3> QED
      BY <2>1, <3>1, <3>2 DEF ShardStatus
  <2>3. \A v \in Workers : CoveredBy(loopShard'[v].ckpt, processed)
    BY <2>2
  <2> QED
    BY <1>9, <2>3 DEF ClaimRead, conVars, renVars
<1>10. CASE ClaimPut(w)
  <2>1. row' = row \/ row' = ClaimItem(loopShard[w], w)
    BY <1>10, Zenon DEF ClaimPut
  <2>2. CoveredBy(ClaimItem(loopShard[w], w).ckpt, processed)
    BY DEF ClaimItem
  <2>3. CoveredBy(row'.ckpt, processed)
    BY <2>1, <2>2
  <2>4. \A v \in Workers : CoveredBy(loopShard'[v].ckpt, processed)
    BY <1>10, CoveredFacts DEF ClaimPut
  <2> QED
    BY <1>10, <2>3, <2>4 DEF ClaimPut, conVars, renVars
<1>11. CASE LoopExit(w)
  BY <1>11 DEF LoopExit, conVars, renVars
<1> QED
  BY <1>1, <1>2, <1>3, <1>4, <1>5, <1>6, <1>7, <1>8, <1>9, <1>10, <1>11 DEF LoopStep

\* So do a consumer's.  A delivery extends what is processed by the record
\* that its own position, and a checkpoint of it, then stand for.
LEMMA ConCovered ==
  ASSUME TypeOK, CheckpointInv, NEW w \in Workers, NEW c \in Consumers,
         ConStep(w, c)
  PROVE  CheckpointInv'
<1> DEFINE Covered(k) == CoveredBy(k, processed')
<1>a. ASSUME UNCHANGED <<loopVars, renReq>>,
             processed \subseteq processed',
             Covered(row'.ckpt),
             \A v \in Workers : Covered(cache'[v].ckpt),
             \A v \in Workers, d \in Consumers : Covered(conPos'[v][d]),
             \A v \in Workers, d \in Consumers : Covered(conShard'[v][d].ckpt)
      PROVE  CheckpointInv'
  <2>1. \A v \in Workers : /\ Covered(loopReq'[v].ckpt)
                           /\ Covered(loopRow'[v].ckpt)
                           /\ Covered(loopShard'[v].ckpt)
                           /\ \A d \in Consumers : Covered(renReq'[v][d].ckpt)
    BY <1>a, CoveredFacts DEF CheckpointInv, loopVars, claimVars
  <2> QED
    BY <1>a, <2>1 DEF CheckpointInv, CheckpointCovered
<1>b. /\ Covered(row.ckpt)
      /\ \A v \in Workers : Covered(cache[v].ckpt)
      /\ \A v \in Workers, d \in Consumers : Covered(conPos[v][d])
      /\ \A v \in Workers, d \in Consumers : Covered(conShard[v][d].ckpt)
      /\ processed \subseteq processed'
  <2>1. processed \subseteq processed'
    BY DEF ConStep, ConStart, ConDeliver, ConSave, ConPollEmpty, ConPollFails,
           ConClosed, ConSelect, ConSaveLast, ConRelease
  <2> QED
    BY <2>1, CoveredFacts DEF CheckpointInv, CheckpointCovered
<1>c. ASSUME NEW shard \in ShardStatus, Covered(shard.ckpt), Return(w, c, shard)
      PROVE  /\ \A v \in Workers : Covered(cache'[v].ckpt)
             /\ \A v \in Workers, d \in Consumers : Covered(conPos'[v][d])
  <2>1. \A v \in Workers : Covered(cache'[v].ckpt)
    BY <1>b, <1>c DEF Return, TypeOK, ShardStatus
  <2>2. Covered(0)
    BY CoveredFacts
  <2>3. \A v \in Workers, d \in Consumers : Covered(conPos'[v][d])
    BY <1>b, <1>c, <2>2 DEF Return, TypeOK
  <2> QED
    BY <2>1, <2>3
<1>d. ASSUME NEW k, Covered(k), NEW pc, Checkpoint(w, c, k, pc)
      PROVE  /\ \A v \in Workers : Covered(cache'[v].ckpt)
             /\ \A v \in Workers, d \in Consumers : Covered(conShard'[v][d].ckpt)
  <2>1. \A v \in Workers : Covered(cache'[v].ckpt)
    BY <1>b, <1>d DEF Checkpoint, TypeOK, ShardStatus
  <2>2. \A v \in Workers, d \in Consumers : Covered(conShard'[v][d].ckpt)
    BY <1>b, <1>d, <2>1 DEF Checkpoint, TypeOK
  <2> QED
    BY <2>1, <2>2
<1>e. SaveItem(w, c) => Covered(row'.ckpt)
  BY <1>b DEF SaveItem, CheckpointItem
<1>f. (conShard' = [conShard EXCEPT ![w][c] = NewShardStatus])
         => \A v \in Workers, d \in Consumers : Covered(conShard'[v][d].ckpt)
  <2>1. Covered(NewShardStatus.ckpt)
    BY CoveredFacts
  <2> QED
    BY <1>b, <2>1 DEF TypeOK
<1>g. cache[w] \in ShardStatus
  BY DEF TypeOK
<1> HIDE DEF Covered
<1>1. CASE ConStart(w, c)
  <2> DEFINE shard == FetchCheckpoint(row, cache[w])
  <2>1. shard \in ShardStatus /\ Covered(shard.ckpt)
    BY <1>b, FetchCheckpointType DEF FetchCheckpoint, TypeOK
  <2>2. UNCHANGED <<row, conShard, loopVars, renReq, processed>>
    BY <1>1 DEF ConStart
  <2> HIDE DEF shard
  <2>3. CASE Return(w, c, shard) \/ Return(w, c, cache[w])
    <3>1. /\ \A v \in Workers : Covered(cache'[v].ckpt)
          /\ \A v \in Workers, d \in Consumers : Covered(conPos'[v][d])
      BY <1>b, <1>c, <1>g, <2>1, <2>3
    <3> QED
      BY <1>a, <1>b, <2>2, <3>1 DEF Covered
  <2>4. CASE /\ cache' = [cache EXCEPT ![w] = shard]
             /\ conPos' = [conPos EXCEPT ![w][c] = StartAfter(shard)]
    <3>1. \A v \in Workers : Covered(cache'[v].ckpt)
      BY <1>b, <2>1, <2>4 DEF TypeOK
    <3>2. \A v \in Workers, d \in Consumers : Covered(conPos'[v][d])
      BY <1>b, <2>1, <2>4 DEF TypeOK, StartAfter
    <3> QED
      BY <1>a, <1>b, <2>2, <3>1, <3>2 DEF Covered
  <2> QED
    BY <1>1, <2>3, <2>4, Zenon DEF ConStart, shard
<1>2. CASE ConDeliver(w, c)
  <2>1. Covered(conPos[w][c] + 1)
    <3>1. conPos[w][c] \in Int /\ processed' = processed \cup {conPos[w][c] + 1}
      BY <1>2, BoundsAssumption DEF ConDeliver, TypeOK
    <3>2. CoveredBy(conPos[w][c], processed)
      BY DEF CheckpointInv
    <3> QED
      BY <3>1, <3>2, BoundsAssumption DEF Covered, CoveredBy
  <2>2. \A v \in Workers, d \in Consumers : Covered(conPos'[v][d])
    BY <1>2, <1>b, <2>1 DEF ConDeliver, TypeOK
  <2>3. UNCHANGED <<row, loopVars, renReq>>
    BY <1>2 DEF ConDeliver, renVars
  <2>4. ASSUME NEW k \in 1 .. conPos[w][c] + 1, Checkpoint(w, c, k, "save")
        PROVE  CheckpointInv'
    <3>1. Covered(k)
      BY <2>1, BoundsAssumption DEF Covered, CoveredBy, TypeOK
    <3> QED
      BY <1>a, <1>b, <1>d, <2>2, <2>3, <2>4, <3>1 DEF Covered
  <2>5. CASE UNCHANGED <<cache, conShard>>
    BY <1>a, <1>b, <2>2, <2>3, <2>5 DEF Covered
  <2> QED
    BY <1>2, <2>4, <2>5, Zenon DEF ConDeliver
<1>3. CASE ConSave(w, c)
  <2>1. /\ UNCHANGED <<cache, conPos, loopVars, renReq, processed>>
        /\ Covered(row'.ckpt)
        /\ \A v \in Workers, d \in Consumers : Covered(conShard'[v][d].ckpt)
    BY <1>3, <1>e, <1>f DEF ConSave, renVars
  <2> QED
    BY <1>a, <1>b, <2>1 DEF Covered
<1>4. CASE ConPollEmpty(w, c)
  BY <1>4, <1>a, <1>b DEF ConPollEmpty, renVars, Covered
<1>5. CASE ConPollFails(w, c)
  <2>1. /\ UNCHANGED <<row, conShard, loopVars, renReq, processed>>
        /\ Return(w, c, cache[w])
    BY <1>5 DEF ConPollFails
  <2>2. /\ \A v \in Workers : Covered(cache'[v].ckpt)
        /\ \A v \in Workers, d \in Consumers : Covered(conPos'[v][d])
    BY <1>b, <1>c, <1>g, <2>1
  <2> QED
    BY <1>a, <1>b, <2>1, <2>2 DEF Covered
<1>6. CASE ConClosed(w, c)
  <2>1. UNCHANGED <<row, loopVars, renReq, processed>> /\ conPos[w][c] = LastRecord
    BY <1>6 DEF ConClosed
  <2>2. Covered(ShardEnd)
    <3>1. CoveredBy(LastRecord, processed)
      BY <2>1 DEF CheckpointInv
    <3> QED
      BY <2>1, <3>1, BoundsAssumption DEF Covered, CoveredBy, ShardEnd
  <2>3. ASSUME NEW k \in 1 .. ShardEnd, Checkpoint(w, c, k, "saveLast"),
               UNCHANGED conPos
        PROVE  CheckpointInv'
    <3>1. Covered(k)
      BY <2>2, BoundsAssumption DEF Covered, CoveredBy, ShardEnd
    <3> QED
      BY <1>a, <1>b, <1>d, <2>1, <2>3, <3>1 DEF Covered
  <2>4. CASE Return(w, c, cache[w]) /\ UNCHANGED conShard
    <3>1. /\ \A v \in Workers : Covered(cache'[v].ckpt)
          /\ \A v \in Workers, d \in Consumers : Covered(conPos'[v][d])
      BY <1>b, <1>c, <1>g, <2>4
    <3> QED
      BY <1>a, <1>b, <2>1, <2>4, <3>1 DEF Covered
  <2> QED
    BY <1>6, <2>3, <2>4 DEF ConClosed
<1>7. CASE ConSelect(w, c)
  <2>1. UNCHANGED <<row, loopVars, renReq, processed>>
    BY <1>7 DEF ConSelect
  <2>2. ASSUME NEW k \in 1 .. conPos[w][c], Checkpoint(w, c, k, "saveLast"),
               UNCHANGED conPos
        PROVE  CheckpointInv'
    <3>1. Covered(conPos[w][c])
      BY <1>b
    <3>2. Covered(k)
      BY <3>1, BoundsAssumption DEF Covered, CoveredBy, TypeOK
    <3> QED
      BY <1>a, <1>b, <1>d, <2>1, <2>2, <3>2 DEF Covered
  <2>3. CASE Return(w, c, cache[w]) /\ UNCHANGED conShard
    <3>1. /\ \A v \in Workers : Covered(cache'[v].ckpt)
          /\ \A v \in Workers, d \in Consumers : Covered(conPos'[v][d])
      BY <1>b, <1>c, <1>g, <2>3
    <3> QED
      BY <1>a, <1>b, <2>1, <2>3, <3>1 DEF Covered
  <2>4. CASE UNCHANGED <<cache, conPos, conShard>>
    BY <1>a, <1>b, <2>1, <2>4 DEF Covered
  <2> QED
    BY <1>7, <2>2, <2>3, <2>4, Zenon DEF ConSelect
<1>8. CASE ConSaveLast(w, c)
  <2>1. /\ UNCHANGED <<loopVars, renReq, processed>>
        /\ Return(w, c, cache[w])
        /\ Covered(row'.ckpt)
        /\ \A v \in Workers, d \in Consumers : Covered(conShard'[v][d].ckpt)
    BY <1>8, <1>e, <1>f DEF ConSaveLast
  <2>2. /\ \A v \in Workers : Covered(cache'[v].ckpt)
        /\ \A v \in Workers, d \in Consumers : Covered(conPos'[v][d])
    BY <1>b, <1>c, <1>g, <2>1
  <2> QED
    BY <1>a, <1>b, <2>1, <2>2 DEF Covered
<1>9. CASE ConRelease(w, c)
  <2>1. Covered(row'.ckpt)
    BY <1>9, <1>b DEF ConRelease, RemoveLeaseOwner, TypeOK, Item
  <2> QED
    BY <1>9, <1>a, <1>b, <2>1 DEF ConRelease, renVars, Covered
<1> QED
  BY <1>1, <1>2, <1>3, <1>4, <1>5, <1>6, <1>7, <1>8, <1>9 DEF ConStep

\* ... a renewal goroutine's ...
LEMMA RenewCovered ==
  ASSUME TypeOK, CheckpointInv, NEW w \in Workers, NEW c \in Consumers,
         RenewStep(w, c)
  PROVE  CheckpointInv'
<1> DEFINE Covered(k) == CoveredBy(k, processed)
<1>a. ASSUME UNCHANGED <<loopVars, conVars, processed>>,
             Covered(row'.ckpt),
             \A v \in Workers : Covered(cache'[v].ckpt),
             \A v \in Workers, d \in Consumers : Covered(renReq'[v][d].ckpt)
      PROVE  CheckpointInv'
  BY <1>a DEF CheckpointInv, CheckpointCovered, loopVars, claimVars, conVars
<1>b. /\ Covered(row.ckpt)
      /\ \A v \in Workers : Covered(cache[v].ckpt)
      /\ \A v \in Workers, d \in Consumers : Covered(renReq[v][d].ckpt)
  BY DEF CheckpointInv, CheckpointCovered
<1>c. ASSUME NEW r, Covered(r.ckpt), renReq' = [renReq EXCEPT ![w][c] = r]
      PROVE  \A v \in Workers, d \in Consumers : Covered(renReq'[v][d].ckpt)
  BY <1>b, <1>c DEF TypeOK
<1>d. Covered(NoRequest.ckpt)
  BY CoveredFacts
<1>e. /\ row \in Item /\ now \in Nat
      /\ cache[w] \in ShardStatus
      /\ renReq[w][c] \in LeaseRequest
  BY DEF TypeOK
<1>f. /\ Covered(GetLeaseRequest(row, cache[w], w, now).ckpt)
      /\ Covered(GetLeaseItem(renReq[w][c], w).ckpt)
      /\ Covered(GetLeaseGranted(cache[w], renReq[w][c], w).ckpt)
  <2>1. /\ CoveredBy(row.ckpt, processed)
        /\ CoveredBy(cache[w].ckpt, processed)
        /\ CoveredBy(renReq[w][c].ckpt, processed)
    BY <1>b
  <2>2. CoveredBy(GetLeaseGranted(cache[w], renReq[w][c], w).ckpt, processed)
    BY <1>e, <2>1 DEF GetLeaseGranted, ShardStatus
  <2>3. CoveredBy(GetLeaseRequest(row, cache[w], w, now).ckpt, processed)
    BY <2>1 DEF GetLeaseRequest
  <2>4. CoveredBy(GetLeaseItem(renReq[w][c], w).ckpt, processed)
    <3>1. CoveredBy(NoItem.ckpt, processed)
      BY CoveredFacts
    <3> QED
      BY <2>1, <3>1 DEF GetLeaseItem, NoItem
  <2> QED
    BY <2>2, <2>3, <2>4
<1> HIDE DEF Covered
<1>1. CASE RenewFire(w, c) \/ RenewCancel(w, c)
  <2>1. UNCHANGED <<row, cache, renReq, loopVars, conVars, processed>>
    BY <1>1 DEF RenewFire, RenewCancel
  <2> QED
    BY <1>a, <1>b, <2>1 DEF Covered
<1>2. CASE RenewRead(w, c)
  <2>1. UNCHANGED <<row, cache, loopVars, conVars, processed>>
    BY <1>2 DEF RenewRead
  <2>2. \/ renReq' = [renReq EXCEPT ![w][c] = GetLeaseRequest(row, cache[w], w, now)]
        \/ renReq' = renReq
    BY <1>2, Zenon DEF RenewRead
  <2>3. \A v \in Workers, d \in Consumers : Covered(renReq'[v][d].ckpt)
    BY <1>b, <1>c, <1>f, <2>2
  <2> QED
    BY <1>a, <1>b, <2>1, <2>3 DEF Covered
<1>3. CASE RenewPut(w, c)
  <2>1. UNCHANGED <<cache, loopVars, conVars, processed>>
    BY <1>3 DEF RenewPut
  <2>2. row' = row \/ row' = GetLeaseItem(renReq[w][c], w)
    BY <1>3, Zenon DEF RenewPut, PutGranted, PutRefused, PutFails
  <2>3. \/ renReq' = [renReq EXCEPT ![w][c] = NoRequest]
        \/ renReq' = renReq
    BY <1>3, Zenon DEF RenewPut
  <2>4. Covered(row'.ckpt)
    BY <1>b, <1>f, <2>2
  <2>5. \A v \in Workers, d \in Consumers : Covered(renReq'[v][d].ckpt)
    BY <1>b, <1>c, <1>d, <2>3
  <2> QED
    BY <1>a, <1>b, <2>1, <2>4, <2>5 DEF Covered
<1>4. CASE RenewSet(w, c)
  <2>1. /\ UNCHANGED <<row, loopVars, conVars, processed>>
        /\ cache' = [cache EXCEPT ![w] = GetLeaseGranted(cache[w], renReq[w][c], w)]
        /\ renReq' = [renReq EXCEPT ![w][c] = NoRequest]
    BY <1>4 DEF RenewSet
  <2>2. \A v \in Workers : Covered(cache'[v].ckpt)
    BY <1>b, <1>f, <2>1 DEF TypeOK
  <2>3. \A v \in Workers, d \in Consumers : Covered(renReq'[v][d].ckpt)
    BY <1>c, <1>d, <2>1
  <2> QED
    BY <1>a, <1>b, <2>1, <2>2, <2>3 DEF Covered
<1> QED
  BY <1>1, <1>2, <1>3, <1>4 DEF RenewStep

\* ... and the environment's: a crash leaves nothing in memory.
LEMMA EnvironmentCovered ==
  ASSUME TypeOK, CheckpointInv,
         Tick \/ \E w \in Workers : Shutdown(w) \/ Crash(w)
  PROVE  CheckpointInv'
<1>1. CASE Tick
  BY <1>1 DEF Tick, CheckpointInv, CheckpointCovered, loopVars, claimVars, conVars, renVars
<1>2. ASSUME NEW w \in Workers, Shutdown(w)
      PROVE  CheckpointInv'
  BY <1>2 DEF Shutdown, CheckpointInv, CheckpointCovered, loopVars, claimVars, conVars, renVars
<1>3. ASSUME NEW w \in Workers, Crash(w)
      PROVE  CheckpointInv'
  <2>1. /\ CoveredBy(NoItem.ckpt, processed)
        /\ CoveredBy(NewShardStatus.ckpt, processed)
        /\ CoveredBy(NoRequest.ckpt, processed)
        /\ CoveredBy(0, processed)
    BY CoveredFacts
  <2>2. UNCHANGED <<row, processed>>
    BY <1>3 DEF Crash
  <2>3. \A v \in Workers : /\ CoveredBy(cache'[v].ckpt, processed)
                           /\ CoveredBy(loopReq'[v].ckpt, processed)
                           /\ CoveredBy(loopRow'[v].ckpt, processed)
                           /\ CoveredBy(loopShard'[v].ckpt, processed)
    BY <1>3, <2>1 DEF Crash, TypeOK, CheckpointInv
  <2>4. \A v \in Workers, d \in Consumers :
          /\ CoveredBy(conPos'[v][d], processed)
          /\ CoveredBy(conShard'[v][d].ckpt, processed)
          /\ CoveredBy(renReq'[v][d].ckpt, processed)
    BY <1>3, <2>1 DEF Crash, TypeOK, CheckpointInv
  <2> QED
    BY <2>2, <2>3, <2>4 DEF CheckpointInv, CheckpointCovered
<1> QED
  BY <1>1, <1>2, <1>3

\* CheckpointInv is inductive.
THEOREM CheckpointInvariant == Spec => []CheckpointInv
<1>1. Init => CheckpointInv
  BY CoveredFacts DEF Init, CheckpointInv, CheckpointCovered
<1>2. TypeOK /\ CheckpointInv /\ [Next]_vars => CheckpointInv'
  <2> SUFFICES ASSUME TypeOK, CheckpointInv, [Next]_vars
               PROVE  CheckpointInv'
    OBVIOUS
  <2>1. CASE Next
    BY <2>1, LoopCovered, ConCovered, RenewCovered, EnvironmentCovered DEF Next
  <2>2. CASE UNCHANGED vars
    BY <2>2
       DEF vars, loopVars, claimVars, conVars, renVars, CheckpointInv, CheckpointCovered
  <2> QED
    BY <2>1, <2>2
<1> QED
  BY <1>1, <1>2, TypeCorrect, PTL DEF Spec

\* At-least-once delivery, whatever is lost, delayed or reordered: the table
\* never holds a checkpoint beyond a record that no processor has been given.
THEOREM AtLeastOnce == Spec => []CheckpointCovered
<1>1. CheckpointInv => CheckpointCovered
  BY DEF CheckpointInv
<1> QED
  BY <1>1, CheckpointInvariant, PTL

-----------------------------------------------------------------------------
\* The abstract state, read through the mapping of ImplementsDelivery: what
\* OrderedDelivery says of a shard's checkpoint is what CoveredBy says.
LEMMA DeliveryMapping ==
  /\ \A k : Delivery!Covers("shard", k) <=> CoveredBy(k, processed)
  /\ Delivery!Finished("shard") = ShardEnd
  /\ Delivery!ParentOver("shard")
  BY DEF Delivery!Covers, Delivery!Finished, Delivery!ParentOver, CoveredBy,
         ShardEnd

\* A step that delivers no record is a checkpoint of the abstract shard, old
\* or new: whatever has been written to the row was covered.
LEMMA WriteIsSave ==
  ASSUME row' \in Item, CoveredBy(row'.ckpt, processed), processed' = processed
  PROVE  Delivery!Save("shard")
<1> DEFINE k == IF row'.ckpt = NoAttr THEN 0 ELSE row'.ckpt
<1>1. k \in 0 .. Delivery!Finished("shard")
  BY DeliveryMapping, BoundsAssumption
     DEF Item, Checkpoints, ShardEnd, NoAttr
<1>2. Delivery!Covers("shard", k)
  BY DeliveryMapping, CoveredFacts
<1> QED
  BY <1>1, <1>2 DEF Delivery!Save

\* Only ProcessRecords changes what has been processed, and it does so by the
\* record after the consumer's position, before anything is written.
LEMMA StepDelivers ==
  ASSUME TypeOK, CheckpointInv, [Next]_vars, processed' # processed
  PROVE  Delivery!Deliver("shard")
<1>1. PICK w \in Workers, c \in Consumers : ConDeliver(w, c)
  BY DEF Next, vars, LoopStep, LoopFetch, LoopRead, LoopPut, LoopSet, RebalanceScan,
         RebalanceSync, RebalanceCached, ClaimFetch, ClaimRead, ClaimPut, LoopExit,
         ConStep, ConStart, ConSave, ConPollEmpty, ConPollFails, ConClosed,
         ConSelect, ConSaveLast, ConRelease, RenewStep, RenewFire,
         RenewCancel, RenewRead, RenewPut, RenewSet, Tick, Shutdown, Crash
<1> DEFINE r == conPos[w][c] + 1
<1>2. /\ r \in 1 .. LastRecord
      /\ r - 1 = conPos[w][c]
      /\ row' = row /\ processed' = processed \cup {r}
  <2>1. conPos[w][c] \in 0 .. LastRecord
    BY DEF TypeOK
  <2>2. /\ conPos[w][c] < LastRecord
        /\ row' = row /\ processed' = processed \cup {r}
    BY <1>1 DEF ConDeliver
  <2> QED
    BY <2>1, <2>2, BoundsAssumption
<1>3. Delivery!Covers("shard", r - 1)
  BY <1>2, DeliveryMapping DEF CheckpointInv
<1> HIDE DEF r
<1> QED
  BY <1>2, <1>3, DeliveryMapping DEF Delivery!Deliver

\* The goroutines of the workers, with their stale caches, late and lost
\* writes and crashes, implement ordered delivery of the shard: records are
\* delivered in order and none is skipped, wherever a consumer starts.
THEOREM DeliveryImplemented == Spec => ImplementsDelivery
<1>1. Init => Delivery!Init
  BY BoundsAssumption DEF Init, Delivery!Init, NoItem, NoAttr
<1>2. /\ TypeOK /\ TypeOK'
      /\ CheckpointInv /\ CheckpointInv'
      /\ [Next]_vars
      => [Delivery!Next]_(Delivery!vars)
  <2> SUFFICES ASSUME TypeOK, TypeOK', CheckpointInv, CheckpointInv', [Next]_vars
               PROVE  Delivery!Next
    OBVIOUS
  <2>1. CASE processed' = processed
    <3>1. row' \in Item /\ CoveredBy(row'.ckpt, processed)
      BY <2>1 DEF TypeOK, CheckpointInv, CheckpointCovered
    <3> QED
      BY <2>1, <3>1, WriteIsSave DEF Delivery!Next
  <2>2. CASE processed' # processed
    BY <2>2, StepDelivers DEF Delivery!Next
  <2> QED
    BY <2>1, <2>2
<1> QED
  BY <1>1, <1>2, TypeCorrect, CheckpointInvariant, PTL
     DEF Spec, ImplementsDelivery, Delivery!Spec

-----------------------------------------------------------------------------
\* What the abstract specification comes to, for this shard.
Promise == INSTANCE DeliveryProofs WITH
  Shards    <- {"shard"},
  NoShard   <- "none",
  Parent    <- [s \in {"shard"} |-> "none"],
  Records   <- [s \in {"shard"} |-> LastRecord],
  listed    <- {"shard"},
  processed <- [s \in {"shard"} |-> processed],
  saved     <- [s \in {"shard"} |-> IF row.ckpt = NoAttr THEN 0 ELSE row.ckpt]

\* At any time the records that some worker's processor has been given are the
\* first ones of the shard, none left out, and the row holds no checkpoint
\* beyond them, whichever goroutines and processes have come and gone.
THEOREM DeliveredInOrder == Spec => []Promise!DeliveryInv
<1>1. [s \in {"shard"} |-> LastRecord] \in [{"shard"} -> Nat]
  BY BoundsAssumption
<1>2. Promise!Spec => []Promise!DeliveryInv
  BY <1>1, Promise!DeliveredPrefix, PTL
<1>3. Delivery!Init => Promise!Init
  BY DEF Delivery!Init, Promise!Init
<1>4. [Delivery!Next]_(Delivery!vars) => [Promise!Next]_(Promise!vars)
  BY DEF Delivery!Next, Promise!Next, Delivery!vars, Promise!vars,
         Delivery!Deliver, Promise!Deliver, Delivery!Save, Promise!Save,
         Delivery!Forget, Promise!Forget, Delivery!Reshard, Promise!Reshard,
         Delivery!ParentOver, Promise!ParentOver, Delivery!Covers, Promise!Covers,
         Delivery!Finished, Promise!Finished
<1> QED
  BY <1>2, <1>3, <1>4, DeliveryImplemented, PTL
     DEF ImplementsDelivery, Delivery!Spec, Promise!Spec

-----------------------------------------------------------------------------
\* Only these steps write the row.
LEMMA RowWriters ==
  ASSUME [Next]_vars, row' # row
  PROVE  \E w \in Workers :
           \/ LoopPut(w) \/ ClaimPut(w)
           \/ \E c \in Consumers :
                ConSave(w, c) \/ ConSaveLast(w, c) \/ ConRelease(w, c) \/ RenewPut(w, c)
<1>1. ASSUME NEW w \in Workers, LoopStep(w)
      PROVE  LoopPut(w) \/ ClaimPut(w)
  BY <1>1, Zenon
     DEF LoopStep, LoopFetch, LoopRead, LoopSet, RebalanceScan, RebalanceSync,
         RebalanceCached, ClaimFetch, ClaimRead, LoopExit
<1>2. ASSUME NEW w \in Workers, NEW c \in Consumers, ConStep(w, c)
      PROVE  ConSave(w, c) \/ ConSaveLast(w, c) \/ ConRelease(w, c)
  BY <1>2, Zenon
     DEF ConStep, ConStart, ConDeliver, ConPollEmpty, ConPollFails, ConClosed,
         ConSelect
<1>3. ASSUME NEW w \in Workers, NEW c \in Consumers, RenewStep(w, c)
      PROVE  RenewPut(w, c)
  BY <1>3, Zenon DEF RenewStep, RenewFire, RenewCancel, RenewRead, RenewSet
<1>4. ASSUME NEW w \in Workers, Shutdown(w) \/ Crash(w)
      PROVE  FALSE
  BY <1>4, Zenon DEF Shutdown, Crash
<1>5. ~Tick /\ ~UNCHANGED vars
  BY DEF Tick, vars
<1> QED
  BY <1>1, <1>2, <1>3, <1>4, <1>5, Zenon DEF Next

\* A step that completes the PutItem of a GetLease of v, and changes the row,
\* met the condition of a request of v.
LEMMA LeaseWriters ==
  ASSUME TypeOK, [Next]_vars, NEW v \in Workers, LeaseWritten(v)
  PROVE  \/ GetLeaseCondition(row, loopReq[v])
         \/ \E c \in Consumers : GetLeaseCondition(row, renReq[v][c])
<1>1. row' # row
  BY DEF LeaseWritten
<1>2. PICK w \in Workers :
           \/ LoopPut(w) \/ ClaimPut(w)
           \/ \E c \in Consumers :
                ConSave(w, c) \/ ConSaveLast(w, c) \/ ConRelease(w, c) \/ RenewPut(w, c)
  BY <1>1, RowWriters
<1>3. \/ loopPc[v] = "put" /\ loopPc'[v] # "put"
      \/ \E c \in Consumers : renPc[v][c] = "put" /\ renPc'[v][c] # "put"
  BY DEF LeaseWritten
<1>4. CASE LoopPut(w)
  <2>1. GetLeaseCondition(row, loopReq[w])
    BY <1>1, <1>4 DEF LoopPut, PutGranted, PutRefused, PutFails
  <2>2. /\ renPc' = renPc
        /\ w # v => loopPc'[v] = loopPc[v]
    BY <1>4 DEF LoopPut, AtLoop, renVars, TypeOK
  <2> QED
    BY <1>3, <2>1, <2>2
<1>5. CASE ClaimPut(w)
  <2>1. renPc' = renPc /\ loopPc[w] = "claim" /\ loopPc' = [loopPc EXCEPT ![w] = "sleep"]
    BY <1>5 DEF ClaimPut, AtLoop, renVars
  <2> QED
    BY <1>3, <2>1 DEF TypeOK
<1>6. ASSUME NEW c \in Consumers, ConSave(w, c) \/ ConRelease(w, c)
      PROVE  FALSE
  BY <1>3, <1>6 DEF ConSave, ConRelease, loopVars, renVars
<1>7. ASSUME NEW c \in Consumers, ConSaveLast(w, c)
      PROVE  FALSE
  <2>1. loopPc' = loopPc /\ Return(w, c, cache[w])
    BY <1>7 DEF ConSaveLast, loopVars
  <2>2. renPc' = [renPc EXCEPT ![w][c] =
                    IF renPc[w][c] = "failed" THEN "off" ELSE renPc[w][c]]
    BY <2>1 DEF Return, AtRen
  <2>3. \A d \in Consumers : renPc[v][d] = "put" => renPc'[v][d] = "put"
    BY <2>2 DEF TypeOK
  <2> QED
    BY <1>3, <2>1, <2>3
<1>8. ASSUME NEW c \in Consumers, RenewPut(w, c)
      PROVE  v = w /\ GetLeaseCondition(row, renReq[w][c])
  <2>1. GetLeaseCondition(row, renReq[w][c])
    BY <1>1, <1>8, Zenon DEF RenewPut, PutGranted, PutRefused, PutFails
  <2>2. /\ loopPc' = loopPc
        /\ \E p : renPc' = [renPc EXCEPT ![w][c] = p]
    BY <1>8, Zenon DEF RenewPut, RenewFails, AtRen, loopVars
  <2>3. w # v => renPc'[v] = renPc[v]
    BY <2>2 DEF TypeOK
  <2> QED
    BY <1>3, <2>1, <2>2, <2>3
<1> QED
  BY <1>2, <1>4, <1>5, <1>6, <1>7, <1>8

\* Time does not run backwards.
LEMMA TimePasses ==
  ASSUME TypeOK, [Next]_vars
  PROVE  now \in Nat /\ now' \in Nat /\ now <= now'
<1>1. ASSUME NEW w \in Workers, LoopStep(w)
      PROVE  now' = now
  BY <1>1, Zenon
     DEF LoopStep, LoopFetch, LoopRead, LoopPut, LoopSet, RebalanceScan,
         RebalanceSync, RebalanceCached, ClaimFetch, ClaimRead, ClaimPut, LoopExit
<1>2. ASSUME NEW w \in Workers, NEW c \in Consumers, ConStep(w, c)
      PROVE  now' = now
  BY <1>2, Zenon
     DEF ConStep, ConStart, ConDeliver, ConSave, ConPollEmpty, ConPollFails,
         ConClosed, ConSelect, ConSaveLast, ConRelease
<1>3. ASSUME NEW w \in Workers, NEW c \in Consumers, RenewStep(w, c)
      PROVE  now' = now
  BY <1>3, Zenon
     DEF RenewStep, RenewFire, RenewCancel, RenewRead, RenewPut, RenewSet
<1>4. ASSUME NEW w \in Workers, Shutdown(w) \/ Crash(w)
      PROVE  now' = now
  BY <1>4, Zenon DEF Shutdown, Crash
<1>5. now' = now \/ now' = now + 1
  BY <1>1, <1>2, <1>3, <1>4, Zenon DEF Next, Tick, vars
<1> QED
  BY <1>5 DEF TypeOK

\* What worker w may send as the request of a GetLease after a step from
\* `old': the same, none, or one it decides on in this step.
RequestFrom(w, old, new) ==
  \/ new = old
  \/ new = NoRequest
  \/ /\ ~GetLeaseRefused(row, cache[w], w, now)
     /\ new = GetLeaseRequest(row, cache[w], w, now)

\* Requests come from GetLease's decision, in the event loop's requests ...
LEMMA LoopRequests ==
  ASSUME TypeOK, [Next]_vars
  PROVE  \A v \in Workers : RequestFrom(v, loopReq[v], loopReq'[v])
<1> SUFFICES ASSUME NEW v \in Workers
             PROVE  RequestFrom(v, loopReq[v], loopReq'[v])
  OBVIOUS
<1>1. ASSUME NEW w \in Workers, LoopStep(w)
      PROVE  RequestFrom(v, loopReq[v], loopReq'[v])
  <2>1. CASE LoopRead(w)
    <3>1. \/ loopReq' = loopReq
          \/ /\ ~GetLeaseRefused(row, cache[w], w, now)
             /\ loopReq' = [loopReq EXCEPT ![w] = GetLeaseRequest(row, cache[w], w, now)]
      BY <2>1, Zenon DEF LoopRead
    <3> QED
      BY <3>1, Zenon DEF RequestFrom, TypeOK
  <2>2. CASE ~LoopRead(w)
    <3>1. loopReq' = loopReq \/ loopReq' = [loopReq EXCEPT ![w] = NoRequest]
      BY <1>1, <2>2, Zenon
         DEF LoopStep, LoopFetch, LoopPut, LoopSet, RebalanceScan,
             RebalanceSync, RebalanceCached, ClaimFetch, ClaimRead, ClaimPut, LoopExit
    <3> QED
      BY <3>1, Zenon DEF RequestFrom, TypeOK
  <2> QED
    BY <2>1, <2>2
<1>2. ASSUME NEW w \in Workers, NEW c \in Consumers, ConStep(w, c) \/ RenewStep(w, c)
      PROVE  loopReq' = loopReq
  <2>1. UNCHANGED loopVars
    BY <1>2, Zenon
       DEF ConStep, ConStart, ConDeliver, ConSave, ConPollEmpty, ConPollFails,
           ConClosed, ConSelect, ConSaveLast, ConRelease,
           RenewStep, RenewFire, RenewCancel, RenewRead, RenewPut, RenewSet
  <2> QED
    BY <2>1 DEF loopVars
<1>3. ASSUME NEW w \in Workers, Shutdown(w) \/ Crash(w)
      PROVE  loopReq' = loopReq \/ loopReq' = [loopReq EXCEPT ![w] = NoRequest]
  BY <1>3 DEF Shutdown, Crash, loopVars
<1>4. Tick \/ UNCHANGED vars => loopReq' = loopReq
  BY DEF Tick, vars, loopVars
<1>5. \/ \E w \in Workers : LoopStep(w)
      \/ loopReq' = loopReq
      \/ \E w \in Workers : loopReq' = [loopReq EXCEPT ![w] = NoRequest]
  BY <1>2, <1>3, <1>4, Zenon DEF Next
<1> QED
  BY <1>1, <1>5, Zenon DEF RequestFrom, TypeOK

\* ... and in the renewal goroutines'.
LEMMA RenewRequests ==
  ASSUME TypeOK, [Next]_vars
  PROVE  \A v \in Workers, d \in Consumers :
           RequestFrom(v, renReq[v][d], renReq'[v][d])
<1> SUFFICES ASSUME NEW v \in Workers, NEW d \in Consumers
             PROVE  RequestFrom(v, renReq[v][d], renReq'[v][d])
  OBVIOUS
<1>1. ASSUME NEW w \in Workers, NEW c \in Consumers, RenewStep(w, c)
      PROVE  RequestFrom(v, renReq[v][d], renReq'[v][d])
  <2>1. CASE RenewRead(w, c)
    <3>1. \/ renReq' = renReq
          \/ /\ ~GetLeaseRefused(row, cache[w], w, now)
             /\ renReq' = [renReq EXCEPT ![w][c] = GetLeaseRequest(row, cache[w], w, now)]
      BY <2>1, Zenon DEF RenewRead
    <3> DEFINE req == GetLeaseRequest(row, cache[w], w, now)
    <3>2. renReq' = [renReq EXCEPT ![w][c] = req]
            => renReq'[v][d] = IF v = w /\ d = c THEN req ELSE renReq[v][d]
      <4> HIDE DEF req
      <4> QED
        BY DEF TypeOK
    <3> QED
      BY <3>1, <3>2, Zenon DEF RequestFrom
  <2>2. CASE ~RenewRead(w, c)
    <3>1. renReq' = renReq \/ renReq' = [renReq EXCEPT ![w][c] = NoRequest]
      BY <1>1, <2>2, Zenon
         DEF RenewStep, RenewFire, RenewCancel, RenewPut, RenewSet
    <3>2. renReq' = [renReq EXCEPT ![w][c] = NoRequest]
            => renReq'[v][d] \in {NoRequest, renReq[v][d]}
      BY DEF TypeOK
    <3> QED
      BY <3>1, <3>2, Zenon DEF RequestFrom
  <2> QED
    BY <2>1, <2>2
<1>2. ASSUME NEW w \in Workers, LoopStep(w)
      PROVE  renReq' = renReq
  <2>1. UNCHANGED renVars
    BY <1>2, Zenon
       DEF LoopStep, LoopFetch, LoopRead, LoopPut, LoopSet, RebalanceScan,
           RebalanceSync, RebalanceCached, ClaimFetch, ClaimRead, ClaimPut, LoopExit
  <2> QED
    BY <2>1 DEF renVars
<1>3. ASSUME NEW w \in Workers, NEW c \in Consumers, ConStep(w, c)
      PROVE  renReq' = renReq
  <2>1. UNCHANGED renVars \/ UNCHANGED renReq
    BY <1>3, Zenon
       DEF ConStep, ConStart, ConDeliver, ConSave, ConPollEmpty, ConPollFails,
           ConClosed, ConSelect, ConSaveLast, ConRelease
  <2> QED
    BY <2>1 DEF renVars
<1>4. ASSUME NEW w \in Workers, Shutdown(w) \/ Crash(w)
      PROVE  renReq'[v][d] \in {renReq[v][d], NoRequest}
  <2>1. CASE Shutdown(w)
    BY <2>1 DEF Shutdown, renVars
  <2>2. CASE Crash(w)
    BY <2>2 DEF Crash, TypeOK
  <2> QED
    BY <1>4, <2>1, <2>2
<1>5. Tick \/ UNCHANGED vars => renReq' = renReq
  BY DEF Tick, vars, renVars
<1>6. \/ \E w \in Workers, c \in Consumers : RenewStep(w, c)
      \/ renReq'[v][d] \in {renReq[v][d], NoRequest}
  BY <1>2, <1>3, <1>4, <1>5, Zenon DEF Next
<1> QED
  BY <1>1, <1>6, Zenon DEF RequestFrom

\* Without lease stealing, a request that would write over another worker's
\* lease stays one that has seen it expired: time passes, and what was expired
\* when the row was read still is when the PutItem arrives.
LEMMA RequestsStayExpired ==
  ASSUME ~EnableLeaseStealing, TypeOK, RequestsExpired, [Next]_vars
  PROVE  RequestsExpired'
<1>1. ASSUME NEW w \in Workers, NEW old \in LeaseRequest, NEW new,
             RequestExpired(w, old), RequestFrom(w, old, new)
      PROVE  new.ifOwner \in Workers \ {w} => new.ifTimeout <= now'
  <2>1. now \in Nat /\ now' \in Nat /\ now <= now'
    BY TimePasses
  <2>2. CASE new = old
    BY <1>1, <2>1, <2>2 DEF RequestExpired, LeaseRequest, Times, NoAttr
  <2>3. CASE new = NoRequest
    BY <2>3, OwnersAssumption DEF NoRequest
  <2>4. CASE /\ ~GetLeaseRefused(row, cache[w], w, now)
             /\ new = GetLeaseRequest(row, cache[w], w, now)
    <3>1. row \in Item /\ cache[w] \in ShardStatus
      BY DEF TypeOK
    <3>2. new.ifTimeout \in Int
      BY <2>1, <2>4, <3>1, GetLeaseRequestType DEF LeaseRequest, Times, NoAttr
    <3>3. new.ifOwner \in Workers \ {w} => new.ifTimeout <= now
      BY <2>1, <2>4, <3>1, RequestOnlyExpired
    <3> QED
      BY <2>1, <3>2, <3>3
  <2> QED
    BY <1>1, <2>2, <2>3, <2>4 DEF RequestFrom
<1>2. ASSUME NEW w \in Workers
      PROVE  RequestExpired(w, loopReq[w])'
  <2>1. /\ loopReq[w] \in LeaseRequest
        /\ RequestExpired(w, loopReq[w])
        /\ RequestFrom(w, loopReq[w], loopReq'[w])
    BY LoopRequests DEF TypeOK, RequestsExpired
  <2> QED
    BY <1>1, <2>1, Zenon DEF RequestExpired
<1>3. ASSUME NEW w \in Workers, NEW c \in Consumers
      PROVE  RequestExpired(w, renReq[w][c])'
  <2>1. /\ renReq[w][c] \in LeaseRequest
        /\ RequestExpired(w, renReq[w][c])
        /\ RequestFrom(w, renReq[w][c], renReq'[w][c])
    BY RenewRequests DEF TypeOK, RequestsExpired
  <2> QED
    BY <1>1, <2>1, Zenon DEF RequestExpired
<1> QED
  BY <1>2, <1>3 DEF RequestsExpired

\* Mutual exclusion of lease owners: GetLease never writes over a lease that
\* another worker holds and that has not expired, when stealing is off.
THEOREM LiveLeaseSafe == ASSUME ~EnableLeaseStealing
                         PROVE  Spec => LiveLeaseNotTaken
<1>1. Init => RequestsExpired
  <2>1. NoRequest.ifOwner \notin Workers
    BY OwnersAssumption DEF NoRequest
  <2>2. Init => /\ loopReq = [w \in Workers |-> NoRequest]
                /\ renReq = [w \in Workers |-> [c \in Consumers |-> NoRequest]]
    BY Zenon DEF Init
  <2>3. Init => \A v \in Workers : /\ loopReq[v] = NoRequest
                                  /\ \A d \in Consumers : renReq[v][d] = NoRequest
    BY <2>2, Zenon
  <2> QED
    BY <2>1, <2>3, Zenon DEF RequestsExpired, RequestExpired
<1>2. TypeOK /\ RequestsExpired /\ [Next]_vars => RequestsExpired'
  BY RequestsStayExpired
<1>3. TypeOK /\ RequestsExpired /\ [Next]_vars
        => \A w \in Workers :
             LeaseWritten(w) /\ row.owner \in Workers \ {w} => row.timeout <= now
  <2> SUFFICES ASSUME TypeOK, RequestsExpired, [Next]_vars,
                      NEW w \in Workers, LeaseWritten(w),
                      row.owner \in Workers \ {w}
               PROVE  row.timeout <= now
    OBVIOUS
  <2>1. ASSUME NEW req, RequestExpired(w, req), GetLeaseCondition(row, req)
        PROVE  row.timeout <= now
    BY <2>1, OwnersAssumption DEF RequestExpired, GetLeaseCondition
  <2> QED
    BY <2>1, LeaseWriters DEF RequestsExpired
<1> QED
  BY <1>1, <1>2, <1>3, TypeCorrect, PTL DEF Spec, LiveLeaseNotTaken

\* A lease is released by a consumer of its owner only.
THEOREM ReleaseByOwner == Spec => OnlyOwnerReleases
<1>1. ASSUME TypeOK, [Next]_vars, NEW w \in Workers,
             row.owner = w, row'.owner = NoOwner
      PROVE  \E c \in Consumers : conPc[w][c] = "release"
  <2>1. row' # row
    BY <1>1, OwnersAssumption
  <2>2. PICK v \in Workers :
             \/ LoopPut(v) \/ ClaimPut(v)
             \/ \E c \in Consumers :
                  ConSave(v, c) \/ ConSaveLast(v, c) \/ ConRelease(v, c) \/ RenewPut(v, c)
    BY <1>1, <2>1, RowWriters
  <2>3. ASSUME NEW req, row' = GetLeaseItem(req, v)
        PROVE  FALSE
    BY <1>1, <2>3, OwnersAssumption DEF GetLeaseItem
  <2>4. CASE LoopPut(v)
    BY <2>1, <2>3, <2>4, Zenon DEF LoopPut, PutGranted, PutRefused, PutFails
  <2>5. CASE ClaimPut(v)
    <3>1. /\ ClaimCondition(row, loopShard[v], loopIf[v])
          /\ row' = ClaimItem(loopShard[v], v)
      BY <2>1, <2>5, Zenon DEF ClaimPut
    <3> QED
      BY <1>1, <3>1, OwnersAssumption
         DEF ClaimCondition, ClaimItem, TypeOK, ShardStatus
  <2>6. ASSUME NEW c \in Consumers, ConSave(v, c) \/ ConSaveLast(v, c)
        PROVE  FALSE
    <3>1. row' = CheckpointItem(conShard[v][c])
      BY <2>1, <2>6, Zenon DEF ConSave, ConSaveLast, SaveItem
    <3> QED
      BY <1>1, <3>1, OwnersAssumption DEF CheckpointItem, TypeOK, ShardStatus
  <2>7. ASSUME NEW c \in Consumers, ConRelease(v, c)
        PROVE  v = w /\ conPc[v][c] = "release"
    BY <1>1, <2>1, <2>7 DEF ConRelease, RemoveLeaseOwner
  <2>8. ASSUME NEW c \in Consumers, RenewPut(v, c)
        PROVE  FALSE
    BY <2>1, <2>3, <2>8, Zenon DEF RenewPut, PutGranted, PutRefused, PutFails
  <2> QED
    BY <2>2, <2>4, <2>5, <2>6, <2>7, <2>8
<1>2. TypeOK /\ [Next]_vars
        => \A w \in Workers :
             row.owner = w /\ row'.owner = NoOwner =>
               \E c \in Consumers : conPc[w][c] = "release"
  BY <1>1
<1> QED
  BY <1>2, TypeCorrect, PTL DEF Spec, OnlyOwnerReleases

-----------------------------------------------------------------------------
\* The steps that can touch what ClaimAlone speaks of, for a worker v: while v
\* claims alone no consumer of v starts or changes the cached checkpoint.
LEMMA ClaimStaysAlone ==
  ASSUME TypeOK, ClaimAlone, [Next]_vars
  PROVE  ClaimAlone'
<1> DEFINE InClaim == {"timeout", "checkpoint", "owner", "condition", "claim"}
           Alone(v) == /\ \A c \in Consumers : conPc[v][c] = "off"
                       /\ loopPc[v] \in InClaim
                       /\ loopPc[v] \in {"owner", "condition", "claim"} =>
                            loopShard[v].ckpt = cache[v].ckpt
                       /\ loopPc[v] = "claim" => loopIf[v] = cache[v].ckpt
<1> SUFFICES ASSUME NEW v \in Workers, alone'[v]
             PROVE  Alone(v)'
  BY DEF ClaimAlone
<1>a. alone[v] => Alone(v)
  BY DEF ClaimAlone
<1>b. ASSUME alone[v],
             conPc'[v] = conPc[v], loopPc'[v] = loopPc[v],
             loopShard'[v] = loopShard[v], loopIf'[v] = loopIf[v],
             cache'[v].ckpt = cache[v].ckpt
      PROVE  Alone(v)'
  BY <1>a, <1>b
<1>1. ASSUME NEW w \in Workers, LoopStep(w), w # v
      PROVE  Alone(v)'
  <2>1. /\ alone' = alone \/ \E b : alone' = [alone EXCEPT ![w] = b]
        /\ loopPc' = loopPc \/ \E p : loopPc' = [loopPc EXCEPT ![w] = p]
        /\ loopIf' = loopIf \/ \E k : loopIf' = [loopIf EXCEPT ![w] = k]
        /\ cache' = cache \/ \E s : cache' = [cache EXCEPT ![w] = s]
    BY <1>1, Zenon
       DEF LoopStep, LoopFetch, LoopRead, LoopPut, LoopSet, RebalanceScan,
           RebalanceSync, RebalanceCached, ClaimFetch, ClaimRead, ClaimPut,
           LoopExit, AtLoop, claimVars
  <2>2. loopShard'[v] = loopShard[v]
    BY <1>1
       DEF LoopStep, LoopFetch, LoopRead, LoopPut, LoopSet, RebalanceScan,
           RebalanceSync, RebalanceCached, ClaimFetch, ClaimRead, ClaimPut,
           LoopExit, claimVars, TypeOK
  <2>3. conPc'[v] = conPc[v]
    BY <1>1
       DEF LoopStep, LoopFetch, LoopRead, LoopPut, LoopSet, RebalanceScan,
           RebalanceSync, RebalanceCached, ClaimFetch, ClaimRead, ClaimPut,
           LoopExit, AtCon, conVars, TypeOK
  <2> QED
    BY <1>b, <1>1, <2>1, <2>2, <2>3 DEF TypeOK
<1>2. ASSUME LoopStep(v)
      PROVE  Alone(v)'
  <2>1. CASE ClaimFetch(v)
    <3>1. CASE alone' = alone
      BY <1>a, <2>1, <3>1 DEF ClaimFetch
    <3>2. CASE /\ alone' = [alone EXCEPT ![v] = \A c \in Consumers : conPc[v][c] = "off"]
               /\ AtLoop(v, "timeout")
      <4>1. conPc' = conPc /\ loopPc'[v] = "timeout"
        BY <2>1, <3>2 DEF ClaimFetch, AtLoop, conVars, TypeOK
      <4> QED
        BY <3>2, <4>1 DEF TypeOK
    <3> QED
      BY <2>1, <3>1, <3>2, Zenon DEF ClaimFetch
  <2>2. CASE ClaimRead(v)
    <3>1. alone[v] /\ UNCHANGED <<alone, cache, conPc>>
      BY <2>2 DEF ClaimRead, conVars
    <3>2. loopShard[v] \in ShardStatus /\ v \in DOMAIN loopPc /\ v \in DOMAIN loopIf
      BY DEF TypeOK
    <3> QED
      BY <1>a, <2>2, <3>1, <3>2 DEF ClaimRead, AtLoop, TypeOK, ShardStatus
  <2>3. CASE ClaimPut(v)
    BY <2>3 DEF ClaimPut, TypeOK
  <2>4. CASE ~ClaimFetch(v) /\ ~ClaimRead(v) /\ ~ClaimPut(v)
    <3>1. loopPc[v] \in {"sleep", "read", "put", "set", "sync"} /\ alone' = alone
      BY <1>2, <2>4
         DEF LoopStep, LoopFetch, LoopRead, LoopPut, LoopSet, RebalanceScan,
             RebalanceSync, RebalanceCached, LoopExit, claimVars
    <3> QED
      BY <1>a, <3>1
  <2> QED
    BY <2>1, <2>2, <2>3, <2>4
<1>3. ASSUME NEW w \in Workers, NEW c \in Consumers, ConStep(w, c)
      PROVE  Alone(v)'
  <2>1. conPc[w][c] # "off" /\ UNCHANGED loopVars
    BY <1>3
       DEF ConStep, ConStart, ConDeliver, ConSave, ConPollEmpty, ConPollFails,
           ConClosed, ConSelect, ConSaveLast, ConRelease
  <2>2. w # v
    BY <1>a, <2>1 DEF loopVars, claimVars
  <2>3. /\ conPc'[v] = conPc[v]
        /\ cache'[v] = cache[v]
    BY <1>3, <2>2
       DEF ConStep, ConStart, ConDeliver, ConSave, ConPollEmpty, ConPollFails,
           ConClosed, ConSelect, ConSaveLast, ConRelease, Return, Checkpoint,
           AtCon, TypeOK
  <2> QED
    BY <1>b, <2>1, <2>3 DEF loopVars, claimVars
<1>4. ASSUME NEW w \in Workers, NEW c \in Consumers, RenewStep(w, c)
      PROVE  Alone(v)'
  <2>1. UNCHANGED <<loopVars, conVars>>
    BY <1>4, Zenon
       DEF RenewStep, RenewFire, RenewCancel, RenewRead, RenewPut, RenewSet
  <2>2. \/ cache' = cache
        \/ cache' = [cache EXCEPT ![w] = GetLeaseGranted(cache[w], renReq[w][c], w)]
    BY <1>4, Zenon
       DEF RenewStep, RenewFire, RenewCancel, RenewRead, RenewPut, RenewSet
  <2>3. cache'[v].ckpt = cache[v].ckpt
    <3>1. cache \in [Workers -> ShardStatus]
      BY DEF TypeOK
    <3>2. GetLeaseGranted(cache[w], renReq[w][c], w).ckpt = cache[w].ckpt
      BY <3>1 DEF GetLeaseGranted, ShardStatus
    <3> QED
      BY <2>2, <3>1, <3>2
  <2> QED
    BY <1>b, <2>1, <2>3 DEF loopVars, claimVars, conVars
<1>5. ASSUME NEW w \in Workers, Crash(w)
      PROVE  Alone(v)'
  <2>1. w # v
    BY <1>5 DEF Crash, TypeOK
  <2> QED
    BY <1>b, <1>5, <2>1 DEF Crash, AtLoop, TypeOK
<1>6. CASE Tick \/ (\E w \in Workers : Shutdown(w)) \/ UNCHANGED vars
  BY <1>b, <1>6 DEF Tick, Shutdown, vars, loopVars, claimVars, conVars
<1> QED
  BY <1>1, <1>2, <1>3, <1>4, <1>5, <1>6 DEF Next

\* A claim leaves the owner and its lease as they are, and a worker that has
\* no consumer does not move the checkpoint back by it.
THEOREM ClaimSafe == Spec => ClaimKeepsLease
<1>1. ASSUME TypeOK, ClaimAlone, [Next]_vars,
             NEW w \in Workers, row'.claim = w, row.claim # w
      PROVE  /\ row'.owner = row.owner
             /\ row'.timeout = row.timeout
             /\ alone[w] => row'.ckpt >= row.ckpt
  <2>1. row' # row
    BY <1>1
  <2>2. PICK v \in Workers :
             \/ LoopPut(v) \/ ClaimPut(v)
             \/ \E c \in Consumers :
                  ConSave(v, c) \/ ConSaveLast(v, c) \/ ConRelease(v, c) \/ RenewPut(v, c)
    BY <1>1, <2>1, RowWriters
  <2>3. ASSUME NEW req, row' = GetLeaseItem(req, v)
        PROVE  FALSE
    BY <1>1, <2>3, OwnersAssumption DEF GetLeaseItem
  <2>4. CASE LoopPut(v)
    BY <2>1, <2>3, <2>4, Zenon DEF LoopPut, PutGranted, PutRefused, PutFails
  <2>5. CASE ClaimPut(v)
    <3>1. /\ ClaimCondition(row, loopShard[v], loopIf[v])
          /\ row' = ClaimItem(loopShard[v], v)
      BY <2>1, <2>5, Zenon DEF ClaimPut
    <3>2. row \in Item /\ loopShard[v] \in ShardStatus /\ loopIf[v] \in Checkpoints
      BY <1>1 DEF TypeOK
    <3>3. v = w /\ loopPc[v] = "claim"
      BY <1>1, <2>5, <3>1 DEF ClaimItem, ClaimPut
    <3>4. alone[w] => loopIf[v] = loopShard[v].ckpt
      BY <1>1, <3>3 DEF ClaimAlone
    <3> QED
      BY <3>1, <3>2, <3>3, <3>4, OwnersAssumption, BoundsAssumption
         DEF ClaimCondition, ClaimItem, Item, ShardStatus, Checkpoints, ShardEnd,
             NoAttr
  <2>6. ASSUME NEW c \in Consumers, ConSave(v, c) \/ ConSaveLast(v, c)
        PROVE  FALSE
    <3>1. row' = CheckpointItem(conShard[v][c])
      BY <2>1, <2>6, Zenon DEF ConSave, ConSaveLast, SaveItem
    <3> QED
      BY <1>1, <3>1, OwnersAssumption DEF CheckpointItem
  <2>7. ASSUME NEW c \in Consumers, ConRelease(v, c)
        PROVE  FALSE
    BY <1>1, <2>1, <2>7 DEF ConRelease, RemoveLeaseOwner, TypeOK, Item
  <2>8. ASSUME NEW c \in Consumers, RenewPut(v, c)
        PROVE  FALSE
    BY <2>1, <2>3, <2>8, Zenon DEF RenewPut, PutGranted, PutRefused, PutFails
  <2> QED
    BY <2>2, <2>4, <2>5, <2>6, <2>7, <2>8
<1>2. TypeOK /\ ClaimAlone /\ [Next]_vars
        => \A w \in Workers :
             row'.claim = w /\ row.claim # w =>
               /\ row'.owner = row.owner
               /\ row'.timeout = row.timeout
               /\ alone[w] => row'.ckpt >= row.ckpt
  BY <1>1
<1>3. Init => ClaimAlone
  BY DEF Init, ClaimAlone
<1>4. TypeOK /\ ClaimAlone /\ [Next]_vars => ClaimAlone'
  BY ClaimStaysAlone
<1> QED
  BY <1>2, <1>3, <1>4, TypeCorrect, PTL DEF Spec, ClaimKeepsLease
=============================================================================
