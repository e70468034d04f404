---------------------------- MODULE FanOutProofs ----------------------------
(***************************************************************************)
(* Theorems of FanOutConsumer, for every set of workers, length of the     *)
(* shard, lease duration and number of failures.                           *)
(***************************************************************************)
EXTENDS FanOutConsumer, LeaseTableTheorems

\* What getRecords' deferred calls leave behind, whatever the cached status
\* they start from, is well typed.
LEMMA ReturnTypes ==
  ASSUME TypeOK, NEW w \in Workers, NEW shard \in ShardStatus, Return(w, shard)
  PROVE  /\ cache' \in [Workers -> ShardStatus]
         /\ pc' \in [Workers -> Pcs]
         /\ open' \in [Workers -> Nat]
         /\ ended' \in [Workers -> BOOLEAN]
         /\ at' \in [Workers -> 0 .. LastRecord]
         /\ cont' \in [Workers -> 0 .. LastRecord \cup {NoCont}]
<1> USE DEF TypeOK
<1>1. Released(shard) \in ShardStatus
  BY DEF Released, ShardStatus
<1>2. cache' \in [Workers -> ShardStatus]
  BY <1>1 DEF Return, SetCache
<1>3. pc' \in [Workers -> Pcs]
  BY DEF Return, Goto, Pcs
<1>4. open' \in [Workers -> Nat]
  BY DEF Return, CloseStream, Streams
<1>5. ended' \in [Workers -> BOOLEAN] /\ at' \in [Workers -> 0 .. LastRecord]
  BY BoundsAssumption DEF Return, Stream
<1>6. cont' \in [Workers -> 0 .. LastRecord \cup {NoCont}]
  BY DEF Return
<1> QED
  BY <1>2, <1>3, <1>4, <1>5, <1>6

\* Every step keeps the types: the event loop's, a consumer's start and the
\* release of its lease.
LEMMA LeaseTypes ==
  ASSUME TypeOK, NEW w \in Workers,
         LoopStep(w) \/ LoopExit(w) \/ Subscribe(w) \/ Release(w)
  PROVE  TypeOK'
<1> USE DEF TypeOK, SetCache, Goto, Works, Fails
<1>1. CASE LoopFetch(w)
  <2>1. FetchCheckpoint(row, cache[w]) \in ShardStatus
    BY FetchCheckpointType
  <2>2. cache' \in [Workers -> ShardStatus] /\ loop' \in [Workers -> LoopStates]
    BY <1>1, <2>1 DEF LoopFetch, LoopSees, LoopStates
  <2>3. faults' \in 0 .. MaxFaults
    BY <1>1, FanOutAssumption DEF LoopFetch
  <2> QED
    BY <1>1, <2>2, <2>3 DEF LoopFetch, conVars
<1>2. CASE GetLease(w)
  <2> DEFINE req == GetLeaseRequest(row, cache[w], w, Now)
  <2>1. req \in LeaseRequest /\ cache[w] \in ShardStatus
    BY GetLeaseRequestType, AgedType
  <2>2. \/ row' = GetLeaseItem(req, w) /\ SetCache(w, GetLeaseGranted(cache[w], req, w))
        \/ UNCHANGED <<row, cache>>
    BY <1>2, Zenon DEF GetLease
  <2> HIDE DEF req
  <2>a. GetLeaseItem(req, w) \in Item /\ GetLeaseGranted(cache[w], req, w) \in ShardStatus
    BY <2>1, GetLeaseItemType, GetLeaseGrantedType
  <2>3. row' \in Item /\ cache' \in [Workers -> ShardStatus]
    BY <2>2, <2>a
  <2>4. /\ loop' \in [Workers -> LoopStates] /\ pc' \in [Workers -> Pcs]
        /\ faults' \in 0 .. MaxFaults
    BY <1>2, FanOutAssumption DEF GetLease, LoopSees, LoopStates, Pcs
  <2> QED
    BY <1>2, <2>3, <2>4 DEF GetLease
<1>3. CASE LoopExit(w)
  BY <1>3 DEF LoopExit, conVars
<1>4. CASE Subscribe(w)
  <2> DEFINE shard == FetchCheckpoint(row, cache[w])
  <2>1. shard \in ShardStatus /\ cache[w] \in ShardStatus
    BY FetchCheckpointType
  <2>2. faults' \in 0 .. MaxFaults
    BY <1>4, FanOutAssumption DEF Subscribe
  <2>3. CASE Return(w, shard) \/ Return(w, cache[w])
    BY <1>4, <2>1, <2>2, <2>3, ReturnTypes DEF Subscribe
  <2>4. CASE /\ shard.ckpt # ShardEnd
             /\ SetCache(w, shard)
             /\ Stream(w, StartAfter(shard))
             /\ Streams(w, open[w] + 1)
             /\ Goto(w, "select")
             /\ UNCHANGED cont
    <3>1. StartAfter(shard) \in 0 .. LastRecord
      BY <2>1, <2>4, BoundsAssumption
         DEF StartAfter, ShardStatus, Checkpoints, ShardEnd
    <3>2. at' \in [Workers -> 0 .. LastRecord] /\ ended' \in [Workers -> BOOLEAN]
      BY <2>4, <3>1 DEF Stream
    <3>3. open' \in [Workers -> Nat]
      BY <2>4 DEF Streams
    <3>4. cache' \in [Workers -> ShardStatus] /\ pc' \in [Workers -> Pcs]
      BY <2>1, <2>4 DEF Pcs
    <3> QED
      BY <1>4, <2>2, <2>4, <3>2, <3>3, <3>4 DEF Subscribe
  <2> QED
    BY <1>4, <2>3, <2>4, Zenon DEF Subscribe
<1>5. CASE Release(w)
  <2>1. row' \in Item /\ faults' \in 0 .. MaxFaults
    BY <1>5, RemoveLeaseOwnerType, FanOutAssumption DEF Release
  <2>2. pc' \in [Workers -> Pcs]
    BY <1>5 DEF Release, Pcs
  <2> QED
    BY <1>5, <2>1, <2>2 DEF Release
<1> QED
  BY <1>1, <1>2, <1>3, <1>4, <1>5 DEF LoopStep

\* ... those of a consumer that has a stream ...
LEMMA StreamTypes ==
  ASSUME TypeOK, NEW w \in Workers,
         \/ Event(w) \/ Process(w) \/ Terminate(w) \/ Stop(w)
         \/ Refresh(w) \/ Resubscribe(w)
  PROVE  TypeOK'
<1> USE DEF TypeOK, SetCache, Goto, Works, Fails
<1>a. cache[w] \in ShardStatus
  OBVIOUS
<1>b. \A k \in Checkpoints : Checkpointed(w, k) \in ShardStatus
  BY <1>a DEF Checkpointed, ShardStatus
<1>c. 1 .. at[w] \subseteq Checkpoints /\ ShardEnd \in Checkpoints
  BY BoundsAssumption DEF Checkpoints, ShardEnd
<1>d. ASSUME NEW shard \in ShardStatus, Save(shard)
      PROVE  row' \in Item /\ faults' \in 0 .. MaxFaults
  BY <1>d, CheckpointItemType, FanOutAssumption DEF Save
<1>1. CASE Event(w)
  <2>1. PICK k \in {at[w], at[w] + 1} \cap 0 .. LastRecord :
           /\ at' = [at EXCEPT ![w] = k]
           /\ processed' = processed \cup (at[w] + 1) .. k
           /\ \/ cont' = [cont EXCEPT ![w] = k]
              \/ cont' = [cont EXCEPT ![w] = NoCont]
    BY <1>1, Zenon DEF Event
  <2>2. at' \in [Workers -> 0 .. LastRecord]
    BY <2>1
  <2>3. processed' \subseteq 1 .. LastRecord
    <3>1. at[w] \in 0 .. LastRecord
      OBVIOUS
    <3>2. (at[w] + 1) .. k \subseteq 1 .. LastRecord
      BY <3>1, BoundsAssumption
    <3> QED
      BY <2>1, <3>2
  <2>4. cont' \in [Workers -> 0 .. LastRecord \cup {NoCont}]
    BY <2>1
  <2>5. pc' \in [Workers -> Pcs]
    BY <1>1 DEF Event, Pcs
  <2> QED
    BY <1>1, <2>2, <2>3, <2>4, <2>5 DEF Event
<1>2. CASE Process(w)
  <2>1. /\ row' \in Item /\ faults' \in 0 .. MaxFaults
        /\ cache' \in [Workers -> ShardStatus]
    BY <1>2, <1>b, <1>c, <1>d DEF Process
  <2>2. pc' \in [Workers -> Pcs]
    BY <1>2 DEF Process, Pcs
  <2> QED
    BY <1>2, <2>1, <2>2 DEF Process
<1>3. CASE Terminate(w)
  BY <1>3, <1>a, <1>b, <1>c, <1>d, ReturnTypes DEF Terminate
<1>4. CASE Stop(w)
  BY <1>4, <1>a, <1>b, <1>c, <1>d, ReturnTypes DEF Stop
<1>5. CASE Refresh(w)
  <2> DEFINE req == GetLeaseRequest(row, cache[w], w, Now)
  <2>1. req \in LeaseRequest
    BY GetLeaseRequestType, AgedType
  <2>2. faults' \in 0 .. MaxFaults
    BY <1>5, FanOutAssumption DEF Refresh
  <2>3. CASE LeaseNotAcquired(w) /\ UNCHANGED row
    BY <1>5, <1>a, <2>2, <2>3, ReturnTypes DEF Refresh, LeaseNotAcquired
  <2>4. CASE /\ row' = GetLeaseItem(req, w)
             /\ SetCache(w, GetLeaseGranted(cache[w], req, w))
             /\ UNCHANGED <<pc, open, ended, at, cont>>
    <3> HIDE DEF req
    <3>1. row' \in Item /\ cache' \in [Workers -> ShardStatus]
      BY <2>1, <2>4, GetLeaseItemType, GetLeaseGrantedType
    <3> QED
      BY <1>5, <2>2, <2>4, <3>1 DEF Refresh
  <2> QED
    BY <1>5, <2>3, <2>4, Zenon DEF Refresh
<1>6. CASE Resubscribe(w)
  <2>1. faults' \in 0 .. MaxFaults
    BY <1>6, FanOutAssumption DEF Resubscribe
  <2>2. CASE Return(w, cache[w])
    BY <1>6, <1>a, <2>1, <2>2, ReturnTypes DEF Resubscribe
  <2>3. CASE /\ cont[w] # NoCont
             /\ Stream(w, FromContinuation(w))
             /\ UNCHANGED <<cache, pc, open, cont>>
    <3>1. at' \in [Workers -> 0 .. LastRecord] /\ ended' \in [Workers -> BOOLEAN]
      BY <2>3 DEF Stream, FromContinuation
    <3> QED
      BY <1>6, <2>1, <2>3, <3>1 DEF Resubscribe
  <2> QED
    BY <1>6, <2>2, <2>3, Zenon DEF Resubscribe
<1> QED
  BY <1>1, <1>2, <1>3, <1>4, <1>5, <1>6

\* ... and the environment's.
LEMMA EnvironmentTypes ==
  ASSUME TypeOK,
         Tick \/ \E w \in Workers : StreamEnds(w) \/ Shutdown(w) \/ Crash(w)
  PROVE  TypeOK'
<1> USE DEF TypeOK, SetCache, Goto, Fails
<1>1. CASE Tick
  <2>1. row' \in Item
    BY <1>1, AgedType DEF Tick
  <2>2. cache' \in [Workers -> ShardStatus]
    BY <1>1, AgedType DEF Tick
  <2> QED
    BY <1>1, <2>1, <2>2 DEF Tick, conVars
<1>2. ASSUME NEW w \in Workers, StreamEnds(w)
      PROVE  TypeOK'
  BY <1>2 DEF StreamEnds
<1>3. ASSUME NEW w \in Workers, Shutdown(w)
      PROVE  TypeOK'
  BY <1>3 DEF Shutdown, conVars
<1>4. ASSUME NEW w \in Workers, Crash(w)
      PROVE  TypeOK'
  <2>1. /\ cache' \in [Workers -> ShardStatus]
        /\ stop' \subseteq Stoppable /\ gone' \subseteq stop'
        /\ faults' \in 0 .. MaxFaults
    BY <1>4, InitialValuesType, FanOutAssumption DEF Crash
  <2>2. pc' \in [Workers -> Pcs]
    BY <1>4 DEF Crash, Pcs
  <2>3. open' \in [Workers -> Nat]
    BY <1>4 DEF Crash, Streams
  <2>4. ended' \in [Workers -> BOOLEAN] /\ at' \in [Workers -> 0 .. LastRecord]
    BY <1>4, BoundsAssumption DEF Crash, Stream
  <2>5. cont' \in [Workers -> 0 .. LastRecord \cup {NoCont}]
    BY <1>4 DEF Crash
  <2>6. loop' \in [Workers -> LoopStates]
    BY <1>4 DEF Crash, LoopSees, LoopStates
  <2> QED
    BY <1>4, <2>1, <2>2, <2>3, <2>4, <2>5, <2>6 DEF Crash
<1> QED
  BY <1>1, <1>2, <1>3, <1>4

\* Every variable keeps its type.
THEOREM TypeCorrect == Spec => []TypeOK
<1>1. Init => TypeOK
  BY InitialValuesType, BoundsAssumption, FanOutAssumption
     DEF Init, TypeOK, Pcs, LoopStates
<1>2. TypeOK /\ [Next]_vars => TypeOK'
  <2> SUFFICES ASSUME TypeOK, [Next]_vars
               PROVE  TypeOK'
    OBVIOUS
  <2>1. CASE Next
    BY <2>1, LeaseTypes, StreamTypes, EnvironmentTypes DEF Next, ConStep
  <2>2. CASE UNCHANGED vars
    BY <2>2 DEF TypeOK, vars, conVars
  <2> QED
    BY <2>1, <2>2
<1> QED
  BY <1>1, <1>2, PTL DEF Spec

-----------------------------------------------------------------------------
\* Between the event loop's FetchCheckpoint and its GetLease the worker has no
\* consumer.
LoopInv == \A w \in Workers : loop[w] = "fetched" => pc[w] = "off"

LEMMA LoopInvariant == Spec => []LoopInv
<1>1. Init => LoopInv
  BY DEF Init, LoopInv
<1>2. TypeOK /\ LoopInv /\ [Next]_vars => LoopInv'
  <2> SUFFICES ASSUME TypeOK, LoopInv, [Next]_vars
               PROVE  LoopInv'
    OBVIOUS
  <2> USE DEF TypeOK, LoopInv, Goto
  <2>1. CASE UNCHANGED <<loop, pc>>
    BY <2>1
  <2>2. ASSUME NEW w \in Workers, loop' = loop, pc[w] # "off",
               NEW p, pc' = [pc EXCEPT ![w] = p]
        PROVE  LoopInv'
    BY <2>2
  <2>3. ASSUME NEW w \in Workers, LoopStep(w) \/ Crash(w)
        PROVE  LoopInv'
    BY <2>3 DEF LoopStep, LoopFetch, GetLease, Crash, LoopSees, conVars
  <2>4. ASSUME NEW w \in Workers, ConStep(w) \/ Event(w) \/ Refresh(w)
        PROVE  LoopInv'
    <3>1. loop' = loop /\ pc[w] # "off"
      BY <2>4 DEF ConStep, Subscribe, Process, Terminate, Release, Stop, Resubscribe,
                  Event, Refresh
    <3>2. pc' = pc \/ \E p : pc' = [pc EXCEPT ![w] = p]
      BY <2>4, Zenon
         DEF ConStep, Subscribe, Process, Terminate, Release, Stop, Resubscribe,
             Event, Refresh, Return, LeaseNotAcquired
    <3> QED
      BY <2>1, <2>2, <3>1, <3>2
  <2> QED
    BY <2>1, <2>3, <2>4, Zenon
       DEF Next, vars, conVars, Tick, LoopExit, StreamEnds, Shutdown
<1> QED
  BY <1>1, <1>2, TypeCorrect, PTL DEF Spec

\* A worker has a stream exactly while its consumer is at the select or in a
\* call of its processor.
StreamInv ==
  \A w \in Workers :
    /\ open[w] \in {0, 1}
    /\ open[w] = 1 <=> pc[w] \in {"select", "process", "terminate"}

\* The continuation number is where the stream stands; it is only missing
\* after an event when the shard is closed.
PositionInv ==
  \A w \in Workers :
    /\ cont[w] # NoCont => cont[w] = at[w] /\ pc[w] \in {"select", "process"}
    /\ pc[w] = "process" /\ cont[w] = NoCont => at[w] = LastRecord
    /\ pc[w] = "terminate" => at[w] = LastRecord

\* Every checkpoint and every position is covered by what was processed.
CoveredInv ==
  /\ CoveredBy(row.ckpt, processed)
  /\ \A w \in Workers :
       CoveredBy(cache[w].ckpt, processed) /\ CoveredBy(at[w], processed)

\* A returning consumer closes the stream it has, and only that.
LEMMA ReturnCloses ==
  ASSUME TypeOK, StreamInv, PositionInv, NEW w \in Workers, NEW shard,
         Return(w, shard)
  PROVE  StreamInv' /\ PositionInv'
<1>1. /\ pc' = [pc EXCEPT ![w] = "release"]
      /\ open' = [open EXCEPT ![w] = IF open[w] = 0 THEN 0 ELSE open[w] - 1]
      /\ at' = [at EXCEPT ![w] = 0]
      /\ cont' = [cont EXCEPT ![w] = NoCont]
  BY DEF Return, Goto, CloseStream, Streams, Stream
<1>2. StreamInv'
  BY <1>1 DEF StreamInv, TypeOK
<1>3. PositionInv'
  BY <1>1 DEF PositionInv, TypeOK
<1> QED
  BY <1>2, <1>3

\* Both invariants are inductive: steps of a consumer.
LEMMA ConStreams ==
  ASSUME TypeOK, StreamInv, PositionInv, NEW w \in Workers,
         ConStep(w) \/ Event(w) \/ Refresh(w)
  PROVE  StreamInv' /\ PositionInv'
<1> USE DEF TypeOK
<1>1. CASE Subscribe(w)
  <2> DEFINE shard == FetchCheckpoint(row, cache[w])
  <2>1. CASE Return(w, shard) \/ Return(w, cache[w])
    BY <2>1, ReturnCloses
  <2>2. CASE /\ Stream(w, StartAfter(shard))
             /\ Streams(w, open[w] + 1)
             /\ Goto(w, "select")
             /\ UNCHANGED cont
    <3>1. pc[w] = "subscribe"
      BY <1>1 DEF Subscribe
    <3>2. /\ pc' = [pc EXCEPT ![w] = "select"] /\ cont' = cont
          /\ open' = [open EXCEPT ![w] = open[w] + 1]
          /\ at' = [at EXCEPT ![w] = StartAfter(shard)]
      BY <2>2 DEF Stream, Streams, Goto
    <3>3. StreamInv'
      BY <3>1, <3>2 DEF StreamInv
    <3>4. PositionInv'
      BY <3>1, <3>2 DEF PositionInv
    <3> QED
      BY <3>3, <3>4
  <2> QED
    BY <1>1, <2>1, <2>2, Zenon DEF Subscribe
<1>2. CASE Process(w)
  <2>1. /\ pc[w] = "process" /\ UNCHANGED <<open, at, cont>>
        /\ pc' = [pc EXCEPT ![w] = IF cont[w] = NoCont THEN "terminate" ELSE "select"]
    BY <1>2 DEF Process, Goto
  <2>2. StreamInv'
    BY <2>1 DEF StreamInv
  <2>3. PositionInv'
    BY <2>1 DEF PositionInv
  <2> QED
    BY <2>2, <2>3
<1>3. CASE Terminate(w) \/ Stop(w)
  BY <1>3, ReturnCloses DEF Terminate, Stop
<1>4. CASE Release(w)
  <2>1. /\ pc[w] = "release" /\ UNCHANGED <<open, at, cont>>
        /\ pc' = [pc EXCEPT ![w] = "off"]
    BY <1>4 DEF Release, Goto
  <2> QED
    BY <2>1 DEF StreamInv, PositionInv
<1>5. CASE Resubscribe(w)
  <2>1. CASE Return(w, cache[w])
    BY <2>1, ReturnCloses
  <2>2. CASE /\ cont[w] # NoCont
             /\ Stream(w, FromContinuation(w))
             /\ UNCHANGED <<cache, pc, open, cont>>
    <3>1. UNCHANGED <<pc, open, cont>> /\ at' = [at EXCEPT ![w] = cont[w]]
      BY <2>2 DEF Stream, FromContinuation
    <3>2. at' = at
      BY <2>2, <3>1 DEF PositionInv
    <3> QED
      BY <3>1, <3>2 DEF StreamInv, PositionInv
  <2> QED
    BY <1>5, <2>1, <2>2, Zenon DEF Resubscribe
<1>6. CASE Event(w)
  <2>1. PICK k \in {at[w], at[w] + 1} \cap 0 .. LastRecord :
           /\ at' = [at EXCEPT ![w] = k]
           /\ \/ cont' = [cont EXCEPT ![w] = k]
              \/ k = LastRecord /\ cont' = [cont EXCEPT ![w] = NoCont]
    BY <1>6, Zenon DEF Event
  <2>2. /\ pc[w] = "select" /\ open' = open
        /\ pc' = [pc EXCEPT ![w] = "process"]
    BY <1>6 DEF Event, Goto
  <2>3. StreamInv'
    BY <2>2 DEF StreamInv
  <2>4. PositionInv'
    <3>1. CASE cont' = [cont EXCEPT ![w] = k]
      BY <2>1, <2>2, <3>1 DEF PositionInv, NoCont
    <3>2. CASE k = LastRecord /\ cont' = [cont EXCEPT ![w] = NoCont]
      BY <2>1, <2>2, <3>2 DEF PositionInv
    <3> QED
      BY <2>1, <3>1, <3>2
  <2> QED
    BY <2>3, <2>4
<1>7. CASE Refresh(w)
  <2>1. Return(w, cache[w]) \/ UNCHANGED <<pc, open, ended, at, cont>>
    BY <1>7, Zenon DEF Refresh, LeaseNotAcquired
  <2> QED
    BY <2>1, ReturnCloses DEF StreamInv, PositionInv
<1> QED
  BY <1>1, <1>2, <1>3, <1>4, <1>5, <1>6, <1>7 DEF ConStep

\* ... and all others.
LEMMA OtherStreams ==
  ASSUME TypeOK, LoopInv, StreamInv, PositionInv,
         \/ Tick \/ UNCHANGED vars
         \/ \E w \in Workers :
              \/ LoopStep(w) \/ LoopExit(w)
              \/ StreamEnds(w) \/ Shutdown(w) \/ Crash(w)
  PROVE  StreamInv' /\ PositionInv'
<1> USE DEF TypeOK
<1>1. CASE UNCHANGED <<pc, open, at, cont>>
  BY <1>1 DEF StreamInv, PositionInv
<1>2. ASSUME NEW w \in Workers, GetLease(w)
      PROVE  StreamInv' /\ PositionInv'
  <2>1. /\ pc[w] = "off" /\ UNCHANGED <<open, at, cont>>
        /\ pc' = [pc EXCEPT ![w] = "subscribe"] \/ pc' = pc
    BY <1>2 DEF GetLease, Goto, LoopInv
  <2> QED
    BY <2>1 DEF StreamInv, PositionInv
<1>3. ASSUME NEW w \in Workers, Crash(w)
      PROVE  StreamInv' /\ PositionInv'
  <2>1. /\ pc' = [pc EXCEPT ![w] = "off"]
        /\ open' = [open EXCEPT ![w] = 0]
        /\ at' = [at EXCEPT ![w] = 0]
        /\ cont' = [cont EXCEPT ![w] = NoCont]
    BY <1>3 DEF Crash, Goto, Streams, Stream
  <2> QED
    BY <2>1 DEF StreamInv, PositionInv
<1> QED
  BY <1>1, <1>2, <1>3, Zenon
     DEF Tick, vars, LoopStep, LoopFetch, LoopExit, StreamEnds, Shutdown, conVars

\* A worker has a stream exactly while it uses it, and its continuation
\* number is where that stream stands.
THEOREM StreamInvariant == Spec => [](StreamInv /\ PositionInv)
<1>1. Init => StreamInv /\ PositionInv
  BY DEF Init, StreamInv, PositionInv
<1>2. /\ TypeOK /\ LoopInv /\ StreamInv /\ PositionInv
      /\ [Next]_vars
      => StreamInv' /\ PositionInv'
  <2> SUFFICES ASSUME TypeOK, LoopInv, StreamInv, PositionInv, [Next]_vars
               PROVE  StreamInv' /\ PositionInv'
    OBVIOUS
  <2>1. CASE \E w \in Workers : ConStep(w) \/ Event(w) \/ Refresh(w)
    BY <2>1, ConStreams
  <2>2. CASE ~\E w \in Workers : ConStep(w) \/ Event(w) \/ Refresh(w)
    <3>1. \/ Tick \/ UNCHANGED vars
          \/ \E w \in Workers :
               \/ LoopStep(w) \/ LoopExit(w)
               \/ StreamEnds(w) \/ Shutdown(w) \/ Crash(w)
      BY <2>2, Zenon DEF Next
    <3> QED
      BY <3>1, OtherStreams
  <2> QED
    BY <2>1, <2>2
<1> QED
  BY <1>1, <1>2, TypeCorrect, LoopInvariant, PTL DEF Spec

\* Event streams do not leak: however a consumer returns, and whether or not
\* it could subscribe again, no stream of it is left open.
THEOREM StreamsClosed == Spec => []NoStreamLeft
<1>1. StreamInv => NoStreamLeft
  <2> SUFFICES ASSUME StreamInv, NEW w \in Workers
               PROVE  /\ open[w] <= 1
                      /\ open[w] = 1 => pc[w] \in {"select", "process", "terminate"}
    BY Zenon DEF NoStreamLeft
  <2>1. open[w] \in {0, 1}
    BY DEF StreamInv
  <2>2. open[w] = 1 => pc[w] \in {"select", "process", "terminate"}
    BY DEF StreamInv
  <2> QED
    BY <2>1, <2>2
<1> QED
  BY <1>1, StreamInvariant, PTL

\* A subscription that replaces an ended stream neither skips nor repeats a
\* record, whatever the processor has checkpointed.
THEOREM ResumedInPlace == Spec => ResumesInPlace
<1>1. TypeOK /\ PositionInv /\ [Next]_vars =>
        \/ \A w \in Workers :
             pc[w] = "select" /\ pc'[w] = "select" /\ ended[w] /\ ~ended'[w] =>
               at'[w] = at[w]
        \/ UNCHANGED vars
  <2> SUFFICES ASSUME TypeOK, PositionInv, Next, NEW w \in Workers,
                      pc[w] = "select", pc'[w] = "select", ended[w], ~ended'[w]
               PROVE  at'[w] = at[w]
    OBVIOUS
  <2>1. Resubscribe(w)
    <3>1. ~Tick
      BY DEF Tick, conVars
    <3>2. PICK v \in Workers :
            \/ LoopStep(v) \/ LoopExit(v)
            \/ ConStep(v) \/ Event(v) \/ Refresh(v)
            \/ StreamEnds(v) \/ Shutdown(v) \/ Crash(v)
      BY <3>1, Zenon DEF Next
    <3>3. ~(\/ LoopStep(v) \/ LoopExit(v) \/ Shutdown(v)
            \/ Event(v) \/ Process(v) \/ Release(v))
      BY Zenon DEF LoopStep, LoopFetch, GetLease, LoopExit, Shutdown, Event, Process, Release,
                   conVars
    <3>4. ASSUME NEW shard, Return(v, shard)
          PROVE  FALSE
      BY <3>4 DEF Return, Goto, Stream, TypeOK
    <3>5. ~(Terminate(v) \/ Stop(v) \/ Refresh(v))
      BY <3>4, Zenon DEF Terminate, Stop, Refresh, LeaseNotAcquired
    <3>6. ~Subscribe(v)
      <4>1. SUFFICES ASSUME Subscribe(v) PROVE FALSE
        OBVIOUS
      <4>2. /\ pc[v] = "subscribe" 
            /\ Stream(v, StartAfter(FetchCheckpoint(row, cache[v])))
        BY <3>4, <4>1, Zenon DEF Subscribe
      <4> QED
        BY <4>2 DEF Stream, TypeOK
    <3>7. ~Crash(v)
      BY DEF Crash, Goto, Stream, TypeOK
    <3>8. ~StreamEnds(v)
      BY DEF StreamEnds, TypeOK
    <3>9. Resubscribe(v)
      BY <3>2, <3>3, <3>5, <3>6, <3>7, <3>8, Zenon DEF ConStep
    <3>10. v = w
      <4>1. ended' = [ended EXCEPT ![v] = FALSE]
        BY <3>4, <3>9, Zenon DEF Resubscribe, Stream
      <4> QED
        BY <4>1 DEF TypeOK
    <3> QED
      BY <3>9, <3>10
  <2>2. cont[w] # NoCont /\ at' = [at EXCEPT ![w] = cont[w]]
    <3>1. ~Return(w, cache[w])
      BY DEF Return, Goto, TypeOK
    <3> QED
      BY <2>1, <3>1, Zenon DEF Resubscribe, Stream, FromContinuation
  <2> QED
    BY <2>2 DEF PositionInv, TypeOK
<1> QED
  BY <1>1, TypeCorrect, StreamInvariant, PTL DEF Spec, ResumesInPlace

-----------------------------------------------------------------------------
\* A step that changes neither what is processed nor what checkpoints are
\* made of keeps them covered.
LEMMA ReturnCovered ==
  ASSUME TypeOK, CoveredInv, NEW w \in Workers, NEW shard \in ShardStatus,
         CoveredBy(shard.ckpt, processed), Return(w, shard)
  PROVE  \A v \in Workers : /\ CoveredBy(cache'[v].ckpt, processed)
                            /\ CoveredBy(at'[v], processed)
<1>1. /\ cache' = [cache EXCEPT ![w] = Released(shard)]
      /\ at' = [at EXCEPT ![w] = 0]
  BY DEF Return, SetCache, Stream
<1>2. Released(shard).ckpt = shard.ckpt
  BY DEF Released, ShardStatus
<1>3. CoveredBy(0, processed)
  BY CoveredFacts
<1> QED
  BY <1>1, <1>2, <1>3 DEF CoveredInv, TypeOK

\* Every checkpoint and position stays covered: steps of a consumer.
LEMMA ConCovered ==
  ASSUME TypeOK, CoveredInv, PositionInv, NEW w \in Workers,
         ConStep(w) \/ Event(w) \/ Refresh(w)
  PROVE  CoveredInv'
<1> DEFINE Covered(k) == CoveredBy(k, processed)
<1>a. /\ Covered(row.ckpt) /\ row \in Item
      /\ \A v \in Workers : Covered(cache[v].ckpt) /\ Covered(at[v])
      /\ cache[w] \in ShardStatus
  BY DEF CoveredInv, TypeOK
<1>b. ASSUME UNCHANGED processed, Covered(row'.ckpt),
             \A v \in Workers : Covered(cache'[v].ckpt) /\ Covered(at'[v])
      PROVE  CoveredInv'
  BY <1>b DEF CoveredInv
<1>c. ASSUME NEW shard \in ShardStatus, Covered(shard.ckpt), Return(w, shard)
      PROVE  \A v \in Workers : Covered(cache'[v].ckpt) /\ Covered(at'[v])
  BY <1>c, ReturnCovered
<1>d. ASSUME NEW k, Covered(k), Save(Checkpointed(w, k))
      PROVE  Covered(row'.ckpt)
  BY <1>a, <1>d DEF Save, Checkpointed, CheckpointItem, ShardStatus
<1>e. ASSUME NEW k \in Checkpoints, Covered(k)
      PROVE  /\ Checkpointed(w, k) \in ShardStatus
             /\ Covered(Checkpointed(w, k).ckpt)
  BY <1>a, <1>e DEF Checkpointed, ShardStatus
<1>f. at[w] \in 0 .. LastRecord /\ at[w] \in Checkpoints /\ ShardEnd \in Checkpoints
  BY BoundsAssumption DEF TypeOK, Checkpoints, ShardEnd
<1>g. at[w] = LastRecord => Covered(ShardEnd)
  BY <1>a, BoundsAssumption DEF CoveredBy, ShardEnd
<1>h. \A k \in 1 .. at[w] : Covered(k) /\ k \in Checkpoints
  BY <1>a, <1>f, BoundsAssumption DEF CoveredBy, Checkpoints
<1> HIDE DEF Covered
<1>1. CASE Subscribe(w)
  <2> DEFINE shard == FetchCheckpoint(row, cache[w])
  <2>1. shard \in ShardStatus /\ Covered(shard.ckpt)
    BY <1>a, FetchCheckpointType DEF FetchCheckpoint
  <2>2. UNCHANGED <<row, processed>>
    BY <1>1 DEF Subscribe
  <2>3. \/ Return(w, shard) \/ Return(w, cache[w])
        \/ /\ cache' = [cache EXCEPT ![w] = shard]
           /\ at' = [at EXCEPT ![w] = shard.ckpt]
    BY <1>1, Zenon DEF Subscribe, SetCache, Stream, StartAfter
  <2> HIDE DEF shard
  <2>4. \A v \in Workers : Covered(cache'[v].ckpt) /\ Covered(at'[v])
    BY <1>a, <1>c, <2>1, <2>3 DEF TypeOK
  <2> QED
    BY <1>a, <1>b, <2>2, <2>4
<1>2. CASE Process(w)
  <2>1. UNCHANGED <<at, processed>>
    BY <1>2 DEF Process
  <2>2. ASSUME NEW k \in 1 .. at[w],
               SetCache(w, Checkpointed(w, k)) /\ Save(Checkpointed(w, k))
        PROVE  CoveredInv'
    <3>1. Covered(row'.ckpt)
      BY <1>d, <1>h, <2>2
    <3>2. \A v \in Workers : Covered(cache'[v].ckpt)
      BY <1>a, <1>e, <1>h, <2>2 DEF SetCache, TypeOK
    <3> QED
      BY <1>a, <1>b, <2>1, <3>1, <3>2
  <2>3. CASE UNCHANGED <<row, cache>>
    BY <1>a, <1>b, <2>1, <2>3
  <2> QED
    BY <1>2, <2>2, <2>3, Zenon DEF Process
<1>3. CASE Terminate(w)
  <2>1. UNCHANGED processed /\ Covered(ShardEnd)
    BY <1>3, <1>g DEF Terminate, PositionInv
  <2>2. CASE Save(Checkpointed(w, ShardEnd)) /\ Return(w, Checkpointed(w, ShardEnd))
    BY <1>b, <1>c, <1>d, <1>e, <1>f, <2>1, <2>2
  <2>3. CASE Return(w, cache[w]) /\ UNCHANGED row
    BY <1>a, <1>b, <1>c, <2>1, <2>3
  <2> QED
    BY <1>3, <2>2, <2>3, Zenon DEF Terminate
<1>4. CASE Release(w)
  <2>1. UNCHANGED <<cache, at, processed>>
    BY <1>4 DEF Release
  <2>2. Covered(row'.ckpt)
    BY <1>4, <1>a DEF Release, RemoveLeaseOwner, Item
  <2> QED
    BY <1>a, <1>b, <2>1, <2>2
<1>5. CASE Stop(w)
  <2>1. UNCHANGED processed
    BY <1>5 DEF Stop
  <2>2. ASSUME NEW k \in 1 .. at[w],
               Save(Checkpointed(w, k)) /\ Return(w, Checkpointed(w, k))
        PROVE  CoveredInv'
    BY <1>b, <1>c, <1>d, <1>e, <1>h, <2>1, <2>2
  <2>3. CASE Return(w, cache[w]) /\ UNCHANGED row
    BY <1>a, <1>b, <1>c, <2>1, <2>3
  <2> QED
    BY <1>5, <2>2, <2>3, Zenon DEF Stop
<1>6. CASE Resubscribe(w)
  <2>1. UNCHANGED <<row, processed>>
    BY <1>6 DEF Resubscribe
  <2>2. CASE Return(w, cache[w])
    BY <1>a, <1>b, <1>c, <2>1, <2>2
  <2>3. CASE /\ cont[w] # NoCont
             /\ at' = [at EXCEPT ![w] = cont[w]]
             /\ UNCHANGED cache
    BY <1>a, <1>b, <2>1, <2>3 DEF PositionInv, TypeOK
  <2> QED
    BY <1>6, <2>2, <2>3, Zenon DEF Resubscribe, Stream, FromContinuation
<1>7. CASE Event(w)
  <2>1. PICK k \in {at[w], at[w] + 1} \cap 0 .. LastRecord :
           /\ at' = [at EXCEPT ![w] = k]
           /\ processed' = processed \cup (at[w] + 1) .. k
    BY <1>7, Zenon DEF Event
  <2>2. UNCHANGED <<row, cache>> /\ processed \subseteq processed'
    BY <1>7, <2>1 DEF Event
  <2>3. CoveredBy(k, processed')
    BY <1>a, <1>f, <2>1, BoundsAssumption DEF Covered, CoveredBy
  <2>4. /\ CoveredBy(row.ckpt, processed')
        /\ \A v \in Workers : /\ CoveredBy(cache[v].ckpt, processed')
                              /\ CoveredBy(at[v], processed')
    BY <1>a, <2>2, CoveredFacts DEF Covered
  <2> QED
    BY <2>1, <2>2, <2>3, <2>4 DEF CoveredInv, TypeOK
<1>8. CASE Refresh(w)
  <2> DEFINE req == GetLeaseRequest(row, cache[w], w, Now)
  <2>1. UNCHANGED processed
    BY <1>8 DEF Refresh
  <2>2. CASE Return(w, cache[w]) /\ UNCHANGED row
    BY <1>a, <1>b, <1>c, <2>1, <2>2
  <2>3. CASE /\ row' = GetLeaseItem(req, w)
             /\ cache' = [cache EXCEPT ![w] = GetLeaseGranted(cache[w], req, w)]
             /\ UNCHANGED at
    <3>1. Now \in Nat /\ req \in LeaseRequest
      BY <1>a, AgedType, GetLeaseRequestType
    <3>2. Covered(req.ckpt)
      BY <1>a DEF GetLeaseRequest
    <3> HIDE DEF req
    <3>3. Covered(row'.ckpt) /\ Covered(GetLeaseGranted(cache[w], req, w).ckpt)
      BY <1>a, <2>3, <3>1, <3>2, CallsCovered DEF Covered
    <3>4. \A v \in Workers : Covered(cache'[v].ckpt)
      BY <1>a, <2>3, <3>3 DEF TypeOK
    <3> QED
      BY <1>a, <1>b, <2>1, <2>3, <3>3, <3>4
  <2> QED
    BY <1>8, <2>2, <2>3, Zenon DEF Refresh, LeaseNotAcquired, SetCache
<1> QED
  BY <1>1, <1>2, <1>3, <1>4, <1>5, <1>6, <1>7, <1>8 DEF ConStep

\* ... and all others.
LEMMA OtherCovered ==
  ASSUME TypeOK, CoveredInv,
         \/ Tick \/ UNCHANGED vars
         \/ \E w \in Workers :
              \/ LoopStep(w) \/ LoopExit(w)
              \/ StreamEnds(w) \/ Shutdown(w) \/ Crash(w)
  PROVE  CoveredInv'
<1>1. CASE UNCHANGED <<row, cache, at, processed>>
  BY <1>1 DEF CoveredInv
<1>2. CASE Tick
  <2>1. /\ row'.ckpt = row.ckpt
        /\ \A w \in Workers : cache'[w].ckpt = cache[w].ckpt
        /\ UNCHANGED <<at, processed>>
    BY <1>2, AgedType DEF Tick, conVars, TypeOK
  <2> QED
    BY <2>1 DEF CoveredInv
<1>3. ASSUME NEW w \in Workers, LoopFetch(w)
      PROVE  CoveredInv'
  <2>1. /\ \/ cache' = [cache EXCEPT ![w] = FetchCheckpoint(row, cache[w])]
           \/ cache' = cache
        /\ UNCHANGED <<row, at, processed>>
    BY <1>3 DEF LoopFetch, SetCache, conVars
  <2>2. CoveredBy(FetchCheckpoint(row, cache[w]).ckpt, processed)
    BY DEF CoveredInv, FetchCheckpoint
  <2> QED
    BY <2>1, <2>2 DEF CoveredInv, TypeOK
<1>4. ASSUME NEW w \in Workers, GetLease(w)
      PROVE  CoveredInv'
  <2> DEFINE req == GetLeaseRequest(row, cache[w], w, Now)
  <2>1. /\ row \in Item /\ cache[w] \in ShardStatus
        /\ CoveredBy(row.ckpt, processed) /\ CoveredBy(cache[w].ckpt, processed)
    BY DEF TypeOK, CoveredInv
  <2>2. req \in LeaseRequest /\ CoveredBy(req.ckpt, processed)
    BY <2>1, GetLeaseRequestType, AgedType DEF GetLeaseRequest
  <2>3. /\ \/ /\ row' = GetLeaseItem(req, w)
              /\ cache' = [cache EXCEPT ![w] = GetLeaseGranted(cache[w], req, w)]
           \/ UNCHANGED <<row, cache>>
        /\ UNCHANGED <<at, processed>>
    BY <1>4, Zenon DEF GetLease, SetCache
  <2> HIDE DEF req
  <2>4. /\ CoveredBy(GetLeaseItem(req, w).ckpt, processed)
        /\ CoveredBy(GetLeaseGranted(cache[w], req, w).ckpt, processed)
    BY <2>1, <2>2, CallsCovered, AgedType
  <2> QED
    BY <2>3, <2>4 DEF CoveredInv, TypeOK
<1>5. ASSUME NEW w \in Workers, Crash(w)
      PROVE  CoveredInv'
  <2>1. /\ cache' = [cache EXCEPT ![w] = NewShardStatus]
        /\ at' = [at EXCEPT ![w] = 0]
        /\ UNCHANGED <<row, processed>>
    BY <1>5 DEF Crash, SetCache, Stream
  <2>2. CoveredBy(0, processed) /\ CoveredBy(NewShardStatus.ckpt, processed)
    BY CoveredFacts
  <2> QED
    BY <2>1, <2>2 DEF CoveredInv, TypeOK
<1> QED
  BY <1>1, <1>2, <1>3, <1>4, <1>5, Zenon
     DEF vars, LoopStep, LoopExit, StreamEnds, Shutdown, conVars

\* At-least-once delivery: no checkpoint, in the table or in a cache, and no
\* consumer is beyond a record that no processor has been given.
THEOREM CoveredInvariant == Spec => []CoveredInv
<1>1. Init => CoveredInv
  BY CoveredFacts DEF Init, CoveredInv
<1>2. TypeOK /\ PositionInv /\ CoveredInv /\ [Next]_vars => CoveredInv'
  <2> SUFFICES ASSUME TypeOK, PositionInv, CoveredInv, [Next]_vars
               PROVE  CoveredInv'
    OBVIOUS
  <2>1. CASE \E w \in Workers : ConStep(w) \/ Event(w) \/ Refresh(w)
    BY <2>1, ConCovered
  <2>2. CASE ~\E w \in Workers : ConStep(w) \/ Event(w) \/ Refresh(w)
    <3>1. \/ Tick \/ UNCHANGED vars
          \/ \E w \in Workers :
               \/ LoopStep(w) \/ LoopExit(w)
               \/ StreamEnds(w) \/ Shutdown(w) \/ Crash(w)
      BY <2>2, Zenon DEF Next
    <3> QED
      BY <3>1, OtherCovered
  <2> QED
    BY <2>1, <2>2
<1> QED
  BY <1>1, <1>2, TypeCorrect, StreamInvariant, PTL DEF Spec

-----------------------------------------------------------------------------
\* The abstract state, read through the mapping of ImplementsDelivery.
LEMMA DeliveryMapping ==
  /\ \A k : Delivery!Covers("shard", k) <=> CoveredBy(k, processed)
  /\ Delivery!Finished("shard") = ShardEnd
  /\ Delivery!ParentOver("shard")
  BY DEF Delivery!Covers, Delivery!Finished, Delivery!ParentOver, CoveredBy,
         ShardEnd

\* A step that delivers no record is a checkpoint of the abstract shard, old
\* or new: whatever has been written to the row was covered.
LEMMA WriteIsSave ==
  ASSUME row' \in Item, CoveredBy(row'.ckpt, processed), processed' = processed
  PROVE  Delivery!Save("shard")
<1> DEFINE k == IF row'.ckpt = NoAttr THEN 0 ELSE row'.ckpt
<1>1. k \in 0 .. Delivery!Finished("shard")
  BY DeliveryMapping, BoundsAssumption
     DEF Item, Checkpoints, ShardEnd, NoAttr
<1>2. Delivery!Covers("shard", k)
  BY DeliveryMapping, CoveredFacts
<1> QED
  BY <1>1, <1>2 DEF Delivery!Save

\* Only an event changes what has been processed, by the record after the one
\* the stream stands at.
LEMMA StepDelivers ==
  ASSUME TypeOK, CoveredInv, [Next]_vars, processed' # processed
  PROVE  Delivery!Deliver("shard")
<1>1. PICK w \in Workers : Event(w)
  BY DEF Next, vars, conVars, Tick, LoopStep, LoopFetch, GetLease, LoopExit, ConStep, Subscribe,
         Process, Terminate, Release, Stop, Resubscribe, Refresh, StreamEnds,
         Shutdown, Crash
<1>2. PICK k \in {at[w], at[w] + 1} : processed' = processed \cup (at[w] + 1) .. k
  BY <1>1, Zenon DEF Event
<1>3. at[w] \in 0 .. LastRecord
  BY DEF TypeOK
<1>4. k = at[w] + 1
  BY <1>2, <1>3
<1>5. k \in 1 .. LastRecord
  BY <1>1, <1>2, <1>3, <1>4, BoundsAssumption DEF Event, TypeOK
<1>6. processed' = processed \cup {k} /\ row' = row /\ k - 1 = at[w]
  BY <1>1, <1>2, <1>3, <1>4 DEF Event
<1>7. Delivery!Covers("shard", k - 1)
  BY <1>6, DeliveryMapping DEF CoveredInv
<1> QED
  BY <1>5, <1>6, <1>7, DeliveryMapping DEF Delivery!Deliver

\* Event streams that end anywhere, lost leases, failed calls and crashes
\* notwithstanding, the consumers implement ordered delivery of the shard.
THEOREM DeliveryImplemented == Spec => ImplementsDelivery
<1>1. Init => Delivery!Init
  BY BoundsAssumption DEF Init, Delivery!Init, NoItem, NoAttr
<1>2. /\ TypeOK /\ TypeOK'
      /\ CoveredInv /\ CoveredInv'
      /\ [Next]_vars
      => [Delivery!Next]_(Delivery!vars)
  <2> SUFFICES ASSUME TypeOK, TypeOK', CoveredInv, CoveredInv', [Next]_vars
               PROVE  Delivery!Next
    OBVIOUS
  <2>1. CASE processed' = processed
    <3>1. row' \in Item /\ CoveredBy(row'.ckpt, processed)
      BY <2>1 DEF TypeOK, CoveredInv
    <3> QED
      BY <2>1, <3>1, WriteIsSave DEF Delivery!Next
  <2>2. CASE processed' # processed
    BY <2>2, StepDelivers DEF Delivery!Next
  <2> QED
    BY <2>1, <2>2
<1> QED
  BY <1>1, <1>2, TypeCorrect, CoveredInvariant, PTL
     DEF Spec, ImplementsDelivery, Delivery!Spec

-----------------------------------------------------------------------------
\* What the abstract specification comes to, for this shard.
Promise == INSTANCE DeliveryProofs WITH
  Shards    <- {"shard"},
  NoShard   <- "none",
  Parent    <- [s \in {"shard"} |-> "none"],
  Records   <- [s \in {"shard"} |-> LastRecord],
  listed    <- {"shard"},
  processed <- [s \in {"shard"} |-> processed],
  saved     <- [s \in {"shard"} |-> IF row.ckpt = NoAttr THEN 0 ELSE row.ckpt]

\* At any time the records that some worker's processor has been given are the
\* first ones of the shard, none left out, and the row holds no checkpoint
\* beyond them, wherever the event streams have ended.
THEOREM DeliveredInOrder == Spec => []Promise!DeliveryInv
<1>1. [s \in {"shard"} |-> LastRecord] \in [{"shard"} -> Nat]
  BY BoundsAssumption
<1>2. Promise!Spec => []Promise!DeliveryInv
  BY <1>1, Promise!DeliveredPrefix, PTL
<1>3. Delivery!Init => Promise!Init
  BY DEF Delivery!Init, Promise!Init
<1>4. [Delivery!Next]_(Delivery!vars) => [Promise!Next]_(Promise!vars)
  BY DEF Delivery!Next, Promise!Next, Delivery!vars, Promise!vars,
         Delivery!Deliver, Promise!Deliver, Delivery!Save, Promise!Save,
         Delivery!Forget, Promise!Forget, Delivery!Reshard, Promise!Reshard,
         Delivery!ParentOver, Promise!ParentOver, Delivery!Covers, Promise!Covers,
         Delivery!Finished, Promise!Finished
<1> QED
  BY <1>2, <1>3, <1>4, DeliveryImplemented, PTL
     DEF ImplementsDelivery, Delivery!Spec, Promise!Spec
=============================================================================
