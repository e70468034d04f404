---------------------------- MODULE ParentProofs ----------------------------
(***************************************************************************)
(* Theorems of ParentShards, for every set of workers and shards, number   *)
(* of records, lease duration and length of time.  The order over a        *)
(* reshard takes what its run starts from: parents that are first shards   *)
(* and have been checkpointed before.  (A parent without a checkpoint does *)
(* not hold its child back, as the run parent_order shows.)                *)
(***************************************************************************)
EXTENDS ParentShards, LeaseTableTheorems

\* The records of s up to k are among those in `done'.
Upto(s, k, done) == \A r \in 1 .. Records[s] : r <= k => r \in done

\* The checkpoints a shard can have.
CheckpointsOf(s) == 0 .. Records[s] \cup {ShardEnd}

\* Every checkpoint, in a row or in a cache, and every position is one of its
\* shard, and covers only records that were delivered.
CoveredInv ==
  /\ \A s \in Shards :
       /\ processed[s] \subseteq 1 .. Records[s]
       /\ row[s].ckpt \in CheckpointsOf(s) \cup {NoAttr}
       /\ Upto(s, row[s].ckpt, processed[s])
  /\ \A w \in Workers, s \in Shards :
       /\ cache[w][s].ckpt \in CheckpointsOf(s)
       /\ Upto(s, cache[w][s].ckpt, processed[s])
       /\ pos[w][s] \in 0 .. Records[s]
       /\ Upto(s, pos[w][s], processed[s])

\* A shard of the stream whose checkpoint is never to be lost.
Kept(s) == s \in listed /\ IsRoot(s) /\ Checkpointed > 0

\* Its row has a checkpoint, and so has the cache of every consumer that may
\* write it back, since no worker that consumes the shard forgets it.
KeptInv ==
  \A s \in Shards : Kept(s) =>
    /\ row[s].ckpt \notin {NoAttr, 0}
    /\ \A w \in Workers : /\ con[w][s] # "off" => s \in known[w]
                          /\ con[w][s] = "poll" => cache[w][s].ckpt # 0

\* The shard whose lease an event loop is about to get is one it knows and does
\* not consume; if it has a checkpoint to keep, the cache holds one.
LookInv ==
  \A w \in Workers, s \in Shards : look[w] = s =>
    /\ con[w][s] = "off" /\ s \in known[w]
    /\ Kept(s) => cache[w][s].ckpt # 0

\* A child whose records have been delivered, or are about to be, has a parent
\* that is finished or has left the stream.
ParentOver(s) ==
  Parent[s] \notin listed \/ processed[Parent[s]] = AllRecords(Parent[s])

Going == {"start", "poll"}

OrderInv ==
  \A s \in Shards :
    ~IsRoot(s) /\ (processed[s] # {} \/ \E w \in Workers : con[w][s] \in Going) =>
      ParentOver(s)

-----------------------------------------------------------------------------
\* What a step of w on s leaves: a row, a cached status, a place, a position
\* and the delivered records; w's event loop may start or end its look at s, and
\* nothing else changes.
Effect(w, s, item, shard, p, k, done) ==
  /\ row' = [row EXCEPT ![s] = item]
  /\ cache' = [cache EXCEPT ![w][s] = shard]
  /\ con' = [con EXCEPT ![w][s] = p]
  /\ pos' = [pos EXCEPT ![w][s] = k]
  /\ processed' = [processed EXCEPT ![s] = done]
  /\ \E l \in {look[w], NoShard, s} : look' = [look EXCEPT ![w] = l]
  /\ UNCHANGED <<now, listed, closed, known>>

\* What is true of it: they are well typed; at most the next record is
\* delivered, perhaps checkpointed too; checkpoints and positions cover
\* delivered records; a shard that is to keep its checkpoint does; the event
\* loop looks only at what it may lease; and a consumer comes past
\* waitOnParentShard as that allows.
Sound(w, s, item, shard, p, k, done) ==
  /\ item \in Item /\ shard \in ShardStatus /\ p \in ConPcs
  /\ \/ done = processed[s]
     \/ /\ con[w][s] = "poll"
        /\ pos[w][s] < Records[s]
        /\ done = processed[s] \cup {pos[w][s] + 1}
        /\ item = row[s] \/ item.ckpt = pos[w][s] + 1
  /\ item.ckpt \in CheckpointsOf(s) \cup {NoAttr} /\ Upto(s, item.ckpt, done)
  /\ shard.ckpt \in CheckpointsOf(s) /\ Upto(s, shard.ckpt, done)
  /\ k \in 0 .. Records[s] /\ Upto(s, k, done)
  /\ Kept(s) => /\ item.ckpt \notin {NoAttr, 0}
                /\ p # "off" => s \in known[w]
                /\ p = "poll" => shard.ckpt # 0
  /\ look'[w] = s => /\ p = "off" /\ s \in known[w]
                     /\ Kept(s) => shard.ckpt # 0
  /\ p \in Going => con[w][s] \in Going \/ IsRoot(s) \/ ParentDone(s)

Inv == TypeOK /\ CoveredInv /\ KeptInv /\ LookInv

\* A shard has as many records as there are sequence numbers, at most.
LEMMA RecordsType ==
  ASSUME NEW s \in Shards
  PROVE  /\ Records[s] \in Nat /\ Records[s] <= LastRecord
         /\ LastRecord \in Nat /\ ShardEnd = LastRecord + 1
BY ShardsAssumption, BoundsAssumption DEF ShardEnd

\* Nothing is always covered, and what is covered stays so.
LEMMA UptoFacts ==
  ASSUME NEW s \in Shards, NEW done, NEW more, done \subseteq more
  PROVE  /\ Upto(s, NoAttr, done) /\ Upto(s, 0, done)
         /\ \A k : Upto(s, k, done) => Upto(s, k, more)
BY RecordsType DEF Upto, NoAttr

\* The checkpoints that the calls on a row and a cached status pass on.
LEMMA CallsPassOn ==
  ASSUME NEW item \in Item, NEW shard \in ShardStatus,
         NEW me \in Workers, NEW t \in Nat
  PROVE  /\ FetchCheckpoint(item, shard).ckpt =
              IF item.ckpt = NoAttr THEN shard.ckpt ELSE item.ckpt
         /\ GetLeaseRequest(item, shard, me, t).ckpt = shard.ckpt
         /\ GetLeaseItem(GetLeaseRequest(item, shard, me, t), me).ckpt =
              IF shard.ckpt = 0 THEN NoAttr ELSE shard.ckpt
         /\ GetLeaseGranted(shard, GetLeaseRequest(item, shard, me, t), me).ckpt
              = shard.ckpt
         /\ CheckpointItem(shard).ckpt = shard.ckpt
         /\ RemoveLeaseOwner(item, me).ckpt = item.ckpt
<1>1. FetchCheckpoint(item, shard).ckpt =
        IF item.ckpt = NoAttr THEN shard.ckpt ELSE item.ckpt
  BY DEF FetchCheckpoint, SequenceIDFound
<1>2. GetLeaseRequest(item, shard, me, t).ckpt = shard.ckpt
  BY DEF GetLeaseRequest
<1>3. GetLeaseItem(GetLeaseRequest(item, shard, me, t), me).ckpt =
        IF shard.ckpt = 0 THEN NoAttr ELSE shard.ckpt
  BY <1>2 DEF GetLeaseItem
<1>4. GetLeaseGranted(shard, GetLeaseRequest(item, shard, me, t), me).ckpt
        = shard.ckpt
  BY DEF GetLeaseGranted, ShardStatus
<1>5. CheckpointItem(shard).ckpt = shard.ckpt
  BY DEF CheckpointItem
<1>6. RemoveLeaseOwner(item, me).ckpt = item.ckpt
  BY DEF RemoveLeaseOwner, Item
<1> QED
  BY <1>1, <1>2, <1>3, <1>4, <1>5, <1>6

-----------------------------------------------------------------------------
\* What the invariant says of one worker and one shard.
LEMMA Here ==
  ASSUME Inv, NEW w \in Workers, NEW s \in Shards
  PROVE  /\ row[s] \in Item /\ cache[w][s] \in ShardStatus
         /\ con[w][s] \in ConPcs /\ now \in Nat
         /\ processed[s] \subseteq 1 .. Records[s]
         /\ row[s].ckpt \in CheckpointsOf(s) \cup {NoAttr}
         /\ Upto(s, row[s].ckpt, processed[s])
         /\ cache[w][s].ckpt \in CheckpointsOf(s)
         /\ Upto(s, cache[w][s].ckpt, processed[s])
         /\ pos[w][s] \in 0 .. Records[s] /\ Upto(s, pos[w][s], processed[s])
         /\ Kept(s) => /\ row[s].ckpt \notin {NoAttr, 0}
                       /\ con[w][s] # "off" => s \in known[w]
                       /\ con[w][s] = "poll" => cache[w][s].ckpt # 0
         /\ look[w] = s => /\ con[w][s] = "off" /\ s \in known[w]
                           /\ Kept(s) => cache[w][s].ckpt # 0
<1>1. TypeOK /\ CoveredInv /\ KeptInv /\ LookInv
  BY DEF Inv
<1>2. /\ row[s] \in Item /\ cache[w][s] \in ShardStatus
      /\ con[w][s] \in ConPcs /\ now \in Nat
  BY <1>1 DEF TypeOK
<1>3. /\ processed[s] \subseteq 1 .. Records[s]
      /\ row[s].ckpt \in CheckpointsOf(s) \cup {NoAttr}
      /\ Upto(s, row[s].ckpt, processed[s])
      /\ cache[w][s].ckpt \in CheckpointsOf(s)
      /\ Upto(s, cache[w][s].ckpt, processed[s])
      /\ pos[w][s] \in 0 .. Records[s] /\ Upto(s, pos[w][s], processed[s])
  BY <1>1 DEF CoveredInv
<1>4. Kept(s) => /\ row[s].ckpt \notin {NoAttr, 0}
                 /\ con[w][s] # "off" => s \in known[w]
                 /\ con[w][s] = "poll" => cache[w][s].ckpt # 0
  BY <1>1 DEF KeptInv
<1>5. look[w] = s => /\ con[w][s] = "off" /\ s \in known[w]
                     /\ Kept(s) => cache[w][s].ckpt # 0
  BY <1>1 DEF LookInv
<1> QED
  BY <1>2, <1>3, <1>4, <1>5

\* What a step leaves alone it leaves with the value it had.
LEMMA Unmoved ==
  ASSUME TypeOK, NEW w \in Workers, NEW s \in Shards
  PROVE  /\ UNCHANGED row => row' = [row EXCEPT ![s] = row[s]]
         /\ UNCHANGED cache => cache' = [cache EXCEPT ![w][s] = cache[w][s]]
         /\ UNCHANGED con => con' = [con EXCEPT ![w][s] = con[w][s]]
         /\ UNCHANGED pos => pos' = [pos EXCEPT ![w][s] = pos[w][s]]
         /\ UNCHANGED processed => processed' = [processed EXCEPT ![s] = processed[s]]
         /\ UNCHANGED look =>
              \E l \in {look[w], NoShard, s} : look' = [look EXCEPT ![w] = l]
BY DEF TypeOK

\* The effect of getRecords' return and releaseLease.
LEMMA ReturnEffect ==
  ASSUME Inv, NEW w \in Workers, NEW s \in Shards,
         NEW shard \in ShardStatus, NEW item \in Item,
         Return(w, s, shard, item), con[w][s] # "off",
         UNCHANGED <<now, listed, closed, look, known, processed>>,
         shard.ckpt \in CheckpointsOf(s), Upto(s, shard.ckpt, processed[s]),
         item.ckpt \in CheckpointsOf(s) \cup {NoAttr}, Upto(s, item.ckpt, processed[s]),
         Kept(s) => item.ckpt \notin {NoAttr, 0}
  PROVE  \E i \in Item, c \in ShardStatus :
           /\ Effect(w, s, i, c, "off", 0, processed[s])
           /\ Sound(w, s, i, c, "off", 0, processed[s])
<1> DEFINE i == RemoveLeaseOwner(item, w)
           c == IF s \in known[w] THEN [shard EXCEPT !.owner = EmptyOwner]
                                 ELSE NewShardStatus
<1>1. i \in Item /\ i.ckpt = item.ckpt
  BY RemoveLeaseOwnerType DEF RemoveLeaseOwner, Item
<1>2. c \in ShardStatus /\ (c.ckpt = shard.ckpt \/ c.ckpt = 0)
  BY InitialValuesType DEF ShardStatus, NewShardStatus
<1>3. Effect(w, s, i, c, "off", 0, processed[s])
  <2>1. /\ processed' = [processed EXCEPT ![s] = processed[s]]
        /\ \E l \in {look[w], NoShard, s} : look' = [look EXCEPT ![w] = l]
    BY Unmoved DEF Inv
  <2> QED
    BY <2>1 DEF Effect, Return, AtCon, SetCache
<1> HIDE DEF i, c
<1>4. "off" \in ConPcs /\ "off" \notin Going /\ "off" # "poll"
  BY DEF ConPcs, Going
<1>5. /\ 0 \in 0 .. Records[s] /\ Upto(s, 0, processed[s])
      /\ 0 \in CheckpointsOf(s)
  BY RecordsType, UptoFacts DEF CheckpointsOf
<1>6. look'[w] # s
  BY Here
<1>7. Sound(w, s, i, c, "off", 0, processed[s])
  BY <1>1, <1>2, <1>4, <1>5, <1>6 DEF Sound
<1> QED
  BY <1>1, <1>2, <1>3, <1>7

\* The effect of the event loop's look at a shard.
LEMMA LoopEffect ==
  ASSUME Inv, NEW w \in Workers, NEW s \in Shards,
         Fetch(w, s) \/ (look[w] = s /\ GetLease(w))
  PROVE  \E item, shard, p, k, done :
           Effect(w, s, item, shard, p, k, done) /\ Sound(w, s, item, shard, p, k, done)
<1>1. TypeOK /\ NoShard # s
  BY ShardsAssumption DEF Inv
<1>2. CASE Fetch(w, s)
  <2> DEFINE shard == FetchCheckpoint(row[s], cache[w][s])
  <2>1. /\ shard \in ShardStatus
        /\ shard.ckpt = IF row[s].ckpt = NoAttr THEN cache[w][s].ckpt ELSE row[s].ckpt
    BY Here, FetchCheckpointType, CallsPassOn
  <2>2. /\ shard.ckpt \in CheckpointsOf(s) /\ Upto(s, shard.ckpt, processed[s])
        /\ Kept(s) => shard.ckpt # 0
    BY <2>1, Here, Zenon
  <2>3. /\ cache' = [cache EXCEPT ![w][s] = shard]
        /\ \E l \in {look[w], NoShard, s} : look' = [look EXCEPT ![w] = l]
        /\ UNCHANGED <<now, listed, closed, row, known, con, pos, processed>>
        /\ con[w][s] = "off" /\ s \in known[w]
    BY <1>2 DEF Fetch, SetCache, conVars
  <2> HIDE DEF shard
  <2>4. /\ row' = [row EXCEPT ![s] = row[s]]
        /\ con' = [con EXCEPT ![w][s] = con[w][s]]
        /\ pos' = [pos EXCEPT ![w][s] = pos[w][s]]
        /\ processed' = [processed EXCEPT ![s] = processed[s]]
    BY <1>1, <2>3, Unmoved, ZenonT(30)
  <2>5. Effect(w, s, row[s], shard, "off", pos[w][s], processed[s])
    BY <2>3, <2>4, Zenon DEF Effect
  <2>6. "off" \in ConPcs /\ "off" \notin Going /\ "off" # "poll"
    BY DEF ConPcs, Going
  <2>7. Sound(w, s, row[s], shard, "off", pos[w][s], processed[s])
    BY <2>1, <2>2, <2>3, <2>6, Here DEF Sound
  <2> QED
    BY <2>5, <2>7
<1>3. CASE look[w] = s /\ GetLease(w)
  <2> DEFINE req  == GetLeaseRequest(row[s], cache[w][s], w, now)
             item == GetLeaseItem(req, w)
             c    == GetLeaseGranted(cache[w][s], req, w)
             p    == IF IsRoot(s) THEN "start" ELSE "wait"
  <2>1. /\ look' = [look EXCEPT ![w] = NoShard]
        /\ UNCHANGED <<now, listed, closed, known, pos, processed>>
        /\ con[w][s] = "off" /\ s \in known[w]
        /\ \/ row' = [row EXCEPT ![s] = item] /\ SetCache(w, s, c) /\ AtCon(w, s, p)
           \/ UNCHANGED <<row, cache, con>>
    BY <1>3, Here DEF GetLease
  <2>2. \E l \in {look[w], NoShard, s} : look' = [look EXCEPT ![w] = l]
    BY <2>1
  <2>3. look'[w] # s
    BY <1>1, <2>1 DEF TypeOK
  <2>4. /\ pos' = [pos EXCEPT ![w][s] = pos[w][s]]
        /\ processed' = [processed EXCEPT ![s] = processed[s]]
    BY <1>1, <2>1, Unmoved
  <2>5. CASE row' = [row EXCEPT ![s] = item] /\ SetCache(w, s, c) /\ AtCon(w, s, p)
    <3>1. item \in Item /\ c \in ShardStatus
      BY Here, GetLeaseRequestType, GetLeaseItemType, GetLeaseGrantedType
    <3>2. /\ item.ckpt = IF cache[w][s].ckpt = 0 THEN NoAttr ELSE cache[w][s].ckpt
          /\ c.ckpt = cache[w][s].ckpt
      BY Here, CallsPassOn
    <3> HIDE DEF req, item, c
    <3>3. /\ item.ckpt \in CheckpointsOf(s) \cup {NoAttr}
          /\ Upto(s, item.ckpt, processed[s])
          /\ Kept(s) => item.ckpt \notin {NoAttr, 0}
      <4>1. Upto(s, NoAttr, processed[s])
        BY UptoFacts
      <4>2. cache[w][s].ckpt # NoAttr
        BY Here, RecordsType DEF CheckpointsOf, NoAttr
      <4>3. /\ cache[w][s].ckpt \in CheckpointsOf(s)
            /\ Upto(s, cache[w][s].ckpt, processed[s])
            /\ Kept(s) => cache[w][s].ckpt # 0
        BY <1>3, Here
      <4> QED
        BY <3>2, <4>1, <4>2, <4>3, Zenon
    <3>4. Effect(w, s, item, c, p, pos[w][s], processed[s])
      BY <2>1, <2>2, <2>4, <2>5 DEF Effect, SetCache, AtCon
    <3>5. p \in ConPcs /\ p # "poll" /\ (p \in Going => IsRoot(s))
      BY DEF ConPcs, Going
    <3> HIDE DEF p
    <3>6. Sound(w, s, item, c, p, pos[w][s], processed[s])
      BY <2>1, <2>3, <3>1, <3>2, <3>3, <3>5, Here DEF Sound
    <3> QED
      BY <3>4, <3>6
  <2>6. CASE UNCHANGED <<row, cache, con>>
    <3>1. /\ row' = [row EXCEPT ![s] = row[s]]
          /\ cache' = [cache EXCEPT ![w][s] = cache[w][s]]
          /\ con' = [con EXCEPT ![w][s] = con[w][s]]
      BY <1>1, <2>6, Unmoved
    <3>2. Effect(w, s, row[s], cache[w][s], "off", pos[w][s], processed[s])
      BY <2>1, <2>2, <2>4, <3>1 DEF Effect
    <3>3. "off" \in ConPcs /\ "off" \notin Going /\ "off" # "poll"
      BY DEF ConPcs, Going
    <3>4. Sound(w, s, row[s], cache[w][s], "off", pos[w][s], processed[s])
      BY <2>3, <3>3, Here DEF Sound
    <3> QED
      BY <3>2, <3>4
  <2> QED
    BY <2>1, <2>5, <2>6
<1> QED
  BY <1>2, <1>3

\* The effect of waitOnParentShard, and of the consumer's start.
LEMMA StartEffect ==
  ASSUME Inv, NEW w \in Workers, NEW s \in Shards,
         WaitOnParentShard(w, s) \/ Start(w, s)
  PROVE  \E item, shard, p, k, done :
           Effect(w, s, item, shard, p, k, done) /\ Sound(w, s, item, shard, p, k, done)
<1>1. TypeOK
  BY DEF Inv
<1>2. CASE WaitOnParentShard(w, s)
  <2>1. /\ con[w][s] = "wait" /\ ParentDone(s) /\ con' = [con EXCEPT ![w][s] = "start"]
        /\ UNCHANGED <<now, listed, closed, row, look, known, cache, pos, processed>>
    BY <1>2 DEF WaitOnParentShard, AtCon
  <2>2. Effect(w, s, row[s], cache[w][s], "start", pos[w][s], processed[s])
    <3>1. /\ row' = [row EXCEPT ![s] = row[s]]
          /\ cache' = [cache EXCEPT ![w][s] = cache[w][s]]
          /\ pos' = [pos EXCEPT ![w][s] = pos[w][s]]
          /\ processed' = [processed EXCEPT ![s] = processed[s]]
          /\ \E l \in {look[w], NoShard, s} : look' = [look EXCEPT ![w] = l]
      BY <1>1, <2>1, Unmoved, ZenonT(30)
    <3> QED
      BY <2>1, <3>1 DEF Effect
  <2>3. "start" \in ConPcs /\ "wait" # "off" /\ "start" # "poll"
    BY DEF ConPcs
  <2>4. Sound(w, s, row[s], cache[w][s], "start", pos[w][s], processed[s])
    BY <2>1, <2>3, Here DEF Sound
  <2> QED
    BY <2>2, <2>4
<1>3. CASE Start(w, s)
  <2> DEFINE shard == FetchCheckpoint(row[s], cache[w][s])
  <2>1. /\ shard \in ShardStatus
        /\ shard.ckpt = IF row[s].ckpt = NoAttr THEN cache[w][s].ckpt ELSE row[s].ckpt
    BY Here, FetchCheckpointType, CallsPassOn
  <2>2. /\ shard.ckpt \in CheckpointsOf(s) /\ Upto(s, shard.ckpt, processed[s])
        /\ Kept(s) => shard.ckpt # 0
    BY <2>1, Here, Zenon
  <2>3. con[w][s] = "start" /\ UNCHANGED <<now, listed, closed, look, known, processed>>
    BY <1>3 DEF Start
  <2>4. CASE /\ s \in listed /\ shard.ckpt # ShardEnd
             /\ AtCon(w, s, "poll")
             /\ pos' = [pos EXCEPT ![w][s] = shard.ckpt]
             /\ SetCache(w, s, shard)
             /\ UNCHANGED row
    <3>1. shard.ckpt \in 0 .. Records[s]
      BY <2>2, <2>4 DEF CheckpointsOf
    <3>2. /\ row' = [row EXCEPT ![s] = row[s]]
          /\ processed' = [processed EXCEPT ![s] = processed[s]]
          /\ \E l \in {look[w], NoShard, s} : look' = [look EXCEPT ![w] = l]
      BY <1>1, <2>3, <2>4, Unmoved, ZenonT(30)
    <3> HIDE DEF shard
    <3>3. Effect(w, s, row[s], shard, "poll", shard.ckpt, processed[s])
      BY <2>3, <2>4, <3>2 DEF Effect, AtCon, SetCache
    <3>4. "poll" \in ConPcs /\ "start" # "off" /\ "start" \in Going
      BY DEF ConPcs, Going
    <3>5. Sound(w, s, row[s], shard, "poll", shard.ckpt, processed[s])
      BY <2>1, <2>2, <2>3, <3>1, <3>4, Here DEF Sound
    <3> QED
      BY <3>3, <3>5
  <2>5. CASE Return(w, s, shard, row[s])
    <3> HIDE DEF shard
    <3>1. \E i \in Item, c \in ShardStatus :
            /\ Effect(w, s, i, c, "off", 0, processed[s])
            /\ Sound(w, s, i, c, "off", 0, processed[s])
      BY <2>1, <2>2, <2>3, <2>5, Here, ReturnEffect
    <3> QED
      BY <3>1
  <2> QED
    BY <1>3, <2>4, <2>5, Zenon DEF Start
<1> QED
  BY <1>2, <1>3

\* The effect of a delivery, checkpointed or not.
LEMMA DeliverEffect ==
  ASSUME Inv, NEW w \in Workers, NEW s \in Shards, Deliver(w, s)
  PROVE  \E item, shard, p, k, done :
           Effect(w, s, item, shard, p, k, done) /\ Sound(w, s, item, shard, p, k, done)
<1> DEFINE r    == pos[w][s] + 1
           done == processed[s] \cup {r}
<1>1. TypeOK
  BY DEF Inv
<1>2. /\ con[w][s] = "poll" /\ s \in listed /\ pos[w][s] < Records[s]
      /\ pos' = [pos EXCEPT ![w][s] = r]
      /\ processed' = [processed EXCEPT ![s] = done]
      /\ UNCHANGED <<now, listed, closed, look, known, con>>
  BY <1>1 DEF Deliver, TypeOK
<1>3. r \in 0 .. Records[s] /\ r \in CheckpointsOf(s) /\ Upto(s, r, done) /\ r >= 1
  <2>1. pos[w][s] \in 0 .. Records[s] /\ Upto(s, pos[w][s], processed[s])
    BY Here
  <2> QED
    BY <1>2, <2>1, RecordsType DEF CheckpointsOf, Upto
<1>4. /\ con' = [con EXCEPT ![w][s] = "poll"]
      /\ \E l \in {look[w], NoShard, s} : look' = [look EXCEPT ![w] = l]
  <2>1. /\ con' = [con EXCEPT ![w][s] = con[w][s]]
        /\ \E l \in {look[w], NoShard, s} : look' = [look EXCEPT ![w] = l]
    BY <1>1, <1>2, Unmoved, ZenonT(30)
  <2> QED
    BY <1>2, <2>1, Zenon
<1>5. "poll" \in ConPcs /\ "poll" \in Going /\ "poll" # "off"
  BY DEF ConPcs, Going
<1>6. /\ Upto(s, row[s].ckpt, done) /\ Upto(s, cache[w][s].ckpt, done)
  BY Here, UptoFacts
<1>7. CASE UNCHANGED <<cache, row>>
  <2>1. /\ row' = [row EXCEPT ![s] = row[s]]
        /\ cache' = [cache EXCEPT ![w][s] = cache[w][s]]
    BY <1>1, <1>7, Unmoved
  <2>2. Effect(w, s, row[s], cache[w][s], "poll", r, done)
    BY <1>2, <1>4, <2>1 DEF Effect
  <2>3. Sound(w, s, row[s], cache[w][s], "poll", r, done)
    BY <1>2, <1>3, <1>5, <1>6, Here DEF Sound
  <2> QED
    BY <2>2, <2>3
<1>8. CASE /\ SetCache(w, s, [cache[w][s] EXCEPT !.ckpt = r])
           /\ row' = [row EXCEPT ![s] = CheckpointItem([cache[w][s] EXCEPT !.ckpt = r])]
  <2> DEFINE shard == [cache[w][s] EXCEPT !.ckpt = r]
             item  == CheckpointItem(shard)
  <2>1. shard \in ShardStatus /\ shard.ckpt = r
    BY <1>3, Here, RecordsType DEF ShardStatus, Checkpoints
  <2>2. item \in Item /\ item.ckpt = r
    BY <2>1, CheckpointItemType DEF CheckpointItem
  <2>3. Effect(w, s, item, shard, "poll", r, done)
    BY <1>2, <1>4, <1>8 DEF Effect, SetCache
  <2>4. r # 0 /\ r # NoAttr
    BY <1>3 DEF NoAttr
  <2> HIDE DEF shard, item
  <2>5. Sound(w, s, item, shard, "poll", r, done)
    BY <1>2, <1>3, <1>5, <2>1, <2>2, <2>4, Here DEF Sound
  <2> QED
    BY <2>3, <2>5
<1> QED
  BY <1>7, <1>8, Zenon DEF Deliver

\* The effect of the end of a shard, of its expiry and of renewLease.
LEMMA EndEffect ==
  ASSUME Inv, NEW w \in Workers, NEW s \in Shards,
         End(w, s) \/ Expired(w, s) \/ Renew(w, s)
  PROVE  \E item, shard, p, k, done :
           Effect(w, s, item, shard, p, k, done) /\ Sound(w, s, item, shard, p, k, done)
<1>1. TypeOK /\ cache[w][s] \in ShardStatus /\ row[s] \in Item /\ now \in Nat
  BY Here DEF Inv
<1>2. CASE End(w, s)
  <2> DEFINE shard == [cache[w][s] EXCEPT !.ckpt = ShardEnd]
  <2>1. /\ pos[w][s] = Records[s] /\ con[w][s] # "off"
        /\ Return(w, s, shard, CheckpointItem(shard))
        /\ UNCHANGED <<now, listed, closed, look, known, processed>>
    BY <1>2 DEF End
  <2>2. shard \in ShardStatus /\ shard.ckpt = ShardEnd
    BY <1>1, RecordsType DEF ShardStatus, Checkpoints
  <2>3. CheckpointItem(shard) \in Item /\ CheckpointItem(shard).ckpt = ShardEnd
    BY <2>2, CheckpointItemType DEF CheckpointItem
  <2>4. ShardEnd \in CheckpointsOf(s) /\ ShardEnd \notin {NoAttr, 0}
    BY RecordsType DEF CheckpointsOf, NoAttr
  <2>5. Upto(s, ShardEnd, processed[s])
    <3>1. Upto(s, Records[s], processed[s])
      BY <2>1, Here
    <3> QED
      BY <3>1, RecordsType DEF Upto
  <2> HIDE DEF shard
  <2>6. \E i \in Item, c \in ShardStatus :
          /\ Effect(w, s, i, c, "off", 0, processed[s])
          /\ Sound(w, s, i, c, "off", 0, processed[s])
    BY <2>1, <2>2, <2>3, <2>4, <2>5, ReturnEffect
  <2> QED
    BY <2>6
<1>3. CASE /\ con[w][s] = "poll" /\ Return(w, s, cache[w][s], row[s])
           /\ UNCHANGED <<now, listed, closed, look, known, processed>>
  <2>1. \E i \in Item, c \in ShardStatus :
          /\ Effect(w, s, i, c, "off", 0, processed[s])
          /\ Sound(w, s, i, c, "off", 0, processed[s])
    BY <1>1, <1>3, Here, ReturnEffect
  <2> QED
    BY <2>1
<1>4. CASE Renew(w, s) /\ ~Return(w, s, cache[w][s], row[s])
  <2> DEFINE req  == GetLeaseRequest(row[s], cache[w][s], w, now)
             item == GetLeaseItem(req, w)
             c    == GetLeaseGranted(cache[w][s], req, w)
  <2>1. /\ con[w][s] = "poll" /\ UNCHANGED <<con, pos>>
        /\ row' = [row EXCEPT ![s] = item] /\ SetCache(w, s, c)
        /\ UNCHANGED <<now, listed, closed, look, known, processed>>
    BY <1>4, Zenon DEF Renew
  <2>2. item \in Item /\ c \in ShardStatus
    BY <1>1, GetLeaseRequestType, GetLeaseItemType, GetLeaseGrantedType
  <2>3. /\ item.ckpt = IF cache[w][s].ckpt = 0 THEN NoAttr ELSE cache[w][s].ckpt
        /\ c.ckpt = cache[w][s].ckpt
    BY <1>1, CallsPassOn
  <2> HIDE DEF req, item, c
  <2>4. Effect(w, s, item, c, con[w][s], pos[w][s], processed[s])
    <3>1. /\ con' = [con EXCEPT ![w][s] = con[w][s]]
          /\ pos' = [pos EXCEPT ![w][s] = pos[w][s]]
          /\ processed' = [processed EXCEPT ![s] = processed[s]]
          /\ \E l \in {look[w], NoShard, s} : look' = [look EXCEPT ![w] = l]
      BY <1>1, <2>1, Unmoved, ZenonT(30)
    <3> QED
      BY <2>1, <3>1 DEF Effect, SetCache
  <2>5. cache[w][s].ckpt # NoAttr
    BY <1>1 DEF ShardStatus, Checkpoints, NoAttr
  <2>6. /\ item.ckpt \in CheckpointsOf(s) \cup {NoAttr}
        /\ Upto(s, item.ckpt, processed[s])
        /\ Kept(s) => item.ckpt \notin {NoAttr, 0}
    <3>1. Upto(s, NoAttr, processed[s])
      BY UptoFacts
    <3> QED
      BY <2>1, <2>3, <2>5, <3>1, Here, Zenon
  <2>7. Sound(w, s, item, c, con[w][s], pos[w][s], processed[s])
    BY <2>1, <2>2, <2>3, <2>6, Here DEF Sound
  <2> QED
    BY <2>4, <2>7
<1> QED
  BY <1>2, <1>3, <1>4 DEF Expired, Renew

-----------------------------------------------------------------------------
\* An effect that is sound keeps the invariant.
LEMMA EffectKeeps ==
  ASSUME Inv, NEW w \in Workers, NEW s \in Shards,
         NEW item, NEW shard, NEW p, NEW k, NEW done,
         Effect(w, s, item, shard, p, k, done), Sound(w, s, item, shard, p, k, done)
  PROVE  Inv'
<1>1. TypeOK /\ CoveredInv /\ KeptInv /\ LookInv
  BY DEF Inv
<1>2. /\ row' = [row EXCEPT ![s] = item]
      /\ cache' = [cache EXCEPT ![w][s] = shard]
      /\ con' = [con EXCEPT ![w][s] = p]
      /\ pos' = [pos EXCEPT ![w][s] = k]
      /\ processed' = [processed EXCEPT ![s] = done]
      /\ \E l \in {look[w], NoShard, s} : look' = [look EXCEPT ![w] = l]
      /\ UNCHANGED <<now, listed, closed, known>>
  BY DEF Effect
<1>3. /\ item \in Item /\ shard \in ShardStatus /\ p \in ConPcs
      /\ item.ckpt \in CheckpointsOf(s) \cup {NoAttr} /\ Upto(s, item.ckpt, done)
      /\ shard.ckpt \in CheckpointsOf(s) /\ Upto(s, shard.ckpt, done)
      /\ k \in 0 .. Records[s] /\ Upto(s, k, done)
  BY DEF Sound
<1>4. processed[s] \subseteq done /\ done \subseteq 1 .. Records[s]
  BY <1>1, Here, RecordsType DEF Sound
<1>5. TypeOK'
  <2>1. /\ row' \in [Shards -> Item]
        /\ cache' \in [Workers -> [Shards -> ShardStatus]]
        /\ con' \in [Workers -> [Shards -> ConPcs]]
    BY <1>1, <1>2, <1>3 DEF TypeOK
  <2>2. k \in 0 .. LastRecord /\ done \in SUBSET (1 .. LastRecord)
    BY <1>3, <1>4, RecordsType
  <2>3. /\ pos' \in [Workers -> [Shards -> 0 .. LastRecord]]
        /\ processed' \in [Shards -> SUBSET (1 .. LastRecord)]
    BY <1>1, <1>2, <2>2 DEF TypeOK
  <2>4. look' \in [Workers -> Shards \cup {NoShard}]
    BY <1>1, <1>2 DEF TypeOK
  <2> QED
    BY <1>1, <1>2, <2>1, <2>3, <2>4 DEF TypeOK
<1>6. CoveredInv'
  <2>1. ASSUME NEW t \in Shards
        PROVE  /\ processed'[t] \subseteq 1 .. Records[t]
               /\ row'[t].ckpt \in CheckpointsOf(t) \cup {NoAttr}
               /\ Upto(t, row'[t].ckpt, processed'[t])
               /\ processed[t] \subseteq processed'[t]
    <3>1. CASE t = s
      BY <1>1, <1>2, <1>3, <1>4, <3>1 DEF TypeOK
    <3>2. CASE t # s
      <4>1. row'[t] = row[t] /\ processed'[t] = processed[t]
        BY <1>1, <1>2, <3>2 DEF TypeOK
      <4> QED
        BY <1>1, <4>1 DEF CoveredInv
    <3> QED
      BY <3>1, <3>2
  <2>2. ASSUME NEW v \in Workers, NEW t \in Shards
        PROVE  /\ cache'[v][t].ckpt \in CheckpointsOf(t)
               /\ Upto(t, cache'[v][t].ckpt, processed'[t])
               /\ pos'[v][t] \in 0 .. Records[t]
               /\ Upto(t, pos'[v][t], processed'[t])
    <3>1. CASE v = w /\ t = s
      <4>1. cache'[v][t] = shard /\ pos'[v][t] = k /\ processed'[t] = done
        BY <1>1, <1>2, <3>1 DEF TypeOK
      <4> QED
        BY <1>3, <3>1, <4>1
    <3>2. CASE ~(v = w /\ t = s)
      <4>1. cache'[v][t] = cache[v][t] /\ pos'[v][t] = pos[v][t]
        BY <1>1, <1>2, <3>2 DEF TypeOK
      <4>2. processed[t] \subseteq processed'[t]
        BY <2>1
      <4> QED
        BY <1>1, <4>1, <4>2, UptoFacts DEF CoveredInv
    <3> QED
      BY <3>1, <3>2
  <2> QED
    BY <2>1, <2>2, Zenon DEF CoveredInv, CheckpointsOf, Upto
<1>7. KeptInv'
  <2> SUFFICES ASSUME NEW t \in Shards, Kept(t)'
               PROVE  /\ row'[t].ckpt \notin {NoAttr, 0}
                      /\ \A v \in Workers : /\ con'[v][t] # "off" => t \in known'[v]
                                            /\ con'[v][t] = "poll" => cache'[v][t].ckpt # 0
    BY DEF KeptInv
  <2>1. Kept(t)
    BY <1>2 DEF Kept
  <2>2. row'[t].ckpt \notin {NoAttr, 0}
    <3>1. CASE t = s
      <4>1. row'[t] = item
        BY <1>1, <1>2, <3>1 DEF TypeOK
      <4> QED
        BY <2>1, <3>1, <4>1 DEF Sound
    <3>2. CASE t # s
      <4>1. row'[t] = row[t]
        BY <1>1, <1>2, <3>2 DEF TypeOK
      <4> QED
        BY <1>1, <2>1, <4>1 DEF KeptInv
    <3> QED
      BY <3>1, <3>2
  <2>3. ASSUME NEW v \in Workers
        PROVE  /\ con'[v][t] # "off" => t \in known'[v]
               /\ con'[v][t] = "poll" => cache'[v][t].ckpt # 0
    <3>1. CASE v = w /\ t = s
      <4>1. con'[v][t] = p /\ cache'[v][t] = shard /\ known' = known
        BY <1>1, <1>2, <3>1 DEF TypeOK
      <4> QED
        BY <2>1, <3>1, <4>1 DEF Sound
    <3>2. CASE ~(v = w /\ t = s)
      <4>1. con'[v][t] = con[v][t] /\ cache'[v][t] = cache[v][t] /\ known' = known
        BY <1>1, <1>2, <3>2 DEF TypeOK
      <4> QED
        BY <1>1, <2>1, <4>1 DEF KeptInv
    <3> QED
      BY <3>1, <3>2
  <2> QED
    BY <2>2, <2>3
<1>8. LookInv'
  <2> SUFFICES ASSUME NEW v \in Workers, NEW t \in Shards, look'[v] = t
               PROVE  /\ con'[v][t] = "off" /\ t \in known'[v]
                      /\ Kept(t)' => cache'[v][t].ckpt # 0
    BY DEF LookInv
  <2>1. Kept(t)' => Kept(t)
    BY <1>2 DEF Kept
  <2>2. CASE v = w /\ t = s
    <3>1. con'[v][t] = p /\ cache'[v][t] = shard /\ known' = known
      BY <1>1, <1>2, <2>2 DEF TypeOK
    <3> QED
      BY <2>1, <2>2, <3>1 DEF Sound
  <2>3. CASE ~(v = w /\ t = s)
    <3>1. con'[v][t] = con[v][t] /\ cache'[v][t] = cache[v][t] /\ known' = known
      BY <1>1, <1>2, <2>3 DEF TypeOK
    <3>2. look[v] = t
      BY <1>1, <1>2, <2>3, ShardsAssumption DEF TypeOK
    <3> QED
      BY <1>1, <2>1, <3>1, <3>2 DEF LookInv
  <2> QED
    BY <2>2, <2>3
<1> QED
  BY <1>5, <1>6, <1>7, <1>8 DEF Inv

\* A worker that gets a lease gets the one it looks at.
LEMMA Looks ==
  ASSUME Inv, NEW w \in Workers, GetLease(w)
  PROVE  look[w] \in Shards
BY DEF Inv, TypeOK, GetLease

\* Every step of a worker on a shard has a sound effect.
LEMMA StepEffect ==
  ASSUME Inv, NEW w \in Workers, NEW s \in Shards,
         \/ Fetch(w, s) \/ (look[w] = s /\ GetLease(w))
         \/ ConStep(w, s) \/ Renew(w, s)
  PROVE  \E item, shard, p, k, done :
           Effect(w, s, item, shard, p, k, done) /\ Sound(w, s, item, shard, p, k, done)
BY LoopEffect, StartEffect, DeliverEffect, EndEffect DEF ConStep

\* syncShard forgets only shards that have left the stream, and their rows;
\* what it enters anew it does not consume.
LEMMA SyncKeeps ==
  ASSUME Inv, NEW w \in Workers, Sync(w)
  PROVE  Inv'
<1>1. TypeOK /\ CoveredInv /\ KeptInv /\ LookInv
  BY DEF Inv
<1>2. PICK removed \in SUBSET (known[w] \ listed) :
        row' = [s \in Shards |-> IF s \in removed THEN NoItem ELSE row[s]]
  BY Zenon DEF Sync
<1>3. /\ known' = [known EXCEPT ![w] = listed]
      /\ cache' = [cache EXCEPT ![w] =
                     [s \in Shards |->
                        IF s \in listed \cap known[w] \/ con[w][s] # "off"
                        THEN cache[w][s] ELSE NewShardStatus]]
      /\ look[w] = NoShard
      /\ UNCHANGED <<now, listed, closed, look, con, pos, processed>>
  BY <1>1 DEF Sync, conVars, TypeOK
<1>4. \A v \in Workers, t \in Shards :
        \/ cache'[v][t] = cache[v][t]
        \/ v = w /\ con[w][t] = "off" /\ cache'[v][t] = NewShardStatus
  BY <1>1, <1>3 DEF TypeOK
<1>5. \A t \in Shards :
        \/ row'[t] = row[t]
        \/ t \in removed /\ row'[t] = NoItem
  BY <1>2
<1>6. /\ NoItem.ckpt = NoAttr /\ NewShardStatus.ckpt = 0
      /\ NoItem \in Item /\ NewShardStatus \in ShardStatus
  BY InitialValuesType DEF NoItem, NewShardStatus
<1>7. TypeOK'
  <2>1. row' \in [Shards -> Item]
    BY <1>1, <1>2, <1>6 DEF TypeOK
  <2>2. cache' \in [Workers -> [Shards -> ShardStatus]]
    BY <1>1, <1>3, <1>6 DEF TypeOK
  <2>3. known' \in [Workers -> SUBSET Shards]
    BY <1>1, <1>3 DEF TypeOK
  <2> QED
    BY <1>1, <1>3, <2>1, <2>2, <2>3 DEF TypeOK
<1>8. CoveredInv'
  <2>1. ASSUME NEW t \in Shards
        PROVE  /\ processed'[t] \subseteq 1 .. Records[t]
               /\ row'[t].ckpt \in CheckpointsOf(t) \cup {NoAttr}
               /\ Upto(t, row'[t].ckpt, processed'[t])
    BY <1>1, <1>3, <1>5, <1>6, UptoFacts DEF CoveredInv
  <2>2. ASSUME NEW v \in Workers, NEW t \in Shards
        PROVE  /\ cache'[v][t].ckpt \in CheckpointsOf(t)
               /\ Upto(t, cache'[v][t].ckpt, processed'[t])
               /\ pos'[v][t] \in 0 .. Records[t]
               /\ Upto(t, pos'[v][t], processed'[t])
    <3>1. 0 \in CheckpointsOf(t) /\ Upto(t, 0, processed[t])
      BY RecordsType, UptoFacts DEF CheckpointsOf
    <3> QED
      BY <1>1, <1>3, <1>4, <1>6, <3>1 DEF CoveredInv
  <2> QED
    BY <2>1, <2>2, Zenon DEF CoveredInv, CheckpointsOf, Upto
<1>9. KeptInv'
  <2> SUFFICES ASSUME NEW t \in Shards, Kept(t)'
               PROVE  /\ row'[t].ckpt \notin {NoAttr, 0}
                      /\ \A v \in Workers : /\ con'[v][t] # "off" => t \in known'[v]
                                            /\ con'[v][t] = "poll" => cache'[v][t].ckpt # 0
    BY DEF KeptInv
  <2>1. Kept(t) /\ t \in listed
    BY <1>3 DEF Kept
  <2>2. row'[t].ckpt \notin {NoAttr, 0}
    BY <1>1, <1>5, <2>1 DEF KeptInv
  <2>3. ASSUME NEW v \in Workers
        PROVE  /\ con'[v][t] # "off" => t \in known'[v]
               /\ con'[v][t] = "poll" => cache'[v][t].ckpt # 0
    <3>1. /\ con[v][t] # "off" => t \in known[v]
          /\ con[v][t] = "poll" => cache[v][t].ckpt # 0
          /\ con' = con
      BY <1>1, <1>3, <2>1 DEF KeptInv
    <3>2. known'[v] = known[v] \/ known'[v] = listed
      BY <1>1, <1>3 DEF TypeOK
    <3> QED
      BY <1>4, <2>1, <3>1, <3>2
  <2> QED
    BY <2>2, <2>3
<1>10. LookInv'
  <2> SUFFICES ASSUME NEW v \in Workers, NEW t \in Shards, look'[v] = t
               PROVE  /\ con'[v][t] = "off" /\ t \in known'[v]
                      /\ Kept(t)' => cache'[v][t].ckpt # 0
    BY DEF LookInv
  <2>1. v # w
    BY <1>3, ShardsAssumption
  <2>2. /\ look[v] = t /\ con' = con /\ known'[v] = known[v]
        /\ cache'[v] = cache[v] /\ (Kept(t)' => Kept(t))
    BY <1>1, <1>3, <2>1 DEF TypeOK, Kept
  <2> QED
    BY <1>1, <2>2 DEF LookInv
<1> QED
  BY <1>7, <1>8, <1>9, <1>10 DEF Inv

\* The clock and the stream change no checkpoint, and no first shard enters
\* the stream.
LEMMA StreamKeeps ==
  ASSUME Inv,
         \/ Tick \/ UNCHANGED vars
         \/ \E s \in Shards : Reshard(s) \/ Retire(s)
  PROVE  Inv'
<1>1. TypeOK /\ CoveredInv /\ KeptInv /\ LookInv
  BY DEF Inv
<1>2. /\ UNCHANGED <<row, look, known, cache, con, pos, processed>>
      /\ now' \in Nat \ {0} /\ listed' \subseteq Shards /\ closed' \subseteq Shards
      /\ \A t \in listed' : IsRoot(t) => t \in listed
  <2>1. CASE Tick
    BY <1>1, <2>1 DEF Tick, conVars, TypeOK
  <2>2. CASE UNCHANGED vars
    BY <1>1, <2>2 DEF vars, conVars, TypeOK
  <2>3. ASSUME NEW s \in Shards, Reshard(s)
        PROVE  <1>2
    BY <1>1, <2>3, ShardsAssumption DEF Reshard, conVars, TypeOK, Children, IsRoot
  <2>4. ASSUME NEW s \in Shards, Retire(s)
        PROVE  <1>2
    BY <1>1, <2>4 DEF Retire, conVars, TypeOK
  <2> QED
    BY <2>1, <2>2, <2>3, <2>4
<1>3. TypeOK'
  BY <1>1, <1>2 DEF TypeOK
<1>4. CoveredInv'
  BY <1>1, <1>2 DEF CoveredInv, CheckpointsOf, Upto
<1>5. KeptInv'
  <2>1. \A t \in Shards : Kept(t)' => Kept(t)
    BY <1>2 DEF Kept
  <2> QED
    BY <1>1, <1>2, <2>1 DEF KeptInv
<1>6. LookInv'
  <2>1. \A t \in Shards : Kept(t)' => Kept(t)
    BY <1>2 DEF Kept
  <2> QED
    BY <1>1, <1>2, <2>1 DEF LookInv
<1> QED
  BY <1>3, <1>4, <1>5, <1>6 DEF Inv

\* Workers start with rows that cover what was delivered.
LEMMA InitKeeps == Init => Inv
<1> SUFFICES ASSUME Init PROVE Inv
  OBVIOUS
<1>1. /\ row = [s \in Shards |->
                  IF IsRoot(s) /\ Checkpointed > 0
                  THEN [NoItem EXCEPT !.timeout = 1, !.ckpt = Checkpointed]
                  ELSE NoItem]
      /\ cache = [w \in Workers |-> [s \in Shards |-> NewShardStatus]]
      /\ con = [w \in Workers |-> [s \in Shards |-> "off"]]
      /\ pos = [w \in Workers |-> [s \in Shards |-> 0]]
      /\ processed = [s \in Shards |-> IF IsRoot(s) THEN 1 .. Checkpointed ELSE {}]
  BY DEF Init
<1>2. /\ NoItem.ckpt = NoAttr /\ NewShardStatus.ckpt = 0
      /\ NoItem \in Item /\ NewShardStatus \in ShardStatus
  BY InitialValuesType DEF NoItem, NewShardStatus
<1>3. ASSUME NEW s \in Shards, IsRoot(s)
      PROVE  Checkpointed \in 0 .. Records[s] /\ Checkpointed \in 0 .. LastRecord
  BY <1>3, ShardsAssumption, RecordsType DEF IsRoot
<1> DEFINE first == [NoItem EXCEPT !.timeout = 1, !.ckpt = Checkpointed]
<1>4. first.ckpt = Checkpointed
  BY DEF NoItem
<1>5. ASSUME NEW s \in Shards, IsRoot(s)
      PROVE  first \in Item
  <2>1. Checkpointed \in Checkpoints /\ 1 \in Times
    BY <1>3, <1>5, RecordsType DEF Checkpoints, Times
  <2>2. [NoItem EXCEPT !.timeout = 1] \in Item
    BY <1>2, <2>1 DEF Item
  <2> QED
    BY <2>1, <2>2 DEF Item
<1> HIDE DEF first
<1>6. \A s \in Shards : \/ row[s] = NoItem /\ ~(IsRoot(s) /\ Checkpointed > 0)
                        \/ row[s] = first /\ IsRoot(s) /\ Checkpointed > 0
  BY <1>1 DEF first
<1>7. TypeOK
  <2>1. row \in [Shards -> Item]
    BY <1>1, <1>2, <1>5, <1>6
  <2>2. /\ cache \in [Workers -> [Shards -> ShardStatus]]
        /\ con \in [Workers -> [Shards -> ConPcs]]
    BY <1>1, <1>2 DEF ConPcs
  <2>3. pos \in [Workers -> [Shards -> 0 .. LastRecord]]
    BY <1>1, BoundsAssumption
  <2>4. processed \in [Shards -> SUBSET (1 .. LastRecord)]
    <3>1. \A s \in Shards : IsRoot(s) => 1 .. Checkpointed \subseteq 1 .. LastRecord
      BY <1>3, BoundsAssumption
    <3> QED
      BY <1>1, <3>1
  <2>5. now \in Nat \ {0} /\ listed \subseteq Shards /\ closed \subseteq Shards
    BY DEF Init
  <2>6. known \in [Workers -> SUBSET Shards]
    BY DEF Init
  <2>7. look \in [Workers -> Shards \cup {NoShard}]
    BY DEF Init
  <2> QED
    BY <2>1, <2>2, <2>3, <2>4, <2>5, <2>6, <2>7 DEF TypeOK
<1>8. CoveredInv
  <2>1. ASSUME NEW s \in Shards
        PROVE  /\ processed[s] \subseteq 1 .. Records[s]
               /\ row[s].ckpt \in CheckpointsOf(s) \cup {NoAttr}
               /\ Upto(s, row[s].ckpt, processed[s])
    <3>1. CASE IsRoot(s)
      <4>1. processed[s] = 1 .. Checkpointed /\ Checkpointed \in 0 .. Records[s]
        BY <1>1, <1>3, <3>1
      <4>2. Upto(s, Checkpointed, processed[s])
        BY <4>1, RecordsType DEF Upto
      <4>3. processed[s] \subseteq 1 .. Records[s]
        BY <4>1, RecordsType
      <4> QED
        BY <1>2, <1>4, <1>6, <4>1, <4>2, <4>3, UptoFacts DEF CheckpointsOf
    <3>2. CASE ~IsRoot(s)
      BY <1>1, <1>2, <1>6, <3>2, UptoFacts
    <3> QED
      BY <3>1, <3>2
  <2>2. ASSUME NEW w \in Workers, NEW s \in Shards
        PROVE  /\ cache[w][s].ckpt \in CheckpointsOf(s)
               /\ Upto(s, cache[w][s].ckpt, processed[s])
               /\ pos[w][s] \in 0 .. Records[s]
               /\ Upto(s, pos[w][s], processed[s])
    BY <1>1, <1>2, RecordsType, UptoFacts DEF CheckpointsOf
  <2> QED
    BY <2>1, <2>2 DEF CoveredInv
<1>9. KeptInv
  <2>1. ASSUME NEW s \in Shards, Kept(s)
        PROVE  /\ row[s].ckpt \notin {NoAttr, 0}
               /\ \A w \in Workers : con[w][s] = "off"
    <3>1. row[s] = first /\ Checkpointed > 0
      BY <1>6, <2>1 DEF Kept
    <3>2. row[s].ckpt \notin {NoAttr, 0}
      BY <1>4, <3>1, ShardsAssumption DEF NoAttr
    <3>3. \A w \in Workers : con[w][s] = "off"
      BY Zenon DEF Init
    <3> QED
      BY <3>2, <3>3
  <2> QED
    BY <2>1 DEF KeptInv
<1>10. LookInv
  BY ShardsAssumption DEF Init, LookInv
<1> QED
  BY <1>7, <1>8, <1>9, <1>10 DEF Inv

\* The rows, the caches and the positions cover only delivered records, and
\* a first shard of the stream keeps the checkpoint it has had (syncShard,
\* GetLease, the record processor checkpointer).
THEOREM Invariant == Spec => []Inv
<1>1. Inv /\ [Next]_vars => Inv'
  <2> SUFFICES ASSUME Inv, [Next]_vars PROVE Inv'
    OBVIOUS
  <2>1. ASSUME NEW w \in Workers, NEW s \in Shards,
               \/ Fetch(w, s) \/ (look[w] = s /\ GetLease(w))
               \/ ConStep(w, s) \/ Renew(w, s)
        PROVE  Inv'
    BY <2>1, StepEffect, EffectKeeps
  <2>2. ASSUME NEW w \in Workers, GetLease(w)
        PROVE  Inv'
    BY <2>1, <2>2, Looks
  <2> QED
    BY <2>1, <2>2, SyncKeeps, StreamKeeps DEF Next
<1> QED
  BY <1>1, InitKeeps, PTL DEF Spec

\* Rows, caches and positions are what the code can hold.
THEOREM TypeCorrect == Spec => []TypeOK
<1>1. Inv => TypeOK
  BY DEF Inv
<1> QED
  BY <1>1, Invariant, PTL

-----------------------------------------------------------------------------
\* What the order over a reshard takes: a shard that has children is one of
\* the first shards, which have been checkpointed before.
ParentsCheckpointed ==
  \A s \in Shards : ~IsRoot(s) => IsRoot(Parent[s]) /\ Checkpointed > 0

\* waitOnParentShard ends once the parent is finished, or is gone.
LEMMA DoneIsOver ==
  ASSUME Inv, ParentsCheckpointed, NEW s \in Shards, ~IsRoot(s), ParentDone(s)
  PROVE  ParentOver(s)
<1>1. Parent[s] \in Shards /\ IsRoot(Parent[s]) /\ Checkpointed > 0
  BY ShardsAssumption DEF ParentsCheckpointed, IsRoot
<1>2. CASE row[Parent[s]].ckpt = NoAttr
  <2>1. ~Kept(Parent[s])
    BY <1>1, <1>2 DEF Inv, KeptInv
  <2> QED
    BY <1>1, <2>1 DEF Kept, ParentOver
<1>3. CASE row[Parent[s]].ckpt = ShardEnd
  <2>1. /\ Upto(Parent[s], ShardEnd, processed[Parent[s]])
        /\ processed[Parent[s]] \subseteq 1 .. Records[Parent[s]]
    BY <1>1, <1>3 DEF Inv, CoveredInv
  <2>2. \A r \in 1 .. Records[Parent[s]] : r <= ShardEnd
    BY <1>1, RecordsType
  <2>3. 1 .. Records[Parent[s]] \subseteq processed[Parent[s]]
    BY <2>1, <2>2 DEF Upto
  <2> QED
    BY <2>1, <2>3 DEF ParentOver, AllRecords
<1> QED
  BY <1>2, <1>3 DEF ParentDone

\* A parent that is finished, or gone, stays so.
LEMMA OverStays ==
  ASSUME Inv, Inv', ParentsCheckpointed, NEW s \in Shards, ~IsRoot(s), ParentOver(s),
         \A t \in listed' : IsRoot(t) => t \in listed,
         \A t \in Shards : processed[t] \subseteq processed'[t]
  PROVE  ParentOver(s)'
<1>1. Parent[s] \in Shards /\ IsRoot(Parent[s])
  BY ShardsAssumption DEF ParentsCheckpointed, IsRoot
<1>2. CASE Parent[s] \notin listed
  BY <1>1, <1>2 DEF ParentOver
<1>3. CASE processed[Parent[s]] = AllRecords(Parent[s])
  <2>1. processed'[Parent[s]] \subseteq 1 .. Records[Parent[s]]
    BY <1>1 DEF Inv, CoveredInv
  <2> QED
    BY <1>1, <1>3, <2>1 DEF ParentOver, AllRecords
<1> QED
  BY <1>2, <1>3 DEF ParentOver

\* A step of a worker on a shard keeps the order.
LEMMA EffectOrders ==
  ASSUME Inv, Inv', ParentsCheckpointed, OrderInv, NEW w \in Workers, NEW s \in Shards,
         NEW item, NEW shard, NEW p, NEW k, NEW done,
         Effect(w, s, item, shard, p, k, done), Sound(w, s, item, shard, p, k, done)
  PROVE  OrderInv'
<1>1. /\ con' = [con EXCEPT ![w][s] = p]
      /\ processed' = [processed EXCEPT ![s] = done]
      /\ listed' = listed
      /\ con \in [Workers -> [Shards -> ConPcs]]
      /\ processed \in [Shards -> SUBSET (1 .. LastRecord)]
  BY DEF Effect, Inv, TypeOK
<1>2. \A t \in Shards : processed[t] \subseteq processed'[t]
  <2>1. processed[s] \subseteq done
    BY DEF Sound
  <2> QED
    BY <1>1, <2>1
<1>3. ASSUME NEW t \in Shards, ~IsRoot(t),
             (processed[t] # {} \/ \E v \in Workers : con[v][t] \in Going)
      PROVE  ParentOver(t)
  BY <1>3 DEF OrderInv
<1>4. ASSUME NEW t \in Shards, ~IsRoot(t), processed'[t] # {}
      PROVE  ParentOver(t)
  <2>1. CASE processed[t] # {}
    BY <1>3, <1>4, <2>1
  <2>2. CASE processed[t] = {}
    <3>1. t = s /\ done # processed[s]
      BY <1>1, <1>4, <2>2
    <3>2. con[w][t] \in Going
      BY <3>1 DEF Sound, Going
    <3> QED
      BY <1>3, <1>4, <3>2
  <2> QED
    BY <2>1, <2>2
<1>5. ASSUME NEW t \in Shards, ~IsRoot(t), NEW v \in Workers, con'[v][t] \in Going
      PROVE  ParentOver(t)
  <2>1. CASE con[v][t] \in Going
    BY <1>3, <1>5, <2>1
  <2>2. CASE con[v][t] \notin Going
    <3>1. v = w /\ t = s /\ p \in Going
      BY <1>1, <1>5, <2>2
    <3>2. ParentDone(t)
      BY <1>5, <2>2, <3>1 DEF Sound
    <3> QED
      BY <1>5, <3>2, DoneIsOver
  <2> QED
    BY <2>1, <2>2
<1>6. ASSUME NEW t \in Shards, ~IsRoot(t),
             processed'[t] # {} \/ \E v \in Workers : con'[v][t] \in Going
      PROVE  ParentOver(t)'
  <2>1. ParentOver(t)
    BY <1>4, <1>5, <1>6
  <2> QED
    BY <1>1, <1>2, <1>6, <2>1, OverStays
<1> QED
  BY <1>6 DEF OrderInv, IsRoot

\* What leaves the consumers and the records alone keeps the order, unless a
\* parent comes back.
LEMMA OthersOrder ==
  ASSUME Inv, Inv', ParentsCheckpointed, OrderInv,
         \/ Tick \/ UNCHANGED vars
         \/ \E w \in Workers : Sync(w)
         \/ \E s \in Shards : Reshard(s) \/ Retire(s)
  PROVE  OrderInv'
<1>1. UNCHANGED <<con, processed>> /\ \A t \in listed' : IsRoot(t) => t \in listed
  <2>1. CASE Tick \/ UNCHANGED vars
    BY <2>1 DEF Tick, vars, conVars
  <2>2. ASSUME NEW w \in Workers, Sync(w)
        PROVE  <1>1
    BY <2>2 DEF Sync, conVars
  <2>3. ASSUME NEW s \in Shards, Reshard(s)
        PROVE  <1>1
    BY <2>3, ShardsAssumption DEF Reshard, conVars, Children, IsRoot
  <2>4. ASSUME NEW s \in Shards, Retire(s)
        PROVE  <1>1
    BY <2>4 DEF Retire, conVars
  <2> QED
    BY <2>1, <2>2, <2>3, <2>4
<1>2. ASSUME NEW t \in Shards, ~IsRoot(t),
             processed'[t] # {} \/ \E v \in Workers : con'[v][t] \in Going
      PROVE  ParentOver(t)'
  <2>1. ParentOver(t)
    BY <1>1, <1>2 DEF OrderInv
  <2> QED
    BY <1>1, <1>2, <2>1, OverStays
<1> QED
  BY <1>2 DEF OrderInv, IsRoot

\* A child is consumed, or delivered to, only after its parent.
LEMMA OrderInvariant == ParentsCheckpointed => (Spec => []OrderInv)
<1> SUFFICES ASSUME ParentsCheckpointed PROVE Spec => []OrderInv
  OBVIOUS
<1>1. Init => OrderInv
  <2> SUFFICES ASSUME Init, NEW s \in Shards, ~IsRoot(s)
               PROVE  processed[s] = {} /\ \A w \in Workers : con[w][s] \notin Going
    BY DEF OrderInv
  <2>1. \A w \in Workers : con[w][s] = "off"
    BY Zenon DEF Init
  <2>2. processed[s] = {}
    BY DEF Init
  <2> QED
    BY <2>1, <2>2 DEF Going
<1>2. Inv /\ Inv' /\ OrderInv /\ [Next]_vars => OrderInv'
  <2> SUFFICES ASSUME Inv, Inv', OrderInv, [Next]_vars PROVE OrderInv'
    OBVIOUS
  <2>1. ASSUME NEW w \in Workers, NEW s \in Shards,
               \/ Fetch(w, s) \/ (look[w] = s /\ GetLease(w))
               \/ ConStep(w, s) \/ Renew(w, s)
        PROVE  OrderInv'
    BY <2>1, StepEffect, EffectOrders
  <2>2. ASSUME NEW w \in Workers, GetLease(w)
        PROVE  OrderInv'
    BY <2>1, <2>2, Looks
  <2> QED
    BY <2>1, <2>2, OthersOrder DEF Next
<1> QED
  BY <1>1, <1>2, Invariant, PTL DEF Spec

\* No record of a child shard is delivered before all of its parent's, as long
\* as the parent is in the stream (waitOnParentShard), whoever leases the
\* parent, renews its lease or checkpoints late.
THEOREM ParentsFirst == ParentsCheckpointed => (Spec => []ParentFirst)
<1>1. OrderInv => ParentFirst
  BY DEF OrderInv, ParentFirst, ParentOver
<1> QED
  BY <1>1, OrderInvariant, PTL

-----------------------------------------------------------------------------
\* Where the next consumer of s starts if the row's checkpoint is c.
StartOf(s, c) ==
  CASE c = NoAttr   -> 0
    [] c = ShardEnd -> Records[s] + 1
    [] OTHER        -> c

\* It is a start the shard can have, and covers as much as the checkpoint.
LEMMA StartFacts ==
  ASSUME NEW s \in Shards, NEW c \in CheckpointsOf(s) \cup {NoAttr}, NEW done,
         Upto(s, c, done)
  PROVE  /\ StartOf(s, c) \in 0 .. Records[s] + 1
         /\ c \in 0 .. Records[s] => StartOf(s, c) = c
         /\ c = NoAttr => StartOf(s, c) = 0
         /\ Upto(s, StartOf(s, c), done)
<1>1. /\ Records[s] \in Nat /\ Records[s] <= LastRecord /\ LastRecord \in Nat
      /\ ShardEnd = LastRecord + 1
  BY RecordsType
<1>2. CASE c = NoAttr
  BY <1>1, <1>2, UptoFacts DEF StartOf, NoAttr
<1>3. CASE c = ShardEnd
  <2>1. StartOf(s, c) = Records[s] + 1
    BY <1>1, <1>3 DEF StartOf, NoAttr
  <2>2. Upto(s, Records[s] + 1, done)
    BY <1>1, <1>3 DEF Upto
  <2> QED
    BY <1>1, <1>3, <2>1, <2>2 DEF NoAttr
<1>4. CASE c \in 0 .. Records[s]
  <2>1. StartOf(s, c) = c
    BY <1>1, <1>4 DEF StartOf, NoAttr
  <2> QED
    BY <1>1, <1>4, <2>1 DEF NoAttr
<1> QED
  BY <1>2, <1>3, <1>4 DEF CheckpointsOf

\* A sound effect is a delivery of the abstract specification, or a checkpoint
\* of it, which may be the one that was there.
LEMMA EffectDelivers ==
  ASSUME Inv, Inv', ParentsCheckpointed, OrderInv, NEW w \in Workers, NEW s \in Shards,
         NEW item, NEW shard, NEW p, NEW k, NEW done,
         Effect(w, s, item, shard, p, k, done), Sound(w, s, item, shard, p, k, done)
  PROVE  Delivery!Deliver(s) \/ Delivery!Save(s)
<1> DEFINE saved == [t \in Shards |-> Saved(t)]
<1>1. /\ row' = [row EXCEPT ![s] = item]
      /\ processed' = [processed EXCEPT ![s] = done]
      /\ listed' = listed
      /\ row \in [Shards -> Item]
      /\ processed \in [Shards -> SUBSET (1 .. LastRecord)]
  BY DEF Effect, Inv, TypeOK
<1>2. row'[s] = item /\ processed'[s] = done
  BY <1>1
<1>3. saved' = [saved EXCEPT ![s] = Saved(s)']
  <2>1. \A t \in Shards \ {s} : Saved(t)' = Saved(t)
    BY <1>1 DEF Saved
  <2>2. saved' = [t \in Shards |-> Saved(t)']
    OBVIOUS
  <2> QED
    BY <2>1, <2>2
<1>4. /\ Saved(s)' \in 0 .. Records[s] + 1
      /\ Upto(s, Saved(s)', done)
      /\ item.ckpt \in 0 .. Records[s] => Saved(s)' = item.ckpt
  <2>1. Saved(s)' = StartOf(s, item.ckpt)
    BY <1>2 DEF Saved, StartOf
  <2>2. item.ckpt \in CheckpointsOf(s) \cup {NoAttr} /\ Upto(s, item.ckpt, done)
    BY DEF Sound
  <2> QED
    BY <2>1, <2>2, StartFacts
<1> HIDE DEF saved
<1>5. CASE done = processed[s]
  <2>1. processed' = processed
    BY <1>1, <1>5
  <2>2. Delivery!Covers(s, Saved(s)')
    BY <1>4, <1>5 DEF Delivery!Covers, Upto
  <2> QED
    BY <1>1, <1>3, <1>4, <2>1, <2>2 DEF Delivery!Save, Delivery!Finished, saved
<1>6. CASE done # processed[s]
  <2>1. /\ con[w][s] \in Going /\ pos[w][s] < Records[s]
        /\ done = processed[s] \cup {pos[w][s] + 1}
        /\ item = row[s] \/ item.ckpt = pos[w][s] + 1
    BY <1>6 DEF Sound, Going
  <2>2. pos[w][s] \in 0 .. Records[s] /\ Upto(s, pos[w][s], processed[s])
    BY Here
  <2> DEFINE r == pos[w][s] + 1
  <2>3. /\ r \in 1 .. Records[s] /\ r - 1 = pos[w][s]
        /\ processed' = [processed EXCEPT ![s] = processed[s] \cup {r}]
    BY <1>1, <2>1, <2>2, RecordsType
  <2>4. Delivery!Covers(s, r - 1)
    BY <2>2, <2>3 DEF Delivery!Covers, Upto
  <2>5. Delivery!ParentOver(s)
    <3>1. CASE IsRoot(s)
      BY <3>1, ShardsAssumption DEF IsRoot, Delivery!ParentOver, Inv, TypeOK
    <3>2. CASE ~IsRoot(s)
      BY <2>1, <3>2 DEF OrderInv, ParentOver, Delivery!ParentOver, AllRecords
    <3> QED
      BY <3>1, <3>2
  <2>6. \/ saved' = saved
        \/ \E c \in 0 .. Records[s] :
             Delivery!Covers(s, c)' /\ saved' = [saved EXCEPT ![s] = c]
    <3>1. CASE item = row[s]
      <4>1. Saved(s)' = Saved(s)
        BY <1>2, <3>1 DEF Saved
      <4> QED
        BY <1>3, <4>1 DEF saved
    <3>2. CASE item.ckpt = r
      <4>1. PICK c \in 0 .. Records[s] : c = r
        BY <2>3
      <4>2. Saved(s)' = c /\ Upto(s, c, done)
        BY <1>4, <3>2, <4>1
      <4>3. Delivery!Covers(s, c)'
        BY <1>2, <4>2 DEF Delivery!Covers, Upto
      <4> QED
        BY <1>3, <4>2, <4>3
    <3> QED
      BY <2>1, <3>1, <3>2
  <2> HIDE DEF r
  <2>7. processed' = [processed EXCEPT ![s] = @ \cup {r}]
    BY <1>1, <2>3
  <2> QED
    BY <1>1, <2>3, <2>4, <2>5, <2>6, <2>7 DEF Delivery!Deliver, saved
<1> QED
  BY <1>5, <1>6

\* The other steps drop checkpoints of shards that are gone, or change the
\* stream.
LEMMA OthersDeliver ==
  ASSUME Inv,
         \/ Tick \/ UNCHANGED vars
         \/ \E w \in Workers : Sync(w)
         \/ \E s \in Shards : Reshard(s) \/ Retire(s)
  PROVE  Delivery!Forget \/ Delivery!Reshard
<1> DEFINE saved == [t \in Shards |-> Saved(t)]
<1>1. TypeOK
  BY DEF Inv
<1>2. CASE UNCHANGED <<row, processed>> /\ listed' \in SUBSET Shards
  <2>1. saved' = saved
    BY <1>2 DEF Saved
  <2> QED
    BY <1>2, <2>1 DEF Delivery!Reshard
<1>3. CASE Tick \/ UNCHANGED vars
  BY <1>1, <1>2, <1>3 DEF Tick, vars, conVars, TypeOK
<1>4. ASSUME NEW s \in Shards, Reshard(s) \/ Retire(s)
      PROVE  UNCHANGED <<row, processed>> /\ listed' \in SUBSET Shards
  BY <1>1, <1>4 DEF Reshard, Retire, conVars, TypeOK, Children
<1>5. ASSUME NEW w \in Workers, Sync(w)
      PROVE  Delivery!Forget
  <2>1. PICK removed \in SUBSET (known[w] \ listed) :
          row' = [s \in Shards |-> IF s \in removed THEN NoItem ELSE row[s]]
    BY <1>5, Zenon DEF Sync
  <2>2. UNCHANGED <<listed, processed>>
    BY <1>5 DEF Sync, conVars
  <2>3. removed \in SUBSET (Shards \ listed)
    BY <1>1, <2>1 DEF TypeOK
  <2>4. ASSUME NEW t \in Shards
        PROVE  Saved(t)' = IF t \in removed THEN 0 ELSE saved[t]
    <3>1. CASE t \in removed
      <4>1. row'[t] = NoItem /\ NoItem.ckpt = NoAttr
        BY <2>1, <3>1 DEF NoItem
      <4>2. row'[t].ckpt = NoAttr
        BY <4>1
      <4>3. NoAttr # ShardEnd
        BY BoundsAssumption DEF NoAttr, ShardEnd
      <4> QED
        BY <3>1, <4>2, <4>3 DEF Saved
    <3>2. CASE t \notin removed
      <4>1. row'[t] = row[t]
        BY <2>1, <3>2
      <4> QED
        BY <3>2, <4>1 DEF Saved
    <3> QED
      BY <3>1, <3>2
  <2>5. saved' = [t \in Shards |-> IF t \in removed THEN 0 ELSE saved[t]]
    BY <2>4
  <2> QED
    BY <2>2, <2>3, <2>5 DEF Delivery!Forget
<1> QED
  BY <1>2, <1>3, <1>4, <1>5

\* What was checkpointed before the workers start was delivered then.
LEMMA InitDelivers == Init => Delivery!Init
<1> SUFFICES ASSUME Init PROVE Delivery!Init
  OBVIOUS
<1> DEFINE saved == [t \in Shards |-> Saved(t)]
<1>1. Inv /\ TypeOK
  BY InitKeeps DEF Inv
<1>2. ASSUME NEW s \in Shards
      PROVE  Saved(s) = (IF IsRoot(s) THEN Checkpointed ELSE 0) /\ Saved(s) <= Records[s]
  <2>1. CASE IsRoot(s) /\ Checkpointed > 0
    <3> DEFINE first == [NoItem EXCEPT !.timeout = 1]
    <3>1. row[s] = [first EXCEPT !.ckpt = Checkpointed]
      BY <2>1, Zenon DEF Init
    <3>2. first \in Item
      BY InitialValuesType DEF Item, Times
    <3> HIDE DEF first
    <3>3. row[s].ckpt = Checkpointed
      BY <3>1, <3>2 DEF Item
    <3>4. Checkpointed \in 0 .. Records[s]
      BY <2>1, ShardsAssumption, RecordsType DEF IsRoot
    <3>5. Saved(s) = Checkpointed
      BY <3>3, <3>4, RecordsType DEF Saved, NoAttr
    <3> QED
      BY <2>1, <3>4, <3>5
  <2>2. CASE ~(IsRoot(s) /\ Checkpointed > 0)
    <3>1. row[s] = NoItem /\ NoItem.ckpt = NoAttr
      BY <2>2 DEF Init, NoItem
    <3>2. Saved(s) = 0
      BY <3>1, RecordsType DEF Saved, NoAttr
    <3> QED
      BY <2>2, <3>2, ShardsAssumption, RecordsType
  <2> QED
    BY <2>1, <2>2
<1>3. saved \in [Shards -> Nat]
  BY <1>2, ShardsAssumption
<1>4. \A s \in Shards : processed[s] = 1 .. saved[s]
  <2>1. \A s \in Shards : processed[s] = IF IsRoot(s) THEN 1 .. Checkpointed ELSE {}
    BY DEF Init
  <2>2. 1 .. 0 = {}
    OBVIOUS
  <2> QED
    BY <1>2, <2>1, <2>2
<1>5. processed = [s \in Shards |-> 1 .. saved[s]]
  BY <1>1, <1>4 DEF TypeOK
<1>6. \A s \in Shards : saved[s] <= Records[s]
  BY <1>2
<1> QED
  BY <1>1, <1>3, <1>5, <1>6 DEF Delivery!Init, TypeOK

\* Workers that lease, lose and re-acquire shards, with stale caches and rows
\* that come and go, implement ordered delivery: in a shard no record is
\* skipped, no checkpoint covers one that was not delivered, and a child's
\* records come after its parent's.
THEOREM DeliveryImplemented == ParentsCheckpointed => (Spec => ImplementsDelivery)
<1> SUFFICES ASSUME ParentsCheckpointed PROVE Spec => ImplementsDelivery
  OBVIOUS
<1>1. Inv /\ Inv' /\ OrderInv /\ [Next]_vars => [Delivery!Next]_(Delivery!vars)
  <2> SUFFICES ASSUME Inv, Inv', OrderInv, [Next]_vars PROVE Delivery!Next
    OBVIOUS
  <2>1. ASSUME NEW w \in Workers, NEW s \in Shards,
               \/ Fetch(w, s) \/ (look[w] = s /\ GetLease(w))
               \/ ConStep(w, s) \/ Renew(w, s)
        PROVE  Delivery!Deliver(s) \/ Delivery!Save(s)
    BY <2>1, StepEffect, EffectDelivers
  <2>2. ASSUME NEW w \in Workers, GetLease(w)
        PROVE  \E s \in Shards : Delivery!Deliver(s) \/ Delivery!Save(s)
    BY <2>1, <2>2, Looks
  <2> QED
    BY <2>1, <2>2, OthersDeliver DEF Next, Delivery!Next
<1> QED
  BY <1>1, InitDelivers, Invariant, OrderInvariant, PTL
     DEF Spec, ImplementsDelivery, Delivery!Spec

-----------------------------------------------------------------------------
\* What the abstract specification comes to, for these shards.
Promise == INSTANCE DeliveryProofs WITH saved <- [s \in Shards |-> Saved(s)]

\* At any time the records of a shard that some worker's processor has been
\* given are its first ones, none left out, and no row holds a checkpoint
\* beyond them.
THEOREM DeliveredInOrder == ParentsCheckpointed => (Spec => []Promise!DeliveryInv)
<1> SUFFICES ASSUME ParentsCheckpointed PROVE Spec => []Promise!DeliveryInv
  OBVIOUS
<1>1. Records \in [Shards -> Nat]
  BY RecordsType, ShardsAssumption
<1>2. Promise!Spec => []Promise!DeliveryInv
  BY <1>1, Promise!DeliveredPrefix, PTL
<1>3. Delivery!Init => Promise!Init
  BY DEF Delivery!Init, Promise!Init
<1>4. [Delivery!Next]_(Delivery!vars) => [Promise!Next]_(Promise!vars)
  BY DEF Delivery!Next, Promise!Next, Delivery!vars, Promise!vars,
         Delivery!Deliver, Promise!Deliver, Delivery!Save, Promise!Save,
         Delivery!Forget, Promise!Forget, Delivery!Reshard, Promise!Reshard,
         Delivery!ParentOver, Promise!ParentOver, Delivery!Covers, Promise!Covers,
         Delivery!Finished, Promise!Finished
<1> QED
  BY <1>2, <1>3, <1>4, DeliveryImplemented, PTL
     DEF ImplementsDelivery, Delivery!Spec, Promise!Spec
=============================================================================
