--------------------------- MODULE DeliveryProofs ---------------------------
(***************************************************************************)
(* What ordered delivery comes to, for every set of shards, whatever their *)
(* parents and numbers of records.  ShardLease, ParentShards and           *)
(* FanOutConsumer implement OrderedDelivery, so that their deliveries and  *)
(* checkpoints are as said here.                                           *)
(***************************************************************************)
EXTENDS OrderedDelivery, TLAPS

\* The records that were delivered are the first ones of their shard, and
\* where the next consumer starts is not beyond them.
Prefix(s) ==
  \E n \in 0 .. Records[s] :
    /\ processed[s] = 1 .. n
    /\ saved[s] \in 0 .. n \/ (saved[s] = Finished(s) /\ n = Records[s])

DeliveryInv ==
  /\ processed \in [Shards -> SUBSET Nat]
  /\ saved \in [Shards -> Nat]
  /\ \A s \in Shards : Prefix(s)

\* Records that were delivered up to k are a prefix at least that long.
LEMMA CoversPrefix ==
  ASSUME NEW s \in Shards, Records[s] \in Nat, NEW k \in 0 .. Finished(s),
         NEW n \in 0 .. Records[s], processed[s] = 1 .. n, Covers(s, k)
  PROVE  k <= n \/ (k = Finished(s) /\ n = Records[s])
<1>1. CASE n = Records[s]
  BY <1>1 DEF Finished
<1>2. CASE n < Records[s]
  <2>1. n + 1 \in 1 .. Records[s] /\ n + 1 \notin processed[s]
    BY <1>2
  <2>2. ~(n + 1 <= k)
    BY <2>1 DEF Covers
  <2> QED
    BY <1>2, <2>2 DEF Finished
<1> QED
  BY <1>1, <1>2

\* A delivery goes on where the prefix ends, or repeats a part of it.
LEMMA DeliverPrefix ==
  ASSUME Records \in [Shards -> Nat], DeliveryInv, NEW s \in Shards, Deliver(s)
  PROVE  DeliveryInv'
<1>1. PICK r \in 1 .. Records[s] :
        /\ Covers(s, r - 1)
        /\ processed' = [processed EXCEPT ![s] = @ \cup {r}]
  BY Zenon DEF Deliver
<1>2. PICK n \in 0 .. Records[s] :
        /\ processed[s] = 1 .. n
        /\ saved[s] \in 0 .. n \/ (saved[s] = Finished(s) /\ n = Records[s])
  BY DEF DeliveryInv, Prefix
<1>3. Records[s] \in Nat
  OBVIOUS
<1>4. r - 1 <= n
  <2>1. r - 1 \in 0 .. Finished(s) /\ r - 1 # Finished(s)
    BY <1>3 DEF Finished
  <2> QED
    BY <1>1, <1>2, <1>3, <2>1, CoversPrefix
<1> DEFINE m == IF r = n + 1 THEN r ELSE n
<1>5. m \in 0 .. Records[s] /\ n <= m /\ processed'[s] = 1 .. m
  <2>1. processed'[s] = (1 .. n) \cup {r}
    BY <1>1, <1>2 DEF DeliveryInv
  <2>2. (1 .. n) \cup {r} = 1 .. m
    BY <1>3, <1>4
  <2> QED
    BY <1>3, <2>1, <2>2
<1>6. processed' \in [Shards -> SUBSET Nat]
  BY <1>1, <1>3 DEF DeliveryInv
<1> HIDE DEF m
<1>7. \A t \in Shards \ {s} : processed'[t] = processed[t]
  BY <1>1 DEF DeliveryInv
<1>8. CASE saved' = saved
  <2>1. Prefix(s)'
    <3>1. saved[s] \in 0 .. m \/ (saved[s] = Finished(s) /\ m = Records[s])
      BY <1>2, <1>3, <1>5
    <3> QED
      BY <1>5, <1>8, <3>1 DEF Prefix, Finished
  <2>2. \A t \in Shards \ {s} : Prefix(t)'
    BY <1>7, <1>8 DEF DeliveryInv, Prefix, Finished
  <2> QED
    BY <1>6, <1>8, <2>1, <2>2 DEF DeliveryInv
<1>9. ASSUME NEW k \in 0 .. Records[s], Covers(s, k)',
             saved' = [saved EXCEPT ![s] = k]
      PROVE  DeliveryInv'
  <2>1. k <= m
    <3>1. CASE k = 0
      BY <1>3, <1>5, <3>1
    <3>2. CASE k # 0
      <4>1. k \in 1 .. Records[s] /\ k <= k
        BY <1>3, <3>2
      <4>2. k \in processed'[s]
        BY <1>9, <4>1 DEF Covers
      <4> QED
        BY <1>3, <1>5, <4>2
    <3> QED
      BY <3>1, <3>2
  <2>2. saved'[s] = k /\ \A t \in Shards \ {s} : saved'[t] = saved[t]
    BY <1>9 DEF DeliveryInv
  <2>3. Prefix(s)'
    BY <1>3, <1>5, <2>1, <2>2 DEF Prefix
  <2>4. \A t \in Shards \ {s} : Prefix(t)'
    BY <1>7, <2>2 DEF DeliveryInv, Prefix, Finished
  <2>5. saved' \in [Shards -> Nat]
    BY <1>3, <1>9 DEF DeliveryInv
  <2> QED
    BY <1>6, <2>3, <2>4, <2>5 DEF DeliveryInv
<1> QED
  BY <1>8, <1>9, Zenon DEF Deliver

\* A checkpoint, dropped or written, is not beyond the prefix.
LEMMA SavePrefix ==
  ASSUME Records \in [Shards -> Nat], DeliveryInv,
         Forget \/ Reshard \/ (\E s \in Shards : Save(s)) \/ UNCHANGED vars
  PROVE  DeliveryInv'
<1>1. processed' = processed
  BY DEF Forget, Reshard, Save, vars
<1>2. ASSUME NEW s \in Shards,
             \/ saved'[s] \in {saved[s], 0}
             \/ saved'[s] \in 0 .. Finished(s) /\ Covers(s, saved'[s])
      PROVE  Prefix(s)' /\ saved'[s] \in Nat
  <2>1. PICK n \in 0 .. Records[s] :
          /\ processed[s] = 1 .. n
          /\ saved[s] \in 0 .. n \/ (saved[s] = Finished(s) /\ n = Records[s])
    BY DEF DeliveryInv, Prefix
  <2>2. Records[s] \in Nat
    OBVIOUS
  <2>3. saved'[s] \in 0 .. n \/ (saved'[s] = Finished(s) /\ n = Records[s])
    <3>1. CASE saved'[s] \in {saved[s], 0}
      BY <2>1, <2>2, <3>1
    <3>2. CASE saved'[s] \in 0 .. Finished(s) /\ Covers(s, saved'[s])
      <4>1. PICK k \in 0 .. Finished(s) : k = saved'[s]
        BY <3>2
      <4>2. k <= n \/ (k = Finished(s) /\ n = Records[s])
        BY <2>1, <2>2, <3>2, <4>1, CoversPrefix
      <4>3. Finished(s) \in Nat
        BY <2>2 DEF Finished
      <4> QED
        BY <2>2, <4>1, <4>2, <4>3
    <3> QED
      BY <1>2, <3>1, <3>2
  <2>4. Prefix(s)'
    BY <1>1, <2>1, <2>3 DEF Prefix, Finished
  <2> QED
    BY <2>2, <2>3, <2>4 DEF Finished
<1>3. CASE UNCHANGED <<processed, saved>>
  BY <1>3 DEF DeliveryInv, Prefix, Finished
<1>4. CASE Forget
  <2>1. PICK gone \in SUBSET (Shards \ listed) :
          saved' = [s \in Shards |-> IF s \in gone THEN 0 ELSE saved[s]]
    BY <1>4, Zenon DEF Forget
  <2>2. \A s \in Shards : saved'[s] \in {saved[s], 0}
    BY <2>1
  <2>3. \A s \in Shards : Prefix(s)' /\ saved'[s] \in Nat
    BY <1>2, <2>2
  <2> QED
    BY <1>1, <2>1, <2>3 DEF DeliveryInv
<1>5. ASSUME NEW s \in Shards, Save(s)
      PROVE  DeliveryInv'
  <2>1. PICK k \in 0 .. Finished(s) :
          Covers(s, k) /\ saved' = [saved EXCEPT ![s] = k]
    BY <1>5, Zenon DEF Save
  <2>2. saved'[s] = k /\ \A t \in Shards \ {s} : saved'[t] = saved[t]
    BY <2>1 DEF DeliveryInv
  <2>3. \A t \in Shards : Prefix(t)' /\ saved'[t] \in Nat
    BY <1>2, <2>1, <2>2
  <2>4. saved' = [t \in Shards |-> saved'[t]]
    BY <2>1 DEF DeliveryInv
  <2> QED
    BY <1>1, <2>3, <2>4 DEF DeliveryInv
<1> QED
  BY <1>3, <1>4, <1>5 DEF Reshard, vars

\* At any time the delivered records of a shard are its first ones, none left
\* out; no checkpoint is beyond them; and a shard is finished only after its
\* last record.
THEOREM DeliveredPrefix ==
  Records \in [Shards -> Nat] => (Spec => []DeliveryInv)
<1> SUFFICES ASSUME Records \in [Shards -> Nat] PROVE Spec => []DeliveryInv
  OBVIOUS
<1>1. Init => DeliveryInv
  <2> SUFFICES ASSUME Init PROVE DeliveryInv
    OBVIOUS
  <2>1. /\ saved \in [Shards -> Nat]
        /\ processed = [s \in Shards |-> 1 .. saved[s]]
        /\ \A s \in Shards : saved[s] <= Records[s]
    BY DEF Init
  <2>2. ASSUME NEW s \in Shards
        PROVE  Prefix(s)
    <3>1. /\ saved[s] \in 0 .. Records[s] /\ processed[s] = 1 .. saved[s]
          /\ saved[s] \in 0 .. saved[s]
      BY <2>1
    <3> QED
      BY <3>1 DEF Prefix
  <2> QED
    BY <2>1, <2>2 DEF DeliveryInv
<1>2. DeliveryInv /\ [Next]_vars => DeliveryInv'
  BY DeliverPrefix, SavePrefix DEF Next
<1> QED
  BY <1>1, <1>2, PTL DEF Spec
=============================================================================
