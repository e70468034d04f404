-------------------------- MODULE OrderedDelivery ---------------------------
(***************************************************************************)
(* What the library promises an application, whatever its workers, leases  *)
(* and consumers are doing: the records of a shard are delivered in order  *)
(* and at least once, a checkpoint never covers a record that was not      *)
(* delivered, and a child shard's records come after its parent's.  There  *)
(* are no workers here.  ShardLease, ParentShards and FanOutConsumer       *)
(* implement this specification.                                           *)
(***************************************************************************)
EXTENDS Integers

CONSTANTS
  Shards,
  NoShard,
  Parent,    \* Parent[s]: the parent of s, or NoShard
  Records    \* Records[s]: number of records of s

VARIABLES
  listed,     \* the shards of the stream
  processed,  \* processed[s]: the records some processor has been given
  saved       \* saved[s]: where the next consumer of s would start after;
              \* Finished(s) once it need not start at all

vars == <<listed, processed, saved>>

Finished(s) == Records[s] + 1

\* All the records up to k have been delivered.
Covers(s, k) == \A r \in 1 .. Records[s] : r <= k => r \in processed[s]

Init ==
  /\ listed \subseteq Shards
  /\ saved \in [Shards -> Nat]
  /\ processed = [s \in Shards |-> 1 .. saved[s]]
  /\ \A s \in Shards : saved[s] <= Records[s]

\* The parent is finished or has left the stream.
ParentOver(s) ==
  \/ Parent[s] \notin listed
  \/ processed[Parent[s]] = 1 .. Records[Parent[s]]

\* One more record, none skipped; perhaps a checkpoint with it.
Deliver(s) ==
  /\ ParentOver(s)
  /\ \E r \in 1 .. Records[s] :
       /\ Covers(s, r - 1)
       /\ processed' = [processed EXCEPT ![s] = @ \cup {r}]
  /\ \/ saved' = saved
     \/ \E k \in 0 .. Records[s] :
          Covers(s, k)' /\ saved' = [saved EXCEPT ![s] = k]
  /\ UNCHANGED listed

\* A checkpoint, which may be older than the last one: records are then
\* delivered again, never skipped.
Save(s) ==
  /\ \E k \in 0 .. Finished(s) :
       Covers(s, k) /\ saved' = [saved EXCEPT ![s] = k]
  /\ UNCHANGED <<listed, processed>>

\* Checkpoints of shards that are gone are dropped.
Forget ==
  /\ \E gone \in SUBSET (Shards \ listed) :
       saved' = [s \in Shards |-> IF s \in gone THEN 0 ELSE saved[s]]
  /\ UNCHANGED <<listed, processed>>

\* Shards enter and leave the stream.
Reshard ==
  /\ listed' \in SUBSET Shards
  /\ UNCHANGED <<processed, saved>>

Next == Reshard \/ Forget \/ \E s \in Shards : Deliver(s) \/ Save(s)

Spec == Init /\ [][Next]_vars
=============================================================================
