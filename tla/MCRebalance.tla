---------------------------- MODULE MCRebalance -----------------------------
\* Two shards and one or two workers, for Rebalance.
EXTENDS Rebalance

CONSTANTS w1, w2, s1, s2

TwoWorkers == {w1, w2}
OneWorker  == {w1}
Second     == {w2}
TwoShards  == {s1, s2}
\* The second worker can take one shard only.
Limits     == [w \in Workers |-> IF w = w1 THEN 2 ELSE 1]
=============================================================================
