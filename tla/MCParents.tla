----------------------------- MODULE MCParents ------------------------------
\* A shard and the child of its split, for ParentShards.
EXTENDS ParentShards

CONSTANTS w1, w2, parent, child

TwoWorkers == {w1, w2}
ParentAndChild == {parent, child}
ParentOf == [s \in ParentAndChild |-> IF s = child THEN parent ELSE NoShard]
RecordsOf == [s \in ParentAndChild |-> IF s = child THEN 1 ELSE 2]
OnlyParent == {parent}
FirstWorker == {w1}
OneOrTwo == [w \in TwoWorkers |-> IF w = w1 THEN 2 ELSE 1]
=============================================================================
