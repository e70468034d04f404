------------------------------ MODULE MCLease -------------------------------
\* Model values for ShardLease.
EXTENDS ShardLease

CONSTANTS w1, w2, c1, c2

TwoWorkers == {w1, w2}
OneWorker  == {w1}
SecondWorker == {w2}
TwoSlots   == {c1, c2}
OneSlot    == {c1}
Nobody     == {}
=============================================================================
