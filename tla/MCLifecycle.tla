---------------------------- MODULE MCLifecycle -----------------------------
\* A worker with one consumer slot, for WorkerLifecycle.
EXTENDS WorkerLifecycle

CONSTANTS c1, o1, o2

OneConsumer == {c1}
TwoObjects  == {o1, o2}
=============================================================================
