----------------------------- MODULE MCFanOut -------------------------------
\* Two workers, one of which may be shut down, for FanOutConsumer.
EXTENDS FanOutConsumer

CONSTANTS w1, w2

TwoWorkers == {w1, w2}
First      == {w1}
=============================================================================
