---------------------------- MODULE MCEventClock ----------------------------
\* Ticks of three cycles; events due in the same tick, in the next and at its very end.
EXTENDS EventClock
=============================================================================
