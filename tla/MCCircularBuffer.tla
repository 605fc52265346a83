-------------------------- MODULE MCCircularBuffer --------------------------
(* CircularBuffer for TLC: the constants are given by the configurations.   *)
EXTENDS CircularBuffer
=============================================================================
