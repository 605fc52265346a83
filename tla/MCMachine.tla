------------------------------ MODULE MCMachine -----------------------------
(* Machine for TLC: the lines of keyboard, cascade and mouse.               *)
EXTENDS Machine
=============================================================================
