----------------------------- MODULE MCSession ------------------------------
(* Session for TLC: one activity, or two when the system recreates it.      *)
EXTENDS Session
=============================================================================
