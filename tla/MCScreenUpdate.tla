--------------------------- MODULE MCScreenUpdate ---------------------------
(* ScreenUpdate for TLC: a bitmap of a few lines.                           *)
EXTENDS ScreenUpdate
=============================================================================
