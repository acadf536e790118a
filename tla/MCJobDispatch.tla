--------------------------- MODULE MCJobDispatch ---------------------------
(* Instances of JobDispatch for TLC. *)
EXTENDS JobDispatch, TLC

CONSTANTS d1, d2, j1, j2, j3
=============================================================================
