---------------------------- MODULE MCBoxStatus -----------------------------
(* Instances of BoxStatus for TLC. *)
EXTENDS BoxStatus

CONSTANTS b1, b2

Times == {-2, 2}
=============================================================================
