----------------------------- MODULE MCOutQueue -----------------------------
(* Instances of OutQueue for TLC. *)
EXTENDS OutQueue
=============================================================================
