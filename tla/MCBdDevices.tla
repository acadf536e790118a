---------------------------- MODULE MCBdDevices ----------------------------
(* Instances of BdDevices for TLC. *)
EXTENDS BdDevices, TLC

CONSTANTS d1, d2, j1, j2

Symmetry == Permutations({d1, d2} \cap Device \cap Normal) \cup Permutations({j1, j2} \cap Job)
=============================================================================
