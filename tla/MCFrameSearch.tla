--------------------------- MODULE MCFrameSearch ---------------------------
(* Instances of FrameSearch for TLC. *)
EXTENDS FrameSearch

Titles  == [k \in Kinds |-> CASE k \in {"ping", "initsess"} -> 2 [] k = "log" -> 3 [] k = "unlock" -> 4]
Lengths == [k \in Kinds |-> IF k \in {"ping", "initsess"} THEN 4 ELSE 9]
Limits  == [p \in Programs |-> IF p \in {"bdsvr", "bdjob"} THEN 9 ELSE 100]
============================================================================
