-------------------------- MODULE MCSentenceSearch --------------------------
(* Instances of SentenceSearch for TLC: short titles and sentences. *)
EXTENDS SentenceSearch, TLC

CONSTANTS d1, d2

KindsOf  == ("2_1" :> {"fki", "xst"}) @@ ("4_0" :> {"icxx"})
HeadLens == ("2_1" :> 3) @@ ("4_0" :> 2)
Lengths_ == ("fki" :> 8) @@ ("xst" :> 6) @@ ("icxx" :> 5)
=============================================================================
