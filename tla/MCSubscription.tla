--------------------------- MODULE MCSubscription ---------------------------
(* Instances of Subscription for TLC: two or three connections and tasks.  *)
EXTENDS Subscription, TLC

CONSTANTS s1, s2, s3, t1, t2, n1, n2

Symmetry == Permutations({s1, s2, s3} \cap Sess) \cup Permutations({t1, t2} \cap Task)
                \cup Permutations({n1, n2} \cap Name)
=============================================================================
