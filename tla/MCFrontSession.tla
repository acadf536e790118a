--------------------------- MODULE MCFrontSession ---------------------------
(* Instances of FrontSession for TLC: two or three addresses, two          *)
(* descriptors, a short and a long name.                                   *)
EXTENDS FrontSession, TLC

CONSTANTS s1, s2, s3, f1, f2, f3, short, long, mixed

Symmetry == Permutations({s1, s2, s3} \cap Sess)

(* The short and the mixed name share a bucket of the hash table. *)
MCBucket == [n \in {short, long, mixed, NoName} |->
                IF n \in {short, mixed} THEN 1 ELSE 2]

(* Renaming to a name of up to 4 bytes replaces the whole of a name that   *)
(* is empty or as short; otherwise a mixture of both names results.        *)
MCOverlay == [p \in (Name \cup {NoName}) \X Name |->
                IF p[2] = short /\ p[1] \in {NoName, short} THEN short
                ELSE IF p[1] = p[2] THEN p[1] ELSE mixed]
=============================================================================
