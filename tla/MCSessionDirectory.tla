------------------------- MODULE MCSessionDirectory -------------------------
(* Instances of SessionDirectory for TLC. *)
EXTENDS SessionDirectory

CONSTANTS s1, s2, s3, s4, n1, n2

Symmetry == Permutations({s1, s2, s3, s4}) \cup Permutations({n1, n2})
=============================================================================
