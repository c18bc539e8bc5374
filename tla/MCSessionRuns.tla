---------------------------- MODULE MCSessionRuns ----------------------------
(* Instances of SessionRuns for TLC. *)
EXTENDS SessionRuns

CONSTANTS s1, r1, r2, t1, t2, t3

\* Sessions share nothing: one of them shows all there is.
OneSession == [r \in Runs |-> s1]
=============================================================================
