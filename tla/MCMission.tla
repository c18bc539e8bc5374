------------------------------ MODULE MCMission ------------------------------
(* Instances of Mission for TLC. *)
EXTENDS Mission

CONSTANTS m1, m2
=============================================================================
