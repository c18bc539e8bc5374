-------------------------- MODULE MCMaintenanceJobs --------------------------
(* Instances of MaintenanceJobs for TLC. *)
EXTENDS MaintenanceJobs

CONSTANTS j1, j2, j3
=============================================================================
