--------------------------- MODULE MissionPromise ---------------------------
(***************************************************************************)
(* What the callers of MissionService.run (SessionService.run_chat and     *)
(* MaintenanceRunner._run_job) and the readers of traces/<id>/trace.json   *)
(* rely on: a mission ends by itself once it was called; it raises a       *)
(* CancelledError only if it was told to; a result is returned only after  *)
(* it was recorded; and the record, once it says failed, stays so.         *)
(***************************************************************************)

VARIABLES
  call,    (* idle, working, or how the call ended                         *)
  record,  (* what the trace says of the mission                           *)
  told     (* a cancellation was asked for                                 *)

promiseVars == <<call, record, told>>

Init ==
  /\ call = "idle"
  /\ record = "none"
  /\ told = FALSE

Begin ==
  /\ call = "idle"
  /\ call' = "working"
  /\ UNCHANGED <<record, told>>

Tell ==
  /\ call = "working"
  /\ told' = TRUE
  /\ UNCHANGED <<call, record>>

Record ==
  /\ call = "working"
  /\ \/ record = "none" /\ record' = "completed"
     \/ record' = "failed"
  /\ UNCHANGED <<call, told>>

Return ==
  /\ call = "working"
  /\ record # "none"
  /\ call' = record
  /\ UNCHANGED <<record, told>>

Raise ==
  /\ call = "working"
  /\ call' = "raised"
  /\ UNCHANGED <<record, told>>

ObeyTell ==
  /\ call = "working"
  /\ told
  /\ call' = "cancelled"
  /\ UNCHANGED <<record, told>>

Die ==
  /\ call = "working"
  /\ call' = "lost"
  /\ UNCHANGED <<record, told>>

End == Return \/ Raise \/ ObeyTell

Next == Begin \/ Tell \/ Record \/ End \/ Die

SafetySpec == Init /\ [][Next]_promiseVars

Spec == SafetySpec /\ WF_promiseVars(End)
=============================================================================
