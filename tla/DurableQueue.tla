---------------------------- MODULE DurableQueue ----------------------------
(***************************************************************************)
(* What docs/mission-lifecycle.md promises of skill maintenance, without   *)
(* processes, tasks or files: a job that was put into the queue is tried   *)
(* until it is finished, again after every crash, or is given up by a stop *)
(* of the server while it was being tried.  It is never forgotten and      *)
(* never tried once it has ended.                                          *)
(***************************************************************************)
EXTENDS Naturals

CONSTANT Jobs

VARIABLES
  state,  (* job -> where it is *)
  tries   (* job -> how often it was started *)

queueVars == <<state, tries>>

Init ==
  /\ state = [j \in Jobs |-> "absent"]
  /\ tries = [j \in Jobs |-> 0]

Put(j) ==
  /\ state[j] = "absent"
  /\ state' = [state EXCEPT ![j] = "waiting"]
  /\ UNCHANGED tries

\* From "taken": the try before was cut off by a crash.
Take(j) ==
  /\ state[j] \in {"waiting", "taken"}
  /\ state' = [state EXCEPT ![j] = "taken"]
  /\ tries' = [tries EXCEPT ![j] = @ + 1]

Finish(j) ==
  /\ state[j] = "taken"
  /\ state' = [state EXCEPT ![j] = "finished"]
  /\ UNCHANGED tries

GiveUp(j) ==
  /\ state[j] = "taken"
  /\ state' = [state EXCEPT ![j] = "givenUp"]
  /\ UNCHANGED tries

Step(j) == Take(j) \/ Finish(j) \/ GiveUp(j)

Next == \E j \in Jobs : Put(j) \/ Step(j)

SafetySpec == Init /\ [][Next]_queueVars

\* A waiting job is taken, and a taken one ends.
Liveness == \A j \in Jobs :
  /\ WF_queueVars(state[j] = "waiting" /\ Take(j))
  /\ WF_queueVars(Finish(j) \/ GiveUp(j))

Spec == SafetySpec /\ Liveness
=============================================================================
