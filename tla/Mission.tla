------------------------------ MODULE Mission ------------------------------
(***************************************************************************)
(* One call of MissionService.run (application/mission_service.py): its    *)
(* setup, the loop around the agent, its reports and its clean-up, with    *)
(* cancellations and a dying process.                                      *)
(*                                                                         *)
(* The call is suspended, and a CancelledError can surface, in:            *)
(*   "preflight"    _load_durable_memory, before the try block             *)
(*   "agent"        _run_once with the mission's prompt                    *)
(*   "repair"       _run_once with the repair prompt                       *)
(*   "summarising"  the compression after a context overflow               *)
(*   "closing"      browser.close() after a report, with a browser open    *)
(*   "releasing"    browser.close() in the finally clause, likewise        *)
(* The other phases run through to one of these; they are separate because *)
(* the process may die between them.  What the agent does (pydantic-ai and *)
(* the model) is a choice among the outcomes the loop tells apart.         *)
(* memory.enabled and memory.maintenance_enabled are TRUE.                 *)
(***************************************************************************)
EXTENDS Naturals, Sequences

CONSTANTS
  Models,          (* the models resolve_allowed finds for the request; the *)
                   (* switch_model tool accepts no other                    *)
  NoModel,         (* None                                                 *)
  MaxReruns,       (* bound: agent runs after a refresh, an overflow or a  *)
                   (* switch; the code has none                            *)
  SwallowsCancel   (* TRUE on Python 3.11: see SessionRuns                 *)

ASSUME MissionAssumption ==
  /\ NoModel \notin Models
  /\ MaxReruns \in Nat
  /\ SwallowsCancel \in BOOLEAN

VARIABLES
  kind,        (* mission_kind: "main", or "maintenance" for a job's mission *)
  phase,
  outcome,     (* what the call returned or raised, "none" before           *)
  model,       (* current_model                                            *)
  sequence,    (* model_sequence                                           *)
  pending,     (* pending_model_switch                                     *)
  retried,     (* completion_retry_used                                    *)
  verdict,     (* the status of the result being reported                  *)
  code,        (* its error code                                           *)
  level,       (* "body" or "handler": whether the try block still guards  *)
  trace,       (* trace.json: its status and model_sequence                *)
  jobs,        (* maintenance job files made for this mission              *)
  browser,     (* the mission's browser                                    *)
  dbs,         (* the databases held open                                  *)
  cancelling,  (* a CancelledError is still to be delivered                *)
  (* History; only the guard that bounds them reads reruns: *)
  reruns,      (* agent runs after a refresh, an overflow or a switch      *)
  answeredBy,  (* the model that gave the last output                      *)
  troubled,    (* a report or a browser.close() raised                     *)
  told         (* a cancellation was asked for                             *)

routing == <<model, sequence, pending, retried>>
report  == <<verdict, code, level>>
stored  == <<trace, jobs>>
held    == <<browser, dbs>>
history == <<answeredBy, troubled, told>>
vars    == <<kind, phase, outcome, routing, report, stored, held, cancelling, reruns, history>>

Databases == {"memory", "research"}
AtAgent   == {"agent", "repair"}
InTry     == AtAgent \cup {"summarising", "closing"}
Suspended == InTry \cup {"preflight", "releasing"}
Phases    == Suspended \cup {"new", "building", "reporting", "enqueueing", "gone"}

-----------------------------------------------------------------------------
(* Ways on *)

\* A result is about to be reported: a completed one, or a failure (_fail).
Report(status, errorCode, where) ==
  /\ phase' = "reporting"
  /\ verdict' = status
  /\ code' = errorCode
  /\ level' = where
  /\ UNCHANGED <<outcome, held>>

Fail(errorCode, where) == Report("failed", errorCode, where)

\* The finally clause: close the browser, then the databases.
LeaveTry(how) ==
  /\ outcome' = how
  /\ IF browser = "open"
     THEN phase' = "releasing" /\ UNCHANGED held
     ELSE phase' = "gone" /\ dbs' = {} /\ UNCHANGED browser
  /\ UNCHANGED report

\* An exception that is no CancelledError: the handlers of the try block report it as a failure,
\* and their own exceptions leave the call.
Raises ==
  /\ troubled' = TRUE
  /\ IF level = "body" THEN Fail("unexpected_error", "handler") ELSE LeaveTry("raised")

\* The agent is run again.
Rerun ==
  /\ reruns < MaxReruns
  /\ reruns' = reruns + 1
  /\ phase' = "agent"
  /\ UNCHANGED <<outcome, held, report>>

\* pending_model_switch is reset before the model is noted.
SequenceAfterReset == Append(sequence, NoModel)

\* The model sequence after a switch.
SequenceAfterSwitch == Append(sequence, pending)

\* The mission goes on with the model asked for: _promote_model finds it among the allowed ones.
Promote ==
  /\ model' = pending
  /\ sequence' = SequenceAfterSwitch
  /\ pending' = NoModel
  /\ Rerun
  /\ UNCHANGED retried

\* The answer counts, whatever was asked for.
NoSwitchAsked == TRUE

\* The run that has just answered had not asked for another model.
AnswerCounts == pending = NoModel

\* completion_retry_used is never set.
ContinueForEver ==
  /\ phase' = "agent"
  /\ UNCHANGED <<routing, stored, outcome, held, report>>

\* Maintenance is scheduled for the truncated answer.
ContinueAndSchedule ==
  /\ retried' = TRUE
  /\ phase' = "agent"
  /\ jobs' = jobs + 1
  /\ UNCHANGED <<model, sequence, pending, trace, outcome, held, report>>

\* The first truncated answer is continued.
Continue ==
  /\ retried' = TRUE
  /\ phase' = "agent"
  /\ UNCHANGED <<model, sequence, pending, stored, outcome, held, report>>

\* A valid answer: complete, or cut off by the model's length limit.
Deliver ==
  \/ Report("completed", "none", "body") /\ UNCHANGED <<routing, stored>>
  \/ retried /\ Fail("completion_truncated", "body") /\ UNCHANGED <<routing, stored>>
  \/ ~retried /\ Continue

-----------------------------------------------------------------------------
(* Setup *)

Call ==
  /\ phase = "new"
  /\ phase' = "building"
  /\ UNCHANGED <<kind, outcome, routing, report, stored, held, cancelling, reruns, history>>

\* RuntimeBuilder.build opens both databases.
Build ==
  /\ phase = "building"
  /\ \E m \in Models : model' = m /\ sequence' = <<m>>
  /\ dbs' = Databases
  /\ phase' = "preflight"
  /\ UNCHANGED <<kind, outcome, pending, retried, report, stored, browser, cancelling, reruns,
                 history>>

\* No model is allowed, or one of the databases does not open: the other is not closed.
BuildRaises ==
  /\ phase = "building"
  /\ dbs' \in {{}, {"memory"}}
  /\ phase' = "gone"
  /\ outcome' = "raised"
  /\ UNCHANGED <<kind, routing, report, stored, browser, cancelling, reruns, history>>

\* The skills are loaded; a maintenance mission writes a first trace.
PreflightEnds ==
  /\ phase = "preflight"
  /\ ~cancelling
  /\ phase' = "agent"
  /\ trace' = IF kind = "maintenance" THEN [status |-> "started", models |-> sequence] ELSE trace
  /\ UNCHANGED <<kind, outcome, routing, report, jobs, held, cancelling, reruns, history>>

\* Outside the try block nothing is reported and nothing is closed.
PreflightRaises ==
  /\ phase = "preflight"
  /\ phase' = "gone"
  /\ outcome' = IF cancelling THEN "cancelled" ELSE "raised"
  /\ cancelling' = FALSE
  /\ UNCHANGED <<kind, routing, report, stored, held, reruns, history>>

-----------------------------------------------------------------------------
(* The agent *)

\* A tool of a main mission starts the browser.
OpenBrowser ==
  /\ phase \in AtAgent
  /\ kind = "main"
  /\ browser' = "open"
  /\ UNCHANGED <<kind, phase, outcome, routing, report, stored, dbs, cancelling, reruns, history>>

\* The tools of one response run in parallel, and one exception surfaces: a switch_model call may
\* be left behind in pending_model_switch by another tool's exception.
LeavesSwitchBehind == pending' \in Models \cup {pending}

\* clean_context or an automatic compression asks for a fresh start.
AgentRefreshes ==
  /\ phase = "agent"
  /\ ~cancelling
  /\ LeavesSwitchBehind
  /\ Rerun
  /\ UNCHANGED <<kind, model, sequence, retried, stored, cancelling, history>>

\* The prompt outgrew the model's context: compress, then run again.
AgentOverflows ==
  /\ phase = "agent"
  /\ ~cancelling
  /\ LeavesSwitchBehind
  /\ phase' = "summarising"
  /\ UNCHANGED <<kind, outcome, model, sequence, retried, report, stored, held, cancelling, reruns,
                 history>>

SummaryEnds ==
  /\ phase = "summarising"
  /\ ~cancelling
  /\ \/ Rerun
     \/ Fail("ModelError", "handler") /\ UNCHANGED reruns
  /\ UNCHANGED <<kind, routing, stored, cancelling, history>>

\* switch_model surfaces: no clause is for ModelSwitchRequested, and the one for
\* AgentPlatformError reports a failure.
AgentSwitches ==
  /\ phase \in AtAgent
  /\ ~cancelling
  /\ pending' \in Models
  /\ Fail("ModelSwitchRequested", "handler")
  /\ UNCHANGED <<kind, model, sequence, retried, stored, cancelling, reruns, history>>

\* A timeout, or any other exception; in a repair run a refresh and an overflow as well.
AgentRaises ==
  /\ phase \in AtAgent
  /\ ~cancelling
  /\ LeavesSwitchBehind
  /\ Fail("other", "handler")
  /\ UNCHANGED <<kind, model, sequence, retried, stored, cancelling, reruns, history>>

\* An output: superseded by a switch, valid, or in need of a repair.
AgentAnswers ==
  /\ phase = "agent"
  /\ ~cancelling
  /\ answeredBy' = model
  /\ \/ pending # NoModel /\ Promote /\ UNCHANGED stored
     \/ AnswerCounts /\ Deliver /\ UNCHANGED reruns
     \/ /\ AnswerCounts
        /\ phase' = "repair"
        /\ UNCHANGED <<outcome, routing, report, stored, held, reruns>>
  /\ UNCHANGED <<kind, cancelling, troubled, told>>

RepairAnswers ==
  /\ phase = "repair"
  /\ ~cancelling
  /\ answeredBy' = model
  /\ \/ pending # NoModel /\ Promote /\ UNCHANGED stored
     \/ AnswerCounts /\ Deliver /\ UNCHANGED reruns
     \/ /\ AnswerCounts
        /\ Fail("output_validation_error", "body")
        /\ UNCHANGED <<routing, stored, reruns>>
  /\ UNCHANGED <<kind, cancelling, troubled, told>>

-----------------------------------------------------------------------------
(* The report *)

\* A failure leaves no trace.
OnlyCompletedIsPersisted ==
  trace' = IF verdict = "completed" THEN [status |-> verdict, models |-> sequence] ELSE trace

\* write_trace replaces the whole file.
WriteTrace == trace' = [status |-> verdict, models |-> sequence]

\* _persist_trace
PersistTrace ==
  /\ phase = "reporting"
  /\ WriteTrace
  /\ phase' = "enqueueing"
  /\ UNCHANGED <<kind, outcome, routing, report, jobs, held, cancelling, reruns, history>>

\* The browser is left to the finally clause.
LeaveToFinally == LeaveTry(verdict)

\* await browser.close(), which does not suspend when there is no browser; then return.
CloseAndReturn ==
  IF browser = "open"
  THEN phase' = "closing" /\ UNCHANGED <<outcome, held, report>>
  ELSE LeaveTry(verdict)

\* _maybe_schedule_skill_maintenance
Enqueue ==
  /\ phase = "enqueueing"
  /\ jobs' = IF kind = "main" THEN jobs + 1 ELSE jobs
  /\ CloseAndReturn
  /\ UNCHANGED <<kind, routing, trace, cancelling, reruns, history>>

\* Writing the trace or making the job raises, the latter before or after the job's file.
ReportRaises ==
  /\ phase \in {"reporting", "enqueueing"}
  /\ \/ UNCHANGED jobs
     \/ phase = "enqueueing" /\ kind = "main" /\ jobs' = jobs + 1
  /\ Raises
  /\ UNCHANGED <<kind, routing, trace, cancelling, reruns, answeredBy, told>>

\* browser.close() after the report: the result is returned, through the finally clause.
CloseEnds ==
  /\ phase = "closing"
  /\ ~cancelling
  /\ phase' = "gone"
  /\ outcome' = verdict
  /\ browser' = "closed"
  /\ dbs' = {}
  /\ UNCHANGED <<kind, routing, report, stored, cancelling, reruns, history>>

\* browser.close() raises after the report, and leaves the browser as it is.
CloseRaises ==
  /\ phase = "closing"
  /\ ~cancelling
  /\ Raises
  /\ UNCHANGED <<kind, routing, stored, cancelling, reruns, answeredBy, told>>

\* browser.close() of the finally clause: its exceptions are suppressed.
ReleaseEnds ==
  /\ phase = "releasing"
  /\ ~cancelling
  /\ phase' = "gone"
  /\ browser' \in {"closed", "open"}
  /\ dbs' = {}
  /\ UNCHANGED <<kind, outcome, routing, report, stored, cancelling, reruns, history>>

-----------------------------------------------------------------------------
(* Cancellation *)

\* task.cancel() by a steer, a stop, a client or the server's shutdown.
Cancel ==
  /\ phase \in Suspended
  /\ cancelling' = TRUE
  /\ told' = TRUE
  /\ UNCHANGED <<kind, phase, outcome, routing, report, stored, held, reruns, answeredBy, troubled>>

\* No clause of the try block is for a CancelledError.
CancelledInTry ==
  /\ phase \in InTry
  /\ cancelling
  /\ cancelling' = FALSE
  /\ LeaveTry("cancelled")
  /\ UNCHANGED <<kind, routing, stored, reruns, history>>

\* suppress(Exception) does not hold a CancelledError: the databases are not closed.
CancelledInFinally ==
  /\ phase = "releasing"
  /\ cancelling
  /\ cancelling' = FALSE
  /\ phase' = "gone"
  /\ outcome' = "cancelled"
  /\ UNCHANGED <<kind, routing, report, stored, held, reruns, history>>

\* Python 3.11: wait_for returns the answer in spite of the cancellation.
WaitForSwallows ==
  /\ SwallowsCancel
  /\ phase \in AtAgent \cup {"summarising"}
  /\ cancelling
  /\ cancelling' = FALSE
  /\ UNCHANGED <<kind, phase, outcome, routing, report, stored, held, reruns, history>>

\* The process dies.
Crash ==
  /\ phase \notin {"new", "gone"}
  /\ phase' = "gone"
  /\ outcome' = "lost"
  /\ browser' = "closed"
  /\ dbs' = {}
  /\ cancelling' = FALSE
  /\ UNCHANGED <<kind, routing, report, stored, reruns, history>>

-----------------------------------------------------------------------------

Init ==
  /\ kind \in {"main", "maintenance"}
  /\ phase = "new"
  /\ outcome = "none"
  /\ model = NoModel
  /\ sequence = <<>>
  /\ pending = NoModel
  /\ retried = FALSE
  /\ verdict = "none"
  /\ code = "none"
  /\ level = "body"
  /\ trace = [status |-> "none", models |-> <<>>]
  /\ jobs = 0
  /\ browser = "closed"
  /\ dbs = {}
  /\ cancelling = FALSE
  /\ reruns = 0
  /\ answeredBy = NoModel
  /\ troubled = FALSE
  /\ told = FALSE

Setup       == Build \/ BuildRaises \/ PreflightEnds \/ PreflightRaises
AgentEnds   == \/ AgentRefreshes \/ AgentOverflows \/ SummaryEnds \/ AgentSwitches
               \/ AgentRaises \/ AgentAnswers \/ RepairAnswers
Reporting   == PersistTrace \/ Enqueue \/ ReportRaises \/ CloseEnds \/ CloseRaises \/ ReleaseEnds
IsCancelled == CancelledInTry \/ CancelledInFinally

\* What the call does by itself.
RunStep == Setup \/ AgentEnds \/ Reporting \/ IsCancelled

Next == Call \/ RunStep \/ OpenBrowser \/ Cancel \/ WaitForSwallows \/ Crash

\* Agent runs and summaries end: they are under wait_for.  Embedding requests and browser.close()
\* are assumed to end.
Fairness == WF_vars(RunStep)

Spec == Init /\ [][Next]_vars /\ Fairness

-----------------------------------------------------------------------------
(* Properties *)

Verdicts == {"completed", "failed"}
Returned == outcome \in Verdicts /\ phase = "gone"

TypeOK ==
  /\ kind \in {"main", "maintenance"}
  /\ phase \in Phases
  /\ outcome \in Verdicts \cup {"none", "raised", "cancelled", "lost"}
  /\ model \in Models \cup {NoModel}
  /\ sequence \in Seq(Models)
  /\ pending \in Models \cup {NoModel}
  /\ retried \in BOOLEAN
  /\ verdict \in Verdicts \cup {"none"}
  /\ level \in {"body", "handler"}
  /\ trace \in [status : Verdicts \cup {"none", "started"}, models : Seq(Models)]
  /\ jobs \in Nat
  /\ browser \in {"closed", "open"}
  /\ dbs \subseteq Databases
  /\ cancelling \in BOOLEAN
  /\ reruns \in 0 .. MaxReruns
  /\ answeredBy \in Models \cup {NoModel}
  /\ troubled \in BOOLEAN
  /\ told \in BOOLEAN

\* A completed mission's answer was given by the model that is reported as its last, and no model
\* it asked for was passed over, through refreshes, repairs and continuations.
AnswerIsFinalModels ==
  phase = "gone" /\ outcome = "completed" =>
    /\ answeredBy = model
    /\ model = sequence[Len(sequence)]
    /\ pending = NoModel

\* A job's mission reads its parent's trace.json: the final trace is there before the job is,
\* even if the process dies in between.
JobsHaveTraces == jobs > 0 => trace.status \in Verdicts

\* Only an exception of a report or of browser.close() makes a mission schedule a second job;
\* there is never a third.
SecondJobNeedsTrouble == jobs <= IF troubled THEN 2 ELSE 1

\* A mission that returns has closed what it held, has left a trace that says what the result
\* says and names its models, and (a main mission) has its maintenance job in the queue.
ReturnedMissionIsSettled ==
  Returned =>
    /\ browser = "closed" /\ dbs = {}
    /\ trace = [status |-> outcome, models |-> sequence]
    /\ kind = "main" => jobs > 0

PromisedCall ==
  IF phase = "new" THEN "idle" ELSE IF phase = "gone" THEN outcome ELSE "working"

PromisedRecord == IF trace.status = "started" THEN "none" ELSE trace.status

Promise == INSTANCE MissionPromise WITH call <- PromisedCall, record <- PromisedRecord, told <- told

\* The call keeps what its callers rely on, and (with finitely many reruns) ends.
KeepsPromise == Promise!Spec

-----------------------------------------------------------------------------
(* What the docs say, and the code does not do *)

\* "performs model handoff if requested" (docs/mission-lifecycle.md): a mission does not fail
\* because it asked for another model.
SwitchIsPerformed == code # "ModelSwitchRequested"
=============================================================================
