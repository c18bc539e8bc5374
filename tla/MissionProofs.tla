--------------------------- MODULE MissionProofs ---------------------------
(***************************************************************************)
(* Proofs about Mission: its types, its safety invariants, and that it     *)
(* keeps the safety part of MissionPromise, for every set of models and    *)
(* every number of reruns; and that its own steps are numbered.            *)
(***************************************************************************)
EXTENDS Mission, TLAPS

-----------------------------------------------------------------------------
(* The inductive invariant *)

Early     == {"new", "building", "preflight", "agent", "repair", "summarising"}
AtReport  == {"reporting", "enqueueing", "closing"}

\* The current model is the last of the sequence, which is there once the mission is built.
Routed ==
  /\ sequence # <<>> => model = sequence[Len(sequence)]
  /\ phase \notin {"new", "building", "gone"} => sequence # <<>>

\* From the moment an answer is accepted until it is returned, nothing supersedes it.
AnswerStands ==
  \/ phase \in AtReport /\ verdict = "completed"
  \/ phase = "gone" /\ outcome = "completed"
  => answeredBy = model /\ pending = NoModel /\ sequence # <<>>

\* Before the first report there is no final trace, and after one it is the report's.
ReportsInOrder ==
  /\ level = "body" => ~troubled
  /\ phase \in Early => level = "body"
  /\ phase \in AtReport => verdict \in Verdicts
  /\ phase \in Early \/ (phase = "reporting" /\ level = "body") => trace.status \notin Verdicts
  /\ phase = "reporting" /\ verdict = "completed" => level = "body"
  /\ phase \in {"enqueueing", "closing"} => trace = [status |-> verdict, models |-> sequence]

\* Each report makes one job at most, and there are two reports only after trouble.
JobsCounted ==
  /\ jobs <= (IF troubled THEN 1 ELSE 0)
             + (IF phase \in {"closing", "releasing", "gone"} THEN 1 ELSE 0)
  /\ phase = "closing" /\ kind = "main" => jobs > 0

\* How the call ends is settled only when it leaves the try block.
EndsInOrder ==
  /\ phase \notin {"releasing", "gone"} => outcome = "none"
  /\ phase = "releasing" => outcome \in {"raised", "cancelled"}
  /\ cancelling \/ outcome = "cancelled" => told

IInv ==
  /\ TypeOK
  /\ Routed
  /\ AnswerStands
  /\ ReportsInOrder
  /\ JobsCounted
  /\ EndsInOrder
  /\ JobsHaveTraces
  /\ ReturnedMissionIsSettled

\* TypeOK in three parts: Zenon proves the one of the Boolean variables, SMT the others.
Flags ==
  retried \in BOOLEAN /\ cancelling \in BOOLEAN /\ troubled \in BOOLEAN /\ told \in BOOLEAN

Places ==
  /\ kind \in {"main", "maintenance"}
  /\ phase \in Phases
  /\ outcome \in Verdicts \cup {"none", "raised", "cancelled", "lost"}
  /\ verdict \in Verdicts \cup {"none"}
  /\ level \in {"body", "handler"}
  /\ browser \in {"closed", "open"}
  /\ dbs \subseteq Databases

Routes ==
  /\ model \in Models \cup {NoModel}
  /\ sequence \in Seq(Models)
  /\ pending \in Models \cup {NoModel}
  /\ trace \in [status : Verdicts \cup {"none", "started"}, models : Seq(Models)]
  /\ answeredBy \in Models \cup {NoModel}

Data == Places /\ Routes

Counts == jobs \in Nat /\ reruns \in 0 .. MaxReruns

LEMMA TypesSplit ==
  (TypeOK <=> Data /\ Counts /\ Flags) /\ (TypeOK' <=> Data' /\ Counts' /\ Flags')
  BY Zenon DEF TypeOK, Data, Places, Routes, Counts, Flags

LEMMA InitHolds == Init => IInv
  <1> SUFFICES ASSUME Init PROVE IInv
    OBVIOUS
  <1>1. TypeOK
    <2>1. Data
      BY MissionAssumption DEF Init, Data, Places, Routes, Phases, Verdicts, Databases
    <2>2. Flags
      BY DEF Init, Flags
    <2>3. Counts
      BY MissionAssumption DEF Init, Counts
    <2>4. QED
      BY <2>1, <2>2, <2>3, TypesSplit
  <1>2. Routed /\ AnswerStands /\ ReportsInOrder /\ EndsInOrder
    BY DEF Init, Routed, AnswerStands, ReportsInOrder, EndsInOrder, Early, AtReport, Verdicts
  <1>3. JobsCounted /\ JobsHaveTraces /\ ReturnedMissionIsSettled
    BY DEF Init, JobsCounted, JobsHaveTraces, ReturnedMissionIsSettled, Returned, Verdicts
  <1>4. QED
    BY <1>1, <1>2, <1>3 DEF IInv

LEMMA CallKeeps == ASSUME IInv, Call PROVE IInv'
  <1>1. TypeOK'
    BY MissionAssumption DEF Call, IInv, TypeOK, ReportsInOrder, AtReport, Phases, Suspended,
       InTry, AtAgent, Verdicts, Databases, routing, report, stored, held, history
  <1>2. Routed' /\ AnswerStands' /\ ReportsInOrder' /\ EndsInOrder'
    BY DEF Call, IInv, TypeOK, Routed, AnswerStands, ReportsInOrder, EndsInOrder, Early,
       AtReport, Phases, Suspended, InTry, AtAgent, Verdicts, Databases, routing, report,
       stored, held, history
  <1>3. JobsCounted' /\ JobsHaveTraces' /\ ReturnedMissionIsSettled'
    BY DEF Call, IInv, TypeOK, ReportsInOrder, JobsCounted, EndsInOrder, JobsHaveTraces,
       ReturnedMissionIsSettled, Returned, Early, AtReport, Phases, Suspended, InTry, AtAgent,
       Verdicts, Databases, routing, report, stored, held, history
  <1>4. QED
    BY <1>1, <1>2, <1>3 DEF IInv

LEMMA BuildKeeps == ASSUME IInv, Build PROVE IInv'
  <1>1. TypeOK'
    BY MissionAssumption DEF Build, IInv, TypeOK, ReportsInOrder, AtReport, Phases, Suspended,
       InTry, AtAgent, Verdicts, Databases, routing, report, stored, held, history
  <1>2. Routed' /\ AnswerStands' /\ ReportsInOrder' /\ EndsInOrder'
    BY DEF Build, IInv, TypeOK, Routed, AnswerStands, ReportsInOrder, EndsInOrder, Early,
       AtReport, Phases, Suspended, InTry, AtAgent, Verdicts, Databases, routing, report,
       stored, held, history
  <1>3. JobsCounted' /\ JobsHaveTraces' /\ ReturnedMissionIsSettled'
    BY DEF Build, IInv, TypeOK, ReportsInOrder, JobsCounted, EndsInOrder, JobsHaveTraces,
       ReturnedMissionIsSettled, Returned, Early, AtReport, Phases, Suspended, InTry, AtAgent,
       Verdicts, Databases, routing, report, stored, held, history
  <1>4. QED
    BY <1>1, <1>2, <1>3 DEF IInv

LEMMA BuildRaisesKeeps == ASSUME IInv, BuildRaises PROVE IInv'
  <1>1. TypeOK'
    BY MissionAssumption DEF BuildRaises, IInv, TypeOK, ReportsInOrder, AtReport, Phases,
       Suspended, InTry, AtAgent, Verdicts, Databases, routing, report, stored, held, history
  <1>2. Routed' /\ AnswerStands' /\ ReportsInOrder' /\ EndsInOrder'
    BY DEF BuildRaises, IInv, TypeOK, Routed, AnswerStands, ReportsInOrder, EndsInOrder, Early,
       AtReport, Phases, Suspended, InTry, AtAgent, Verdicts, Databases, routing, report,
       stored, held, history
  <1>3. JobsCounted' /\ JobsHaveTraces' /\ ReturnedMissionIsSettled'
    BY DEF BuildRaises, IInv, TypeOK, ReportsInOrder, JobsCounted, EndsInOrder, JobsHaveTraces,
       ReturnedMissionIsSettled, Returned, Early, AtReport, Phases, Suspended, InTry, AtAgent,
       Verdicts, Databases, routing, report, stored, held, history
  <1>4. QED
    BY <1>1, <1>2, <1>3 DEF IInv

LEMMA PreflightEndsKeeps == ASSUME IInv, PreflightEnds PROVE IInv'
  <1>1. TypeOK'
    BY MissionAssumption DEF PreflightEnds, IInv, TypeOK, ReportsInOrder, AtReport, Phases,
       Suspended, InTry, AtAgent, Verdicts, Databases, routing, report, stored, held, history
  <1>2. Routed' /\ AnswerStands' /\ ReportsInOrder' /\ EndsInOrder'
    BY DEF PreflightEnds, IInv, TypeOK, Routed, AnswerStands, ReportsInOrder, EndsInOrder,
       Early, AtReport, Phases, Suspended, InTry, AtAgent, Verdicts, Databases, routing,
       report, stored, held, history
  <1>3. JobsCounted' /\ JobsHaveTraces' /\ ReturnedMissionIsSettled'
    BY DEF PreflightEnds, IInv, TypeOK, ReportsInOrder, JobsCounted, EndsInOrder,
       JobsHaveTraces, ReturnedMissionIsSettled, Returned, Early, AtReport, Phases, Suspended,
       InTry, AtAgent, Verdicts, Databases, routing, report, stored, held, history
  <1>4. QED
    BY <1>1, <1>2, <1>3 DEF IInv

LEMMA PreflightRaisesKeeps == ASSUME IInv, PreflightRaises PROVE IInv'
  <1>1. TypeOK'
    <2>1. Data'
      BY MissionAssumption DEF PreflightRaises, IInv, TypeOK, Data, Places, Routes,
         ReportsInOrder, AtReport, Phases, Suspended, InTry, AtAgent, Verdicts, Databases,
         routing, report, stored, held, history
    <2>2. Flags'
      BY DEF PreflightRaises, IInv, TypeOK, Flags, routing, report, stored, held, history
    <2>3. Counts'
      BY MissionAssumption DEF PreflightRaises, IInv, TypeOK, Counts, routing, report, stored,
         held, history
    <2>4. QED
      BY <2>1, <2>2, <2>3, TypesSplit DEF IInv
  <1>2. Routed' /\ AnswerStands' /\ ReportsInOrder' /\ EndsInOrder'
    BY DEF PreflightRaises, IInv, TypeOK, Routed, AnswerStands, ReportsInOrder, EndsInOrder,
       Early, AtReport, Phases, Suspended, InTry, AtAgent, Verdicts, Databases, routing,
       report, stored, held, history
  <1>3. JobsCounted' /\ JobsHaveTraces' /\ ReturnedMissionIsSettled'
    BY DEF PreflightRaises, IInv, TypeOK, ReportsInOrder, JobsCounted, EndsInOrder,
       JobsHaveTraces, ReturnedMissionIsSettled, Returned, Early, AtReport, Phases, Suspended,
       InTry, AtAgent, Verdicts, Databases, routing, report, stored, held, history
  <1>4. QED
    BY <1>1, <1>2, <1>3 DEF IInv

LEMMA AgentRefreshesKeeps == ASSUME IInv, AgentRefreshes PROVE IInv'
  <1>1. TypeOK'
    BY MissionAssumption DEF AgentRefreshes, Rerun, LeavesSwitchBehind, IInv, TypeOK,
       ReportsInOrder, AtReport, Phases, Suspended, InTry, AtAgent, Verdicts, Databases,
       routing, report, stored, held, history
  <1>2. Routed' /\ AnswerStands' /\ ReportsInOrder' /\ EndsInOrder'
    BY DEF AgentRefreshes, Rerun, LeavesSwitchBehind, IInv, TypeOK, Routed, AnswerStands,
       ReportsInOrder, EndsInOrder, Early, AtReport, Phases, Suspended, InTry, AtAgent,
       Verdicts, Databases, routing, report, stored, held, history
  <1>3. JobsCounted' /\ JobsHaveTraces' /\ ReturnedMissionIsSettled'
    BY DEF AgentRefreshes, Rerun, LeavesSwitchBehind, IInv, TypeOK, ReportsInOrder,
       JobsCounted, EndsInOrder, JobsHaveTraces, ReturnedMissionIsSettled, Returned, Early,
       AtReport, Phases, Suspended, InTry, AtAgent, Verdicts, Databases, routing, report,
       stored, held, history
  <1>4. QED
    BY <1>1, <1>2, <1>3 DEF IInv

LEMMA AgentOverflowsKeeps == ASSUME IInv, AgentOverflows PROVE IInv'
  <1>1. TypeOK'
    BY MissionAssumption DEF AgentOverflows, LeavesSwitchBehind, IInv, TypeOK, ReportsInOrder,
       AtReport, Phases, Suspended, InTry, AtAgent, Verdicts, Databases, routing, report,
       stored, held, history
  <1>2. Routed' /\ AnswerStands' /\ ReportsInOrder' /\ EndsInOrder'
    BY DEF AgentOverflows, LeavesSwitchBehind, IInv, TypeOK, Routed, AnswerStands,
       ReportsInOrder, EndsInOrder, Early, AtReport, Phases, Suspended, InTry, AtAgent,
       Verdicts, Databases, routing, report, stored, held, history
  <1>3. JobsCounted' /\ JobsHaveTraces' /\ ReturnedMissionIsSettled'
    BY DEF AgentOverflows, LeavesSwitchBehind, IInv, TypeOK, ReportsInOrder, JobsCounted,
       EndsInOrder, JobsHaveTraces, ReturnedMissionIsSettled, Returned, Early, AtReport,
       Phases, Suspended, InTry, AtAgent, Verdicts, Databases, routing, report, stored, held,
       history
  <1>4. QED
    BY <1>1, <1>2, <1>3 DEF IInv

LEMMA SummaryEndsKeeps == ASSUME IInv, SummaryEnds PROVE IInv'
  <1>1. TypeOK'
    <2>1. Data'
      <3>1. CASE Rerun
        BY <3>1 DEF SummaryEnds, Rerun, IInv, TypeOK, Data, Places, Routes, Phases,
           Suspended, InTry, AtAgent, Verdicts, Databases, routing, report, stored, held,
           history
      <3>2. CASE Fail("ModelError", "handler")
        BY <3>2 DEF SummaryEnds, Fail, Report, IInv, TypeOK, Data, Places, Routes, Phases,
           Suspended, InTry, AtAgent, Verdicts, Databases, routing, report, stored, held,
           history
      <3>3. QED
        BY <3>1, <3>2 DEF SummaryEnds
    <2>2. Flags'
      BY DEF SummaryEnds, Rerun, Fail, Report, IInv, TypeOK, Flags, routing, report, stored,
         held, history
    <2>3. Counts'
      BY MissionAssumption DEF SummaryEnds, Rerun, Fail, Report, IInv, TypeOK, Counts, routing,
         report, stored, held, history
    <2>4. QED
      BY <2>1, <2>2, <2>3, TypesSplit DEF IInv
  <1>2. Routed' /\ AnswerStands' /\ ReportsInOrder' /\ EndsInOrder'
    BY DEF SummaryEnds, Rerun, Fail, Report, IInv, TypeOK, Routed, AnswerStands,
       ReportsInOrder, EndsInOrder, Early, AtReport, Phases, Suspended, InTry, AtAgent,
       Verdicts, Databases, routing, report, stored, held, history
  <1>3. JobsCounted' /\ JobsHaveTraces' /\ ReturnedMissionIsSettled'
    BY DEF SummaryEnds, Rerun, Fail, Report, IInv, TypeOK, ReportsInOrder, JobsCounted,
       EndsInOrder, JobsHaveTraces, ReturnedMissionIsSettled, Returned, Early, AtReport,
       Phases, Suspended, InTry, AtAgent, Verdicts, Databases, routing, report, stored, held,
       history
  <1>4. QED
    BY <1>1, <1>2, <1>3 DEF IInv

LEMMA AgentSwitchesKeeps == ASSUME IInv, AgentSwitches PROVE IInv'
  <1>1. TypeOK'
    BY MissionAssumption DEF AgentSwitches, Fail, Report, IInv, TypeOK, ReportsInOrder,
       AtReport, Phases, Suspended, InTry, AtAgent, Verdicts, Databases, routing, report,
       stored, held, history
  <1>2. Routed' /\ AnswerStands' /\ ReportsInOrder' /\ EndsInOrder'
    BY DEF AgentSwitches, Fail, Report, IInv, TypeOK, Routed, AnswerStands, ReportsInOrder,
       EndsInOrder, Early, AtReport, Phases, Suspended, InTry, AtAgent, Verdicts, Databases,
       routing, report, stored, held, history
  <1>3. JobsCounted' /\ JobsHaveTraces' /\ ReturnedMissionIsSettled'
    BY DEF AgentSwitches, Fail, Report, IInv, TypeOK, ReportsInOrder, JobsCounted, EndsInOrder,
       JobsHaveTraces, ReturnedMissionIsSettled, Returned, Early, AtReport, Phases, Suspended,
       InTry, AtAgent, Verdicts, Databases, routing, report, stored, held, history
  <1>4. QED
    BY <1>1, <1>2, <1>3 DEF IInv

LEMMA AgentRaisesKeeps == ASSUME IInv, AgentRaises PROVE IInv'
  <1>1. TypeOK'
    BY MissionAssumption DEF AgentRaises, LeavesSwitchBehind, Fail, Report, IInv, TypeOK,
       ReportsInOrder, AtReport, Phases, Suspended, InTry, AtAgent, Verdicts, Databases,
       routing, report, stored, held, history
  <1>2. Routed' /\ AnswerStands' /\ ReportsInOrder' /\ EndsInOrder'
    BY DEF AgentRaises, LeavesSwitchBehind, Fail, Report, IInv, TypeOK, Routed, AnswerStands,
       ReportsInOrder, EndsInOrder, Early, AtReport, Phases, Suspended, InTry, AtAgent,
       Verdicts, Databases, routing, report, stored, held, history
  <1>3. JobsCounted' /\ JobsHaveTraces' /\ ReturnedMissionIsSettled'
    BY DEF AgentRaises, LeavesSwitchBehind, Fail, Report, IInv, TypeOK, ReportsInOrder,
       JobsCounted, EndsInOrder, JobsHaveTraces, ReturnedMissionIsSettled, Returned, Early,
       AtReport, Phases, Suspended, InTry, AtAgent, Verdicts, Databases, routing, report,
       stored, held, history
  <1>4. QED
    BY <1>1, <1>2, <1>3 DEF IInv

LEMMA AgentAnswersKeeps == ASSUME IInv, AgentAnswers PROVE IInv'
  <1>1. TypeOK'
    <2>1. Data'
      <3>1. CASE pending # NoModel /\ Promote /\ UNCHANGED stored
        BY <3>1 DEF AgentAnswers, Promote, SequenceAfterSwitch, Rerun, IInv, TypeOK, Data,
           Places, Routes, Phases, Suspended, InTry, AtAgent, Verdicts, Databases, routing,
           report, stored, held, history
      <3>2. CASE Deliver
        <4>1. Places'
          BY <3>2 DEF AgentAnswers, Deliver, Continue, Fail, Report, IInv, TypeOK, Places,
             Phases, Suspended, InTry, AtAgent, Verdicts, Databases, routing, report, stored, held,
             history
        <4>2. Routes'
          BY <3>2 DEF AgentAnswers, Deliver, Continue, Fail, Report, IInv, TypeOK, Routes,
             Phases, Suspended, InTry, AtAgent, Verdicts, Databases, routing, report, stored, held,
             history
        <4>3. QED
          BY <4>1, <4>2 DEF Data
      <3>3. CASE phase' = "repair" /\ UNCHANGED <<outcome, routing, report, stored, held>>
        BY <3>3 DEF AgentAnswers, IInv, TypeOK, Data, Places, Routes, Phases, Suspended,
           InTry, AtAgent, Verdicts, Databases, routing, report, stored, held, history
      <3>4. QED
        BY <3>1, <3>2, <3>3 DEF AgentAnswers
    <2>2. Flags'
      BY DEF AgentAnswers, Promote, SequenceAfterSwitch, Rerun, AnswerCounts, Deliver,
         Continue, Fail, Report, IInv, TypeOK, Flags, routing, report, stored, held, history
    <2>3. Counts'
      BY MissionAssumption DEF AgentAnswers, Promote, SequenceAfterSwitch, Rerun, AnswerCounts,
         Deliver, Continue, Fail, Report, IInv, TypeOK, Counts, routing, report, stored, held,
         history
    <2>4. QED
      BY <2>1, <2>2, <2>3, TypesSplit DEF IInv
  <1>2. Routed' /\ AnswerStands' /\ ReportsInOrder' /\ EndsInOrder'
    BY DEF AgentAnswers, Promote, SequenceAfterSwitch, Rerun, AnswerCounts, Deliver, Continue,
       Fail, Report, IInv, TypeOK, Routed, AnswerStands, ReportsInOrder, EndsInOrder, Early,
       AtReport, Phases, Suspended, InTry, AtAgent, Verdicts, Databases, routing, report,
       stored, held, history
  <1>3. JobsCounted' /\ JobsHaveTraces' /\ ReturnedMissionIsSettled'
    BY DEF AgentAnswers, Promote, SequenceAfterSwitch, Rerun, AnswerCounts, Deliver, Continue,
       Fail, Report, IInv, TypeOK, ReportsInOrder, JobsCounted, EndsInOrder, JobsHaveTraces,
       ReturnedMissionIsSettled, Returned, Early, AtReport, Phases, Suspended, InTry, AtAgent,
       Verdicts, Databases, routing, report, stored, held, history
  <1>4. QED
    BY <1>1, <1>2, <1>3 DEF IInv

LEMMA RepairAnswersKeeps == ASSUME IInv, RepairAnswers PROVE IInv'
  <1>1. TypeOK'
    <2>1. Data'
      <3>1. CASE pending # NoModel /\ Promote /\ UNCHANGED stored
        BY <3>1 DEF RepairAnswers, Promote, SequenceAfterSwitch, Rerun, IInv, TypeOK, Data,
           Places, Routes, Phases, Suspended, InTry, AtAgent, Verdicts, Databases, routing,
           report, stored, held, history
      <3>2. CASE Deliver
        <4>1. Places'
          BY <3>2 DEF RepairAnswers, Deliver, Continue, Fail, Report, IInv, TypeOK, Places,
             Phases, Suspended, InTry, AtAgent, Verdicts, Databases, routing, report, stored, held,
             history
        <4>2. Routes'
          BY <3>2 DEF RepairAnswers, Deliver, Continue, Fail, Report, IInv, TypeOK, Routes,
             Phases, Suspended, InTry, AtAgent, Verdicts, Databases, routing, report, stored, held,
             history
        <4>3. QED
          BY <4>1, <4>2 DEF Data
      <3>3. CASE Fail("output_validation_error", "body") /\ UNCHANGED <<routing, stored>>
        BY <3>3 DEF RepairAnswers, Fail, Report, IInv, TypeOK, Data, Places, Routes, Phases,
           Suspended, InTry, AtAgent, Verdicts, Databases, routing, report, stored, held,
           history
      <3>4. QED
        BY <3>1, <3>2, <3>3 DEF RepairAnswers
    <2>2. Flags'
      BY DEF RepairAnswers, Promote, SequenceAfterSwitch, Rerun, AnswerCounts, Deliver,
         Continue, Fail, Report, IInv, TypeOK, Flags, routing, report, stored, held, history
    <2>3. Counts'
      BY MissionAssumption DEF RepairAnswers, Promote, SequenceAfterSwitch, Rerun,
         AnswerCounts, Deliver, Continue, Fail, Report, IInv, TypeOK, Counts, routing, report,
         stored, held, history
    <2>4. QED
      BY <2>1, <2>2, <2>3, TypesSplit DEF IInv
  <1>2. Routed' /\ AnswerStands' /\ ReportsInOrder' /\ EndsInOrder'
    BY DEF RepairAnswers, Promote, SequenceAfterSwitch, Rerun, AnswerCounts, Deliver, Continue,
       Fail, Report, IInv, TypeOK, Routed, AnswerStands, ReportsInOrder, EndsInOrder, Early,
       AtReport, Phases, Suspended, InTry, AtAgent, Verdicts, Databases, routing, report,
       stored, held, history
  <1>3. JobsCounted' /\ JobsHaveTraces' /\ ReturnedMissionIsSettled'
    BY DEF RepairAnswers, Promote, SequenceAfterSwitch, Rerun, AnswerCounts, Deliver, Continue,
       Fail, Report, IInv, TypeOK, ReportsInOrder, JobsCounted, EndsInOrder, JobsHaveTraces,
       ReturnedMissionIsSettled, Returned, Early, AtReport, Phases, Suspended, InTry, AtAgent,
       Verdicts, Databases, routing, report, stored, held, history
  <1>4. QED
    BY <1>1, <1>2, <1>3 DEF IInv

LEMMA PersistTraceKeeps == ASSUME IInv, PersistTrace PROVE IInv'
  <1>1. TypeOK'
    BY MissionAssumption DEF PersistTrace, WriteTrace, IInv, TypeOK, ReportsInOrder, AtReport,
       Phases, Suspended, InTry, AtAgent, Verdicts, Databases, routing, report, stored, held,
       history
  <1>2. Routed' /\ AnswerStands' /\ ReportsInOrder' /\ EndsInOrder'
    BY DEF PersistTrace, WriteTrace, IInv, TypeOK, Routed, AnswerStands, ReportsInOrder,
       EndsInOrder, Early, AtReport, Phases, Suspended, InTry, AtAgent, Verdicts, Databases,
       routing, report, stored, held, history
  <1>3. JobsCounted' /\ JobsHaveTraces' /\ ReturnedMissionIsSettled'
    BY DEF PersistTrace, WriteTrace, IInv, TypeOK, ReportsInOrder, JobsCounted, EndsInOrder,
       JobsHaveTraces, ReturnedMissionIsSettled, Returned, Early, AtReport, Phases, Suspended,
       InTry, AtAgent, Verdicts, Databases, routing, report, stored, held, history
  <1>4. QED
    BY <1>1, <1>2, <1>3 DEF IInv

LEMMA EnqueueKeeps == ASSUME IInv, Enqueue PROVE IInv'
  <1>1. TypeOK'
    <2>1. Data'
      <3>1. CASE browser = "open"
        <4>1. Places'
          BY <3>1 DEF Enqueue, CloseAndReturn, IInv, TypeOK, Places, Phases, Suspended, InTry,
             AtAgent, Verdicts, Databases, routing, report, stored, held, history
        <4>2. Routes'
          BY <3>1 DEF Enqueue, CloseAndReturn, IInv, TypeOK, Routes, Phases, Suspended, InTry,
             AtAgent, Verdicts, Databases, routing, report, stored, held, history
        <4>3. QED
          BY <4>1, <4>2 DEF Data
      <3>2. CASE browser # "open"
        BY <3>2 DEF Enqueue, CloseAndReturn, LeaveTry, IInv, TypeOK, Data, Places, Routes,
           ReportsInOrder, AtReport, Phases, Suspended, InTry, AtAgent, Verdicts, Databases,
           routing, report, stored, held, history
      <3>3. QED
        BY <3>1, <3>2
    <2>2. Flags'
      BY DEF Enqueue, CloseAndReturn, LeaveTry, IInv, TypeOK, Flags, routing, report, stored,
         held, history
    <2>3. Counts'
      BY MissionAssumption DEF Enqueue, CloseAndReturn, LeaveTry, IInv, TypeOK, Counts,
         routing, report, stored, held, history
    <2>4. QED
      BY <2>1, <2>2, <2>3, TypesSplit DEF IInv
  <1>2. Routed' /\ AnswerStands' /\ ReportsInOrder' /\ EndsInOrder'
    BY DEF Enqueue, CloseAndReturn, LeaveTry, IInv, TypeOK, Routed, AnswerStands,
       ReportsInOrder, EndsInOrder, Early, AtReport, Phases, Suspended, InTry, AtAgent,
       Verdicts, Databases, routing, report, stored, held, history
  <1>3. JobsCounted' /\ JobsHaveTraces' /\ ReturnedMissionIsSettled'
    BY DEF Enqueue, CloseAndReturn, LeaveTry, IInv, TypeOK, ReportsInOrder, JobsCounted,
       EndsInOrder, JobsHaveTraces, ReturnedMissionIsSettled, Returned, Early, AtReport,
       Phases, Suspended, InTry, AtAgent, Verdicts, Databases, routing, report, stored, held,
       history
  <1>4. QED
    BY <1>1, <1>2, <1>3 DEF IInv

LEMMA ReportRaisesKeeps == ASSUME IInv, ReportRaises PROVE IInv'
  <1>1. TypeOK'
    <2>1. Data'
      <3>1. Places'
        BY MissionAssumption DEF ReportRaises, Raises, Fail, Report, LeaveTry, IInv, TypeOK,
           Places, ReportsInOrder, AtReport, Phases, Suspended, InTry, AtAgent, Verdicts,
           Databases, routing, report, stored, held, history
      <3>2. Routes'
        BY MissionAssumption DEF ReportRaises, Raises, Fail, Report, LeaveTry, IInv, TypeOK,
           Routes, ReportsInOrder, AtReport, Phases, Suspended, InTry, AtAgent, Verdicts,
           Databases, routing, report, stored, held, history
      <3>3. QED
        BY <3>1, <3>2 DEF Data
    <2>2. Flags'
      BY DEF ReportRaises, Raises, Fail, Report, LeaveTry, IInv, TypeOK, Flags, routing,
         report, stored, held, history
    <2>3. Counts'
      BY MissionAssumption DEF ReportRaises, Raises, Fail, Report, LeaveTry, IInv, TypeOK,
         Counts, routing, report, stored, held, history
    <2>4. QED
      BY <2>1, <2>2, <2>3, TypesSplit DEF IInv
  <1>2. Routed' /\ AnswerStands' /\ ReportsInOrder' /\ EndsInOrder'
    BY DEF ReportRaises, Raises, Fail, Report, LeaveTry, IInv, TypeOK, Routed, AnswerStands,
       ReportsInOrder, EndsInOrder, Early, AtReport, Phases, Suspended, InTry, AtAgent,
       Verdicts, Databases, routing, report, stored, held, history
  <1>3. JobsCounted' /\ JobsHaveTraces' /\ ReturnedMissionIsSettled'
    BY DEF ReportRaises, Raises, Fail, Report, LeaveTry, IInv, TypeOK, ReportsInOrder,
       JobsCounted, EndsInOrder, JobsHaveTraces, ReturnedMissionIsSettled, Returned, Early,
       AtReport, Phases, Suspended, InTry, AtAgent, Verdicts, Databases, routing, report,
       stored, held, history
  <1>4. QED
    BY <1>1, <1>2, <1>3 DEF IInv

LEMMA CloseEndsKeeps == ASSUME IInv, CloseEnds PROVE IInv'
  <1>1. TypeOK'
    BY MissionAssumption DEF CloseEnds, IInv, TypeOK, ReportsInOrder, AtReport, Phases,
       Suspended, InTry, AtAgent, Verdicts, Databases, routing, report, stored, held, history
  <1>2. Routed' /\ AnswerStands' /\ ReportsInOrder' /\ EndsInOrder'
    BY DEF CloseEnds, IInv, TypeOK, Routed, AnswerStands, ReportsInOrder, EndsInOrder, Early,
       AtReport, Phases, Suspended, InTry, AtAgent, Verdicts, Databases, routing, report,
       stored, held, history
  <1>3. JobsCounted' /\ JobsHaveTraces' /\ ReturnedMissionIsSettled'
    BY DEF CloseEnds, IInv, TypeOK, ReportsInOrder, JobsCounted, EndsInOrder, JobsHaveTraces,
       ReturnedMissionIsSettled, Returned, Early, AtReport, Phases, Suspended, InTry, AtAgent,
       Verdicts, Databases, routing, report, stored, held, history
  <1>4. QED
    BY <1>1, <1>2, <1>3 DEF IInv

LEMMA CloseRaisesKeeps == ASSUME IInv, CloseRaises PROVE IInv'
  <1>1. TypeOK'
    <2>1. Data'
      <3>1. Places'
        BY MissionAssumption DEF CloseRaises, Raises, Fail, Report, LeaveTry, IInv, TypeOK,
           Places, ReportsInOrder, AtReport, Phases, Suspended, InTry, AtAgent, Verdicts,
           Databases, routing, report, stored, held, history
      <3>2. Routes'
        BY MissionAssumption DEF CloseRaises, Raises, Fail, Report, LeaveTry, IInv, TypeOK,
           Routes, ReportsInOrder, AtReport, Phases, Suspended, InTry, AtAgent, Verdicts,
           Databases, routing, report, stored, held, history
      <3>3. QED
        BY <3>1, <3>2 DEF Data
    <2>2. Flags'
      BY DEF CloseRaises, Raises, Fail, Report, LeaveTry, IInv, TypeOK, Flags, routing, report,
         stored, held, history
    <2>3. Counts'
      BY MissionAssumption DEF CloseRaises, Raises, Fail, Report, LeaveTry, IInv, TypeOK,
         Counts, routing, report, stored, held, history
    <2>4. QED
      BY <2>1, <2>2, <2>3, TypesSplit DEF IInv
  <1>2. Routed' /\ AnswerStands' /\ ReportsInOrder' /\ EndsInOrder'
    BY DEF CloseRaises, Raises, Fail, Report, LeaveTry, IInv, TypeOK, Routed, AnswerStands,
       ReportsInOrder, EndsInOrder, Early, AtReport, Phases, Suspended, InTry, AtAgent,
       Verdicts, Databases, routing, report, stored, held, history
  <1>3. JobsCounted' /\ JobsHaveTraces' /\ ReturnedMissionIsSettled'
    BY DEF CloseRaises, Raises, Fail, Report, LeaveTry, IInv, TypeOK, ReportsInOrder,
       JobsCounted, EndsInOrder, JobsHaveTraces, ReturnedMissionIsSettled, Returned, Early,
       AtReport, Phases, Suspended, InTry, AtAgent, Verdicts, Databases, routing, report,
       stored, held, history
  <1>4. QED
    BY <1>1, <1>2, <1>3 DEF IInv

LEMMA ReleaseEndsKeeps == ASSUME IInv, ReleaseEnds PROVE IInv'
  <1>1. TypeOK'
    BY MissionAssumption DEF ReleaseEnds, IInv, TypeOK, ReportsInOrder, AtReport, Phases,
       Suspended, InTry, AtAgent, Verdicts, Databases, routing, report, stored, held, history
  <1>2. Routed' /\ AnswerStands' /\ ReportsInOrder' /\ EndsInOrder'
    BY DEF ReleaseEnds, IInv, TypeOK, Routed, AnswerStands, ReportsInOrder, EndsInOrder, Early,
       AtReport, Phases, Suspended, InTry, AtAgent, Verdicts, Databases, routing, report,
       stored, held, history
  <1>3. JobsCounted' /\ JobsHaveTraces' /\ ReturnedMissionIsSettled'
    BY DEF ReleaseEnds, IInv, TypeOK, ReportsInOrder, JobsCounted, EndsInOrder, JobsHaveTraces,
       ReturnedMissionIsSettled, Returned, Early, AtReport, Phases, Suspended, InTry, AtAgent,
       Verdicts, Databases, routing, report, stored, held, history
  <1>4. QED
    BY <1>1, <1>2, <1>3 DEF IInv

LEMMA CancelledInTryKeeps == ASSUME IInv, CancelledInTry PROVE IInv'
  <1>1. TypeOK'
    <2>a. Places'
      BY DEF CancelledInTry, LeaveTry, IInv, TypeOK, Places, Phases, Suspended, Databases,
         report, held
    <2>b. Routes'
      BY DEF CancelledInTry, IInv, TypeOK, Routes, routing, stored, history
    <2>1. Data'
      BY <2>a, <2>b DEF Data
    <2>2. Flags'
      BY DEF CancelledInTry, LeaveTry, IInv, TypeOK, Flags, routing, report, stored, held,
         history
    <2>3. Counts'
      BY MissionAssumption DEF CancelledInTry, LeaveTry, IInv, TypeOK, Counts, routing, report,
         stored, held, history
    <2>4. QED
      BY <2>1, <2>2, <2>3, TypesSplit DEF IInv
  <1>2. Routed' /\ AnswerStands' /\ ReportsInOrder' /\ EndsInOrder'
    BY DEF CancelledInTry, LeaveTry, IInv, TypeOK, Routed, AnswerStands, ReportsInOrder,
       EndsInOrder, Early, AtReport, Phases, Suspended, InTry, AtAgent, Verdicts, Databases,
       routing, report, stored, held, history
  <1>3. JobsCounted' /\ JobsHaveTraces' /\ ReturnedMissionIsSettled'
    BY DEF CancelledInTry, LeaveTry, IInv, TypeOK, ReportsInOrder, JobsCounted, EndsInOrder,
       JobsHaveTraces, ReturnedMissionIsSettled, Returned, Early, AtReport, Phases, Suspended,
       InTry, AtAgent, Verdicts, Databases, routing, report, stored, held, history
  <1>4. QED
    BY <1>1, <1>2, <1>3 DEF IInv

LEMMA CancelledInFinallyKeeps == ASSUME IInv, CancelledInFinally PROVE IInv'
  <1>1. TypeOK'
    <2>1. Data'
      BY MissionAssumption DEF CancelledInFinally, IInv, TypeOK, Data, Places, Routes,
         ReportsInOrder, AtReport, Phases, Suspended, InTry, AtAgent, Verdicts, Databases,
         routing, report, stored, held, history
    <2>2. Flags'
      BY DEF CancelledInFinally, IInv, TypeOK, Flags, routing, report, stored, held, history
    <2>3. Counts'
      BY MissionAssumption DEF CancelledInFinally, IInv, TypeOK, Counts, routing, report,
         stored, held, history
    <2>4. QED
      BY <2>1, <2>2, <2>3, TypesSplit DEF IInv
  <1>2. Routed' /\ AnswerStands' /\ ReportsInOrder' /\ EndsInOrder'
    BY DEF CancelledInFinally, IInv, TypeOK, Routed, AnswerStands, ReportsInOrder, EndsInOrder,
       Early, AtReport, Phases, Suspended, InTry, AtAgent, Verdicts, Databases, routing,
       report, stored, held, history
  <1>3. JobsCounted' /\ JobsHaveTraces' /\ ReturnedMissionIsSettled'
    BY DEF CancelledInFinally, IInv, TypeOK, ReportsInOrder, JobsCounted, EndsInOrder,
       JobsHaveTraces, ReturnedMissionIsSettled, Returned, Early, AtReport, Phases, Suspended,
       InTry, AtAgent, Verdicts, Databases, routing, report, stored, held, history
  <1>4. QED
    BY <1>1, <1>2, <1>3 DEF IInv

LEMMA OpenBrowserKeeps == ASSUME IInv, OpenBrowser PROVE IInv'
  <1>1. TypeOK'
    BY MissionAssumption DEF OpenBrowser, IInv, TypeOK, ReportsInOrder, AtReport, Phases,
       Suspended, InTry, AtAgent, Verdicts, Databases, routing, report, stored, held, history
  <1>2. Routed' /\ AnswerStands' /\ ReportsInOrder' /\ EndsInOrder'
    BY DEF OpenBrowser, IInv, TypeOK, Routed, AnswerStands, ReportsInOrder, EndsInOrder, Early,
       AtReport, Phases, Suspended, InTry, AtAgent, Verdicts, Databases, routing, report,
       stored, held, history
  <1>3. JobsCounted' /\ JobsHaveTraces' /\ ReturnedMissionIsSettled'
    BY DEF OpenBrowser, IInv, TypeOK, ReportsInOrder, JobsCounted, EndsInOrder, JobsHaveTraces,
       ReturnedMissionIsSettled, Returned, Early, AtReport, Phases, Suspended, InTry, AtAgent,
       Verdicts, Databases, routing, report, stored, held, history
  <1>4. QED
    BY <1>1, <1>2, <1>3 DEF IInv

LEMMA CancelKeeps == ASSUME IInv, Cancel PROVE IInv'
  <1>1. TypeOK'
    BY MissionAssumption DEF Cancel, IInv, TypeOK, ReportsInOrder, AtReport, Phases, Suspended,
       InTry, AtAgent, Verdicts, Databases, routing, report, stored, held, history
  <1>2. Routed' /\ AnswerStands' /\ ReportsInOrder' /\ EndsInOrder'
    BY DEF Cancel, IInv, TypeOK, Routed, AnswerStands, ReportsInOrder, EndsInOrder, Early,
       AtReport, Phases, Suspended, InTry, AtAgent, Verdicts, Databases, routing, report,
       stored, held, history
  <1>3. JobsCounted' /\ JobsHaveTraces' /\ ReturnedMissionIsSettled'
    BY DEF Cancel, IInv, TypeOK, ReportsInOrder, JobsCounted, EndsInOrder, JobsHaveTraces,
       ReturnedMissionIsSettled, Returned, Early, AtReport, Phases, Suspended, InTry, AtAgent,
       Verdicts, Databases, routing, report, stored, held, history
  <1>4. QED
    BY <1>1, <1>2, <1>3 DEF IInv

LEMMA WaitForSwallowsKeeps == ASSUME IInv, WaitForSwallows PROVE IInv'
  <1>1. TypeOK'
    <2>1. Data'
      BY MissionAssumption DEF WaitForSwallows, IInv, TypeOK, Data, Places, Routes,
         ReportsInOrder, AtReport, Phases, Suspended, InTry, AtAgent, Verdicts, Databases,
         routing, report, stored, held, history
    <2>2. Flags'
      BY DEF WaitForSwallows, IInv, TypeOK, Flags, routing, report, stored, held, history
    <2>3. Counts'
      BY MissionAssumption DEF WaitForSwallows, IInv, TypeOK, Counts, routing, report, stored,
         held, history
    <2>4. QED
      BY <2>1, <2>2, <2>3, TypesSplit DEF IInv
  <1>2. Routed' /\ AnswerStands' /\ ReportsInOrder' /\ EndsInOrder'
    BY DEF WaitForSwallows, IInv, TypeOK, Routed, AnswerStands, ReportsInOrder, EndsInOrder,
       Early, AtReport, Phases, Suspended, InTry, AtAgent, Verdicts, Databases, routing,
       report, stored, held, history
  <1>3. JobsCounted' /\ JobsHaveTraces' /\ ReturnedMissionIsSettled'
    BY DEF WaitForSwallows, IInv, TypeOK, ReportsInOrder, JobsCounted, EndsInOrder,
       JobsHaveTraces, ReturnedMissionIsSettled, Returned, Early, AtReport, Phases, Suspended,
       InTry, AtAgent, Verdicts, Databases, routing, report, stored, held, history
  <1>4. QED
    BY <1>1, <1>2, <1>3 DEF IInv

LEMMA CrashKeeps == ASSUME IInv, Crash PROVE IInv'
  <1>1. TypeOK'
    <2>1. Data'
      <3>1. Places'
        BY DEF Crash, IInv, TypeOK, Places, Phases, Verdicts, Databases, report
      <3>2. Routes'
        BY DEF Crash, IInv, TypeOK, Routes, Verdicts, routing, stored, history
      <3>3. QED
        BY <3>1, <3>2 DEF Data
    <2>2. Flags'
      BY DEF Crash, IInv, TypeOK, Flags, routing, history
    <2>3. Counts'
      BY DEF Crash, IInv, TypeOK, Counts, stored
    <2>4. QED
      BY <2>1, <2>2, <2>3, TypesSplit
  <1>2. Routed' /\ AnswerStands' /\ ReportsInOrder' /\ EndsInOrder'
    BY DEF Crash, IInv, TypeOK, Routed, AnswerStands, ReportsInOrder, EndsInOrder, Early,
       AtReport, Phases, Suspended, InTry, AtAgent, Verdicts, Databases, routing, report,
       stored, held, history
  <1>3. JobsCounted' /\ JobsHaveTraces' /\ ReturnedMissionIsSettled'
    BY DEF Crash, IInv, TypeOK, ReportsInOrder, JobsCounted, EndsInOrder, JobsHaveTraces,
       ReturnedMissionIsSettled, Returned, Early, AtReport, Phases, Suspended, InTry, AtAgent,
       Verdicts, Databases, routing, report, stored, held, history
  <1>4. QED
    BY <1>1, <1>2, <1>3 DEF IInv

-----------------------------------------------------------------------------
(* The invariants *)

LEMMA StepsKeep == IInv /\ [Next]_vars => IInv'
  <1> SUFFICES ASSUME IInv, [Next]_vars PROVE IInv'
    OBVIOUS
  <1>1. CASE UNCHANGED vars
    BY <1>1 DEF IInv, TypeOK, Routed, AnswerStands, ReportsInOrder, JobsCounted, EndsInOrder,
       JobsHaveTraces, ReturnedMissionIsSettled, Returned, vars, routing, report, stored, held,
       history
  <1>2. CASE Next
    BY <1>2, CallKeeps, BuildKeeps, BuildRaisesKeeps, PreflightEndsKeeps,
       PreflightRaisesKeeps, AgentRefreshesKeeps, AgentOverflowsKeeps, SummaryEndsKeeps,
       AgentSwitchesKeeps, AgentRaisesKeeps, AgentAnswersKeeps, RepairAnswersKeeps,
       PersistTraceKeeps, EnqueueKeeps, ReportRaisesKeeps, CloseEndsKeeps, CloseRaisesKeeps,
       ReleaseEndsKeeps, CancelledInTryKeeps, CancelledInFinallyKeeps, OpenBrowserKeeps,
       CancelKeeps, WaitForSwallowsKeeps, CrashKeeps DEF Next, RunStep, Setup, AgentEnds,
       Reporting, IsCancelled
  <1>3. QED
    BY <1>1, <1>2

THEOREM InvariantHolds == Spec => []IInv
  BY InitHolds, StepsKeep, PTL DEF Spec

\* Every variable of a mission keeps its type: the models it runs on are allowed ones, and the
\* bound on reruns is kept.
THEOREM TypesHold == Spec => []TypeOK
  <1>1. IInv => TypeOK
    BY DEF IInv
  <1>2. QED
    BY <1>1, InvariantHolds, PTL

\* A completed mission's answer comes from its last model, and no switch was passed over.
THEOREM AnswersAreFinalModels == Spec => []AnswerIsFinalModels
  <1>1. IInv => AnswerIsFinalModels
    BY DEF IInv, AnswerStands, Routed, AnswerIsFinalModels
  <1>2. QED
    BY <1>1, InvariantHolds, PTL

\* A job is made only after its parent's final trace is on disk.
THEOREM JobsComeAfterTraces == Spec => []JobsHaveTraces
  <1>1. IInv => JobsHaveTraces
    BY DEF IInv
  <1>2. QED
    BY <1>1, InvariantHolds, PTL

\* Two jobs are made only when a report or a browser.close() raised, and never three.
THEOREM JobsAreFew == Spec => []SecondJobNeedsTrouble
  <1>1. IInv => SecondJobNeedsTrouble
    BY DEF IInv, JobsCounted, TypeOK, SecondJobNeedsTrouble
  <1>2. QED
    BY <1>1, InvariantHolds, PTL

\* A mission that returns holds nothing, and its trace and job are on disk.
THEOREM ReturnedMissionsAreSettled == Spec => []ReturnedMissionIsSettled
  <1>1. IInv => ReturnedMissionIsSettled
    BY DEF IInv
  <1>2. QED
    BY <1>1, InvariantHolds, PTL

-----------------------------------------------------------------------------
(* The promise to the callers *)

PromiseStep == Promise!Next \/ UNCHANGED <<PromisedCall, PromisedRecord, told>>

LEMMA InitIsPromised == Init => Promise!Init
  BY DEF Init, Promise!Init, PromisedCall, PromisedRecord

LEMMA StepIsPromised == IInv /\ [Next]_vars => PromiseStep
  <1> SUFFICES ASSUME IInv, [Next]_vars PROVE PromiseStep
    OBVIOUS
  <1> USE DEF PromiseStep, PromisedCall, PromisedRecord
  <1>1. CASE UNCHANGED vars
    BY <1>1 DEF vars, routing, report, stored, held, history
  <1>2. CASE Call
    BY <1>2 DEF Call, IInv, TypeOK, ReportsInOrder, EndsInOrder, Early, AtReport, InTry,
       AtAgent, Suspended, Verdicts, routing, report, stored, held, history, Promise!Next,
       Promise!End, Promise!Begin, Promise!Tell, Promise!Record, Promise!Return, Promise!Raise,
       Promise!ObeyTell, Promise!Die
  <1>3. CASE Build
    BY <1>3 DEF Build, IInv, TypeOK, ReportsInOrder, EndsInOrder, Early, AtReport, InTry,
       AtAgent, Suspended, Verdicts, routing, report, stored, held, history, Promise!Next,
       Promise!End, Promise!Begin, Promise!Tell, Promise!Record, Promise!Return, Promise!Raise,
       Promise!ObeyTell, Promise!Die
  <1>4. CASE BuildRaises
    BY <1>4 DEF BuildRaises, IInv, TypeOK, ReportsInOrder, EndsInOrder, Early, AtReport,
       InTry, AtAgent, Suspended, Verdicts, routing, report, stored, held, history, Promise!Next,
       Promise!End, Promise!Begin, Promise!Tell, Promise!Record, Promise!Return, Promise!Raise,
       Promise!ObeyTell, Promise!Die
  <1>5. CASE PreflightEnds
    BY <1>5 DEF PreflightEnds, IInv, TypeOK, ReportsInOrder, EndsInOrder, Early, AtReport,
       InTry, AtAgent, Suspended, Verdicts, routing, report, stored, held, history, Promise!Next,
       Promise!End, Promise!Begin, Promise!Tell, Promise!Record, Promise!Return, Promise!Raise,
       Promise!ObeyTell, Promise!Die
  <1>6. CASE PreflightRaises
    BY <1>6 DEF PreflightRaises, IInv, TypeOK, ReportsInOrder, EndsInOrder, Early, AtReport,
       InTry, AtAgent, Suspended, Verdicts, routing, report, stored, held, history, Promise!Next,
       Promise!End, Promise!Begin, Promise!Tell, Promise!Record, Promise!Return, Promise!Raise,
       Promise!ObeyTell, Promise!Die
  <1>7. CASE AgentRefreshes
    BY <1>7 DEF AgentRefreshes, Rerun, IInv, TypeOK, ReportsInOrder, EndsInOrder, Early,
       AtReport, InTry, AtAgent, Suspended, Verdicts, routing, report, stored, held, history,
       Promise!Next, Promise!End, Promise!Begin, Promise!Tell, Promise!Record, Promise!Return,
       Promise!Raise, Promise!ObeyTell, Promise!Die
  <1>8. CASE AgentOverflows
    BY <1>8 DEF AgentOverflows, IInv, TypeOK, ReportsInOrder, EndsInOrder, Early, AtReport,
       InTry, AtAgent, Suspended, Verdicts, routing, report, stored, held, history, Promise!Next,
       Promise!End, Promise!Begin, Promise!Tell, Promise!Record, Promise!Return, Promise!Raise,
       Promise!ObeyTell, Promise!Die
  <1>9. CASE SummaryEnds
    BY <1>9 DEF SummaryEnds, Rerun, Fail, Report, IInv, TypeOK, ReportsInOrder, EndsInOrder,
       Early, AtReport, InTry, AtAgent, Suspended, Verdicts, routing, report, stored, held,
       history, Promise!Next, Promise!End, Promise!Begin, Promise!Tell, Promise!Record,
       Promise!Return, Promise!Raise, Promise!ObeyTell, Promise!Die
  <1>10. CASE AgentSwitches
    BY <1>10 DEF AgentSwitches, Fail, Report, IInv, TypeOK, ReportsInOrder, EndsInOrder,
       Early, AtReport, InTry, AtAgent, Suspended, Verdicts, routing, report, stored, held,
       history, Promise!Next, Promise!End, Promise!Begin, Promise!Tell, Promise!Record,
       Promise!Return, Promise!Raise, Promise!ObeyTell, Promise!Die
  <1>11. CASE AgentRaises
    BY <1>11 DEF AgentRaises, Fail, Report, IInv, TypeOK, ReportsInOrder, EndsInOrder, Early,
       AtReport, InTry, AtAgent, Suspended, Verdicts, routing, report, stored, held, history,
       Promise!Next, Promise!End, Promise!Begin, Promise!Tell, Promise!Record, Promise!Return,
       Promise!Raise, Promise!ObeyTell, Promise!Die
  <1>12. CASE AgentAnswers
    BY <1>12 DEF AgentAnswers, Promote, Rerun, Deliver, Continue, Fail, Report, IInv, TypeOK,
       ReportsInOrder, EndsInOrder, Early, AtReport, InTry, AtAgent, Suspended, Verdicts,
       routing, report, stored, held, history, Promise!Next, Promise!End, Promise!Begin,
       Promise!Tell, Promise!Record, Promise!Return, Promise!Raise, Promise!ObeyTell, Promise!Die
  <1>13. CASE RepairAnswers
    BY <1>13 DEF RepairAnswers, Promote, Rerun, Deliver, Continue, Fail, Report, IInv, TypeOK,
       ReportsInOrder, EndsInOrder, Early, AtReport, InTry, AtAgent, Suspended, Verdicts,
       routing, report, stored, held, history, Promise!Next, Promise!End, Promise!Begin,
       Promise!Tell, Promise!Record, Promise!Return, Promise!Raise, Promise!ObeyTell, Promise!Die
  <1>14. CASE PersistTrace
    BY <1>14 DEF PersistTrace, WriteTrace, IInv, TypeOK, ReportsInOrder, EndsInOrder, Early,
       AtReport, InTry, AtAgent, Suspended, Verdicts, routing, report, stored, held, history,
       Promise!Next, Promise!End, Promise!Begin, Promise!Tell, Promise!Record, Promise!Return,
       Promise!Raise, Promise!ObeyTell, Promise!Die
  <1>15. CASE Enqueue
    BY <1>15 DEF Enqueue, CloseAndReturn, LeaveTry, IInv, TypeOK, ReportsInOrder, EndsInOrder,
       Early, AtReport, InTry, AtAgent, Suspended, Verdicts, routing, report, stored, held,
       history, Promise!Next, Promise!End, Promise!Begin, Promise!Tell, Promise!Record,
       Promise!Return, Promise!Raise, Promise!ObeyTell, Promise!Die
  <1>16. CASE ReportRaises
    BY <1>16 DEF ReportRaises, Raises, Fail, Report, LeaveTry, IInv, TypeOK, ReportsInOrder,
       EndsInOrder, Early, AtReport, InTry, AtAgent, Suspended, Verdicts, routing, report,
       stored, held, history, Promise!Next, Promise!End, Promise!Begin, Promise!Tell,
       Promise!Record, Promise!Return, Promise!Raise, Promise!ObeyTell, Promise!Die
  <1>17. CASE CloseEnds
    BY <1>17 DEF CloseEnds, IInv, TypeOK, ReportsInOrder, EndsInOrder, Early, AtReport, InTry,
       AtAgent, Suspended, Verdicts, routing, report, stored, held, history, Promise!Next,
       Promise!End, Promise!Begin, Promise!Tell, Promise!Record, Promise!Return, Promise!Raise,
       Promise!ObeyTell, Promise!Die
  <1>18. CASE CloseRaises
    BY <1>18 DEF CloseRaises, Raises, Fail, Report, LeaveTry, IInv, TypeOK, ReportsInOrder,
       EndsInOrder, Early, AtReport, InTry, AtAgent, Suspended, Verdicts, routing, report,
       stored, held, history, Promise!Next, Promise!End, Promise!Begin, Promise!Tell,
       Promise!Record, Promise!Return, Promise!Raise, Promise!ObeyTell, Promise!Die
  <1>19. CASE ReleaseEnds
    BY <1>19 DEF ReleaseEnds, IInv, TypeOK, ReportsInOrder, EndsInOrder, Early, AtReport,
       InTry, AtAgent, Suspended, Verdicts, routing, report, stored, held, history, Promise!Next,
       Promise!End, Promise!Begin, Promise!Tell, Promise!Record, Promise!Return, Promise!Raise,
       Promise!ObeyTell, Promise!Die
  <1>20. CASE CancelledInTry
    BY <1>20 DEF CancelledInTry, LeaveTry, IInv, TypeOK, ReportsInOrder, EndsInOrder, Early,
       AtReport, InTry, AtAgent, Suspended, Verdicts, routing, report, stored, held, history,
       Promise!Next, Promise!End, Promise!Begin, Promise!Tell, Promise!Record, Promise!Return,
       Promise!Raise, Promise!ObeyTell, Promise!Die
  <1>21. CASE CancelledInFinally
    BY <1>21 DEF CancelledInFinally, IInv, TypeOK, ReportsInOrder, EndsInOrder, Early,
       AtReport, InTry, AtAgent, Suspended, Verdicts, routing, report, stored, held, history,
       Promise!Next, Promise!End, Promise!Begin, Promise!Tell, Promise!Record, Promise!Return,
       Promise!Raise, Promise!ObeyTell, Promise!Die
  <1>22. CASE OpenBrowser
    BY <1>22 DEF OpenBrowser, IInv, TypeOK, ReportsInOrder, EndsInOrder, Early, AtReport,
       InTry, AtAgent, Suspended, Verdicts, routing, report, stored, held, history, Promise!Next,
       Promise!End, Promise!Begin, Promise!Tell, Promise!Record, Promise!Return, Promise!Raise,
       Promise!ObeyTell, Promise!Die
  <1>23. CASE Cancel
    BY <1>23 DEF Cancel, IInv, TypeOK, ReportsInOrder, EndsInOrder, Early, AtReport, InTry,
       AtAgent, Suspended, Verdicts, routing, report, stored, held, history, Promise!Next,
       Promise!End, Promise!Begin, Promise!Tell, Promise!Record, Promise!Return, Promise!Raise,
       Promise!ObeyTell, Promise!Die
  <1>24. CASE WaitForSwallows
    BY <1>24 DEF WaitForSwallows, IInv, TypeOK, ReportsInOrder, EndsInOrder, Early, AtReport,
       InTry, AtAgent, Suspended, Verdicts, routing, report, stored, held, history, Promise!Next,
       Promise!End, Promise!Begin, Promise!Tell, Promise!Record, Promise!Return, Promise!Raise,
       Promise!ObeyTell, Promise!Die
  <1>25. CASE Crash
    BY <1>25 DEF Crash, IInv, TypeOK, ReportsInOrder, EndsInOrder, Early, AtReport, InTry,
       AtAgent, Suspended, Verdicts, routing, report, stored, held, history, Promise!Next,
       Promise!End, Promise!Begin, Promise!Tell, Promise!Record, Promise!Return, Promise!Raise,
       Promise!ObeyTell, Promise!Die
  <1>26. QED
    BY <1>1, <1>2, <1>3, <1>4, <1>5, <1>6, <1>7, <1>8, <1>9, <1>10, <1>11, <1>12, <1>13,
       <1>14, <1>15, <1>16, <1>17, <1>18, <1>19, <1>20, <1>21, <1>22, <1>23, <1>24, <1>25 DEF
       Next, RunStep, Setup, AgentEnds, Reporting, IsCancelled

\* The loop of MissionService.run, with its handlers, cancellations and crashes, does nothing its
\* callers cannot expect of MissionPromise.
THEOREM PromiseIsKept == Spec => Promise!SafetySpec
  <1>1. IInv /\ [Next]_vars => [Promise!Next]_(Promise!promiseVars)
    BY StepIsPromised DEF PromiseStep, Promise!promiseVars
  <1>2. QED
    BY <1>1, InitIsPromised, InvariantHolds, PTL DEF Spec, Promise!SafetySpec

-----------------------------------------------------------------------------
(* How long a mission can go on *)

\* The phases that may still come before the agent is run again, if it is: each report can fail
\* once and be followed by the report of that failure.
Stages ==
  CASE phase = "new" -> 13
    [] phase = "building" -> 12
    [] phase = "preflight" -> 11
    [] phase = "agent" -> 10
    [] phase \in {"repair", "summarising"} -> 9
    [] phase = "reporting" -> IF level = "body" THEN 8 ELSE 5
    [] phase = "enqueueing" -> IF level = "body" THEN 7 ELSE 4
    [] phase = "closing" -> IF level = "body" THEN 6 ELSE 3
    [] phase = "releasing" -> 1
    [] OTHER -> 0

\* The agent runs still to come: a rerun, or the continuation of a truncated answer.
Rounds == (MaxReruns - reruns) + IF retried THEN 0 ELSE 1

StepsLeft == 2 * Rounds + Stages

\* Every step that the call makes by itself brings its end nearer, and no tool, cancellation or
\* swallowed cancellation puts it off.  So with finitely many reruns the call makes finitely many
\* steps, 2 * MaxReruns + 15 at most, which is what its termination rests on.
MissionRunsDown == [][IF RunStep THEN StepsLeft' < StepsLeft ELSE StepsLeft' <= StepsLeft]_vars

LEMMA StepsAreCounted == TypeOK => StepsLeft \in Nat /\ Rounds \in Nat /\ Stages \in 0 .. 13
  <1> SUFFICES ASSUME TypeOK PROVE StepsLeft \in Nat /\ Rounds \in Nat /\ Stages \in 0 .. 13
    OBVIOUS
  <1>1. Rounds \in Nat
    BY MissionAssumption DEF TypeOK, Rounds
  <1>2. Stages \in 0 .. 13
    BY DEF Stages
  <1> QED
    BY <1>1, <1>2 DEF StepsLeft

LEMMA StepsStayCounted == TypeOK' => StepsLeft' \in Nat /\ Rounds' \in Nat /\ Stages' \in 0 .. 13
  <1> DEFINE Counted == StepsLeft \in Nat /\ Rounds \in Nat /\ Stages \in 0 .. 13
  <1>1. TypeOK => Counted
    BY StepsAreCounted
  <1>2. TypeOK' => Counted'
    BY <1>1, PTL
  <1> QED
    BY <1>2

\* A step within a round.
LEMMA StageStep ==
  ASSUME TypeOK, TypeOK', UNCHANGED <<reruns, retried>>
  PROVE  /\ Stages' < Stages => StepsLeft' < StepsLeft
         /\ Stages' <= Stages => StepsLeft' <= StepsLeft
  <1>1. Rounds' = Rounds
    BY DEF Rounds
  <1>2. Rounds \in Nat /\ Stages \in Nat /\ Stages' \in Nat
    BY StepsAreCounted, StepsStayCounted
  <1>3. \A n, a, b \in Nat : (b < a => 2 * n + b < 2 * n + a) /\ (b <= a => 2 * n + b <= 2 * n + a)
    OBVIOUS
  <1>4. StepsLeft = 2 * Rounds + Stages /\ StepsLeft' = 2 * Rounds + Stages'
    BY <1>1 DEF StepsLeft
  <1> QED
    BY <1>2, <1>3, <1>4

\* A step to the next round.
LEMMA RoundStep ==
  ASSUME TypeOK, TypeOK', phase \in {"agent", "repair", "summarising"}, phase' = "agent",
         \/ reruns' = reruns + 1 /\ UNCHANGED retried
         \/ ~retried /\ retried' /\ UNCHANGED reruns
  PROVE  StepsLeft' < StepsLeft
  <1>1. Rounds' = Rounds - 1 /\ Rounds \in Nat
    <2>1. reruns \in 0 .. MaxReruns /\ reruns' \in 0 .. MaxReruns /\ retried \in BOOLEAN
      BY DEF TypeOK
    <2>2. Rounds \in Nat
      BY StepsAreCounted
    <2>3. CASE reruns' = reruns + 1 /\ UNCHANGED retried
      BY <2>1, <2>3, MissionAssumption DEF Rounds
    <2>4. CASE ~retried /\ retried' /\ UNCHANGED reruns
      BY <2>1, <2>4, MissionAssumption DEF Rounds
    <2> QED
      BY <2>2, <2>3, <2>4
  <1>2. Stages' = 10 /\ Stages \in {9, 10}
    BY DEF Stages
  <1> QED
    BY <1>1, <1>2 DEF StepsLeft

\* The call's own steps.
LEMMA RunStepsCountDown ==
  ASSUME TypeOK, TypeOK', RunStep
  PROVE  StepsLeft' < StepsLeft
  <1> USE DEF TypeOK, Phases, Suspended, InTry, AtAgent
  <1>1. CASE Setup
    <2>1. Stages' < Stages
      BY <1>1 DEF Setup, Build, BuildRaises, PreflightEnds, PreflightRaises, Stages
    <2>2. UNCHANGED <<reruns, retried>>
      BY <1>1 DEF Setup, Build, BuildRaises, PreflightEnds, PreflightRaises, routing
    <2> QED
      BY <2>1, <2>2, StageStep
  <1>2. CASE AgentRefreshes
    BY <1>2, RoundStep DEF AgentRefreshes, Rerun
  <1>3. CASE SummaryEnds
    <2>1. CASE Rerun
      BY <1>3, <2>1, RoundStep DEF SummaryEnds, Rerun, routing
    <2>2. CASE ~Rerun
      BY <1>3, <2>2, StageStep DEF SummaryEnds, Fail, Report, Stages, routing
    <2> QED
      BY <2>1, <2>2
  <1>4. CASE AgentOverflows \/ AgentSwitches \/ AgentRaises
    BY <1>4, StageStep DEF AgentOverflows, AgentSwitches, AgentRaises, Fail, Report, Stages
  <1>5. CASE AgentAnswers \/ RepairAnswers
    <2>1. CASE Promote
      BY <1>5, <2>1, RoundStep DEF AgentAnswers, RepairAnswers, Promote, Rerun
    <2>2. CASE Deliver /\ UNCHANGED reruns
      <3>1. CASE ~retried /\ Continue
        BY <1>5, <2>2, <3>1, RoundStep DEF AgentAnswers, RepairAnswers, Continue
      <3>2. CASE ~(~retried /\ Continue)
        BY <1>5, <2>2, <3>2, StageStep DEF AgentAnswers, RepairAnswers, Deliver, Fail, Report, Stages,
                                           routing
      <3> QED
        BY <3>1, <3>2
    <2>3. CASE AgentAnswers /\ phase' = "repair" /\ UNCHANGED <<routing, reruns>>
      BY <2>3, StageStep DEF AgentAnswers, Stages, routing
    <2>4. CASE RepairAnswers /\ Fail("output_validation_error", "body") /\ UNCHANGED <<routing, reruns>>
      BY <2>4, StageStep DEF RepairAnswers, Fail, Report, Stages, routing
    <2> QED
      BY <1>5, <2>1, <2>2, <2>3, <2>4 DEF AgentAnswers, RepairAnswers
  <1>6. CASE PersistTrace \/ Enqueue
    BY <1>6, StageStep DEF PersistTrace, Enqueue, CloseAndReturn, LeaveTry, Stages, routing, report
  <1>7. CASE ReportRaises \/ CloseRaises
    BY <1>7, StageStep DEF ReportRaises, CloseRaises, Raises, Fail, Report, LeaveTry, Stages, routing,
                           report
  <1>8. CASE CloseEnds \/ ReleaseEnds
    BY <1>8, StageStep DEF CloseEnds, ReleaseEnds, Stages, routing
  <1>9. CASE IsCancelled
    BY <1>9, StageStep DEF IsCancelled, CancelledInTry, CancelledInFinally, LeaveTry, Stages, routing,
                           report
  <1> QED
    BY <1>1, <1>2, <1>3, <1>4, <1>5, <1>6, <1>7, <1>8, <1>9 DEF RunStep, AgentEnds, Reporting

\* A mission's own steps are numbered, and nothing from outside adds to them.
THEOREM MissionsRunDown == Spec => MissionRunsDown
  <1> DEFINE Down == IF RunStep THEN StepsLeft' < StepsLeft ELSE StepsLeft' <= StepsLeft
  <1>1. TypeOK /\ TypeOK' /\ [Next]_vars => [Down]_vars
    <2> SUFFICES ASSUME TypeOK, TypeOK', Next, ~RunStep PROVE StepsLeft' <= StepsLeft
      BY RunStepsCountDown
    <2>1. CASE Call \/ Crash
      BY <2>1, StageStep DEF Call, Crash, Stages, TypeOK, routing, report
    <2>2. CASE OpenBrowser \/ Cancel \/ WaitForSwallows
      <3>1. UNCHANGED <<phase, level, reruns, retried>>
        BY <2>2 DEF OpenBrowser, Cancel, WaitForSwallows, routing, report
      <3>2. StepsLeft' = StepsLeft
        BY <3>1 DEF StepsLeft, Rounds, Stages
      <3> QED
        BY <3>2, StepsAreCounted
    <2> QED
      BY <2>1, <2>2 DEF Next
  <1> QED
    BY <1>1, TypesHold, PTL DEF Spec, MissionRunsDown
=============================================================================
