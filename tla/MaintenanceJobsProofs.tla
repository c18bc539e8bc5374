------------------------ MODULE MaintenanceJobsProofs ------------------------
(***************************************************************************)
(* Proofs about MaintenanceJobs, for any set of jobs and any number of     *)
(* lives of the server: its safety invariants, and that it implements the  *)
(* safety part of DurableQueue.                                            *)
(*                                                                         *)
(* One strengthening carries all of them: what each task may be, given the *)
(* job's file (TasksMatchFiles), what the runner's tables hold in each     *)
(* state of the server (TablesMatchServer) and how attempts and lives are  *)
(* counted (AttemptsMatchLives).                                           *)
(***************************************************************************)
EXTENDS MaintenanceJobs, TLAPS

\* A task works on a job marked running, is created for one that has not ended.
TasksMatchFiles == \A j \in Jobs :
  /\ task[j] = "working" => status[j] = "running"
  /\ task[j] = "created" => status[j] \in {"pending", "running"}

\* Tasks are cancelled only by a stop, and a server that is up has not begun one.
TablesMatchServer ==
  /\ app = "up" => cancelling = {}
  /\ app = "down" => cancelling = {}

\* A job whose task has not started yet was not tried in this life.
AttemptsMatchLives ==
  /\ app # "down" => lives > 0
  /\ \A j \in Jobs : status[j] = "absent" => attempts[j] = 0
  /\ \A j \in Jobs : task[j] = "created" => attempts[j] < lives

IInv ==
  /\ TypeOK
  /\ TasksMatchFiles
  /\ TablesMatchServer
  /\ AttemptsMatchLives
  /\ NoJobForgotten
  /\ StopReachesEveryTask
  /\ OneAttemptPerLife
  /\ CancelledTraceIsTrue

-----------------------------------------------------------------------------

\* The invariant holds before the server is first started.
LEMMA InitInvariant == Init => IInv
  BY DEF Init, IInv, TypeOK, Statuses, TasksMatchFiles, TablesMatchServer, AttemptsMatchLives,
         NoJobForgotten, StopReachesEveryTask, OneAttemptPerLife, CancelledTraceIsTrue

\* The end of the process, at any moment, keeps the invariant, provided the job files are sound.
LEMMA ProcessEndsInvariant ==
  ASSUME IInv, ProcessEnds, lives' = lives,
         status' \in [Jobs -> Statuses], attempts' = attempts,
         jobTrace' \in [Jobs -> {"none", "queued", "cancelled"}],
         \A j \in Jobs : status'[j] = "absent" => status[j] = "absent",
         CancelledTraceIsTrue'
  PROVE  IInv'
  BY DEF IInv, ProcessEnds, TypeOK, LiveTask, TasksMatchFiles, TablesMatchServer,
         AttemptsMatchLives, NoJobForgotten, StopReachesEveryTask, OneAttemptPerLife

\* Starting and stopping the server.
LEMMA ServerInvariant == IInv /\ ServerStep => IInv'
  <1> SUFFICES ASSUME IInv, ServerStep PROVE IInv'
    OBVIOUS
  <1> USE DEF jobFiles, runner
  <1>1. CASE Start
    <2>1. TypeOK'
      BY <1>1 DEF Start, IInv, TypeOK, PendingJobs
    <2>2. TasksMatchFiles' /\ TablesMatchServer' /\ AttemptsMatchLives' /\ OneAttemptPerLife'
      BY <1>1 DEF Start, IInv, TypeOK, PendingJobs, TasksMatchFiles, TablesMatchServer,
                  AttemptsMatchLives, OneAttemptPerLife
    <2>3. NoJobForgotten' /\ StopReachesEveryTask' /\ CancelledTraceIsTrue'
      BY <1>1 DEF Start, IInv, TypeOK, PendingJobs, LiveTask, NoJobForgotten,
                  StopReachesEveryTask, CancelledTraceIsTrue
    <2> QED
      BY <2>1, <2>2, <2>3 DEF IInv
  <1>2. CASE StopBegins
    <2>1. TypeOK'
      BY <1>2 DEF StopBegins, IInv, TypeOK
    <2>2. TasksMatchFiles' /\ TablesMatchServer' /\ AttemptsMatchLives' /\ OneAttemptPerLife'
      BY <1>2 DEF StopBegins, IInv, TypeOK, TasksMatchFiles, TablesMatchServer,
                  AttemptsMatchLives, OneAttemptPerLife
    <2>3. NoJobForgotten' /\ StopReachesEveryTask' /\ CancelledTraceIsTrue'
      BY <1>2 DEF StopBegins, IInv, LiveTask, NoJobForgotten, StopReachesEveryTask,
                  CancelledTraceIsTrue
    <2> QED
      BY <2>1, <2>2, <2>3 DEF IInv
  <1>3. CASE StopEnds \/ Crash
    <2>1. ProcessEnds /\ UNCHANGED jobFiles /\ lives' = lives
      BY <1>3 DEF StopEnds, Crash
    <2> QED
      BY <2>1, ProcessEndsInvariant DEF IInv, TypeOK, CancelledTraceIsTrue
  <1> QED
    BY <1>1, <1>2, <1>3 DEF ServerStep

\* What the tasks do.
LEMMA TaskInvariant ==
  ASSUME IInv, NEW j \in Jobs,
         \/ RunJob(j) \/ SkipJob(j) \/ JobEnds(j) \/ JobCancelled(j)
         \/ WaitForSwallows(j) \/ ForgetTask(j)
  PROVE  IInv'
  <1> USE DEF jobFiles
  <1>1. CASE RunJob(j)
    <2>1. TypeOK'
      BY <1>1 DEF RunJob, IInv, TypeOK, Statuses
    <2>2. TasksMatchFiles' /\ TablesMatchServer' /\ AttemptsMatchLives' /\ OneAttemptPerLife'
      BY <1>1 DEF RunJob, IInv, TypeOK, TasksMatchFiles, TablesMatchServer,
                  AttemptsMatchLives, OneAttemptPerLife
    <2>3. NoJobForgotten' /\ StopReachesEveryTask' /\ CancelledTraceIsTrue'
      BY <1>1 DEF RunJob, IInv, TypeOK, LiveTask, TasksMatchFiles, NoJobForgotten,
                  StopReachesEveryTask, CancelledTraceIsTrue
    <2> QED
      BY <2>1, <2>2, <2>3 DEF IInv
  <1>2. CASE SkipJob(j) \/ WaitForSwallows(j) \/ ForgetTask(j)
    <2>1. TypeOK'
      BY <1>2 DEF SkipJob, WaitForSwallows, ForgetTask, IInv, TypeOK
    <2>2. TasksMatchFiles' /\ TablesMatchServer' /\ AttemptsMatchLives' /\ OneAttemptPerLife'
      BY <1>2 DEF SkipJob, WaitForSwallows, ForgetTask, IInv, TypeOK, TasksMatchFiles,
                  TablesMatchServer, AttemptsMatchLives, OneAttemptPerLife
    <2>3. NoJobForgotten' /\ StopReachesEveryTask' /\ CancelledTraceIsTrue'
      BY <1>2 DEF SkipJob, WaitForSwallows, ForgetTask, IInv, TypeOK, TablesMatchServer, LiveTask,
                  NoJobForgotten, StopReachesEveryTask, CancelledTraceIsTrue
    <2> QED
      BY <2>1, <2>2, <2>3 DEF IInv
  <1>3. CASE JobEnds(j) \/ JobCancelled(j)
    <2>1. TypeOK'
      BY <1>3 DEF JobEnds, EndStatus, JobCancelled, SaveCancelled, IInv, TypeOK, Statuses
    <2>2. TasksMatchFiles' /\ TablesMatchServer' /\ AttemptsMatchLives' /\ OneAttemptPerLife'
      BY <1>3 DEF JobEnds, EndStatus, JobCancelled, SaveCancelled, IInv, TypeOK, TasksMatchFiles,
                  TablesMatchServer, AttemptsMatchLives, OneAttemptPerLife
    <2>3. NoJobForgotten' /\ StopReachesEveryTask' /\ CancelledTraceIsTrue'
      BY <1>3 DEF JobEnds, EndStatus, JobCancelled, SaveCancelled, IInv, TypeOK, LiveTask,
                  TasksMatchFiles, NoJobForgotten, StopReachesEveryTask,
                  CancelledTraceIsTrue
    <2> QED
      BY <2>1, <2>2, <2>3 DEF IInv
  <1> QED
    BY <1>1, <1>2, <1>3

\* A new job, and the two crashes between the two files of a job.
LEMMA FilesInvariant ==
  ASSUME IInv, NEW j \in Jobs, Enqueue(j) \/ CrashInEnqueue(j) \/ CrashInCancel(j)
  PROVE  IInv'
  <1> USE DEF jobFiles
  <1>1. CASE Enqueue(j)
    <2>1. TypeOK'
      BY <1>1 DEF Enqueue, ScheduleIfStarted, IInv, TypeOK, Statuses
    <2>2. TasksMatchFiles' /\ TablesMatchServer' /\ AttemptsMatchLives' /\ OneAttemptPerLife'
      BY <1>1 DEF Enqueue, ScheduleIfStarted, IInv, TypeOK, TasksMatchFiles, TablesMatchServer,
                  AttemptsMatchLives, OneAttemptPerLife
    <2>3. NoJobForgotten' /\ StopReachesEveryTask' /\ CancelledTraceIsTrue'
      BY <1>1 DEF Enqueue, ScheduleIfStarted, IInv, TypeOK, LiveTask, NoJobForgotten,
                  StopReachesEveryTask, CancelledTraceIsTrue
    <2> QED
      BY <2>1, <2>2, <2>3 DEF IInv
  <1>2. CASE CrashInEnqueue(j)
    <2>1. /\ ProcessEnds /\ lives' = lives /\ attempts' = attempts /\ jobTrace' = jobTrace
          /\ status' \in [Jobs -> Statuses]
          /\ \A i \in Jobs : status'[i] = "absent" => status[i] = "absent"
      BY <1>2 DEF CrashInEnqueue, IInv, TypeOK, Statuses
    <2>2. CancelledTraceIsTrue'
      BY <1>2 DEF CrashInEnqueue, IInv, TypeOK, CancelledTraceIsTrue
    <2> QED
      BY <2>1, <2>2, ProcessEndsInvariant DEF IInv, TypeOK
  <1>3. CASE CrashInCancel(j)
    <2>1. /\ ProcessEnds /\ lives' = lives /\ attempts' = attempts /\ jobTrace' = jobTrace
          /\ status' \in [Jobs -> Statuses]
          /\ \A i \in Jobs : status'[i] = "absent" => status[i] = "absent"
      BY <1>3 DEF CrashInCancel, JobFileFirst, SaveCancelled, IInv, TypeOK, Statuses
    <2>2. CancelledTraceIsTrue'
      BY <1>3 DEF CrashInCancel, JobFileFirst, SaveCancelled, IInv, TypeOK, CancelledTraceIsTrue
    <2> QED
      BY <2>1, <2>2, ProcessEndsInvariant DEF IInv, TypeOK
  <1> QED
    BY <1>1, <1>2, <1>3

\* The strengthened invariant holds in every state.
LEMMA Invariant == Spec => []IInv
  <1>1. IInv /\ [Next]_vars => IInv'
    <2>1. CASE UNCHANGED vars
      BY <2>1 DEF vars, jobFiles, runner, IInv, TypeOK, TasksMatchFiles, TablesMatchServer,
                  AttemptsMatchLives, NoJobForgotten, StopReachesEveryTask,
                  OneAttemptPerLife, CancelledTraceIsTrue
    <2> QED
      BY <2>1, ServerInvariant, TaskInvariant, FilesInvariant DEF Next, JobStep
  <1> QED
    BY <1>1, InitInvariant, PTL DEF Spec

\* Every variable keeps its type.
THEOREM TypesHold == Spec => []TypeOK
  BY Invariant, PTL DEF IInv

\* While the server is up every job that has not ended has a task: none waits for another start.
THEOREM NoJobIsForgotten == Spec => []NoJobForgotten
  BY Invariant, PTL DEF IInv

\* A stop waits for every task, and a server that is down has none.
THEOREM StopsReachEveryTask == Spec => []StopReachesEveryTask
  BY Invariant, PTL DEF IInv

\* No job is started twice in one life of the server.
THEOREM OneAttemptInEachLife == Spec => []OneAttemptPerLife
  BY Invariant, PTL DEF IInv

\* A trace never calls a job cancelled that will be resumed, whenever the process dies.
THEOREM CancelledTracesAreTrue == Spec => []CancelledTraceIsTrue
  BY Invariant, PTL DEF IInv

-----------------------------------------------------------------------------
(* The durable queue *)

\* A step that changes the file of one job changes the queue's state of that job alone.
LEMMA QueueStateChange ==
  ASSUME TypeOK, NEW j \in Jobs, NEW new \in Statuses, NEW abstract,
         status' = [status EXCEPT ![j] = new],
         abstract = CASE new = "pending" -> "waiting"
                      [] new = "running" -> "taken"
                      [] new \in {"completed", "failed"} -> "finished"
                      [] new = "cancelled" -> "givenUp"
                      [] OTHER -> "absent"
  PROVE  QueueState' = [QueueState EXCEPT ![j] = abstract]
  <1>1. \A i \in Jobs : status'[i] = IF i = j THEN new ELSE status[i]
    BY DEF TypeOK
  <1>2. \A i \in Jobs : QueueState'[i] = IF i = j THEN abstract ELSE QueueState[i]
    BY <1>1 DEF QueueState
  <1> QED
    BY <1>2 DEF QueueState

\* Every step is a step of the queue, or changes nothing the queue knows of.
LEMMA QueueStep == IInv /\ [Next]_vars => [Queue!Next]_(Queue!queueVars)
  <1> SUFFICES ASSUME IInv, [Next]_vars
               PROVE  Queue!Next \/ UNCHANGED <<QueueState, attempts>>
    BY DEF Queue!queueVars
  <1> USE DEF jobFiles, runner
  <1>1. CASE UNCHANGED <<status, attempts>>
    BY <1>1 DEF QueueState
  <1>2. ASSUME NEW j \in Jobs, Enqueue(j) \/ CrashInEnqueue(j)
        PROVE  Queue!Next
    <2>1. status' = [status EXCEPT ![j] = "pending"] /\ attempts' = attempts /\ status[j] = "absent"
      BY <1>2 DEF Enqueue, CrashInEnqueue
    <2>2. QueueState' = [QueueState EXCEPT ![j] = "waiting"]
      BY <2>1, QueueStateChange DEF IInv, Statuses
    <2>3. QueueState[j] = "absent"
      BY <2>1 DEF QueueState
    <2> QED
      BY <2>1, <2>2, <2>3 DEF Queue!Next, Queue!Put
  <1>3. ASSUME NEW j \in Jobs, RunJob(j)
        PROVE  Queue!Next
    <2>1. /\ status' = [status EXCEPT ![j] = "running"]
          /\ attempts' = [attempts EXCEPT ![j] = @ + 1]
          /\ status[j] \in {"pending", "running"}
      BY <1>3 DEF RunJob, IInv, TasksMatchFiles
    <2>2. QueueState' = [QueueState EXCEPT ![j] = "taken"]
      BY <2>1, QueueStateChange DEF IInv, Statuses
    <2>3. QueueState[j] \in {"waiting", "taken"}
      BY <2>1 DEF QueueState
    <2> QED
      BY <2>1, <2>2, <2>3 DEF Queue!Next, Queue!Step, Queue!Take
  <1>4. ASSUME NEW j \in Jobs, JobEnds(j)
        PROVE  Queue!Next
    <2>1. PICK outcome \in {"completed", "failed"} : status' = [status EXCEPT ![j] = outcome]
      BY <1>4 DEF JobEnds, EndStatus
    <2>2. attempts' = attempts /\ status[j] = "running"
      BY <1>4 DEF JobEnds, IInv, TasksMatchFiles
    <2>3. QueueState' = [QueueState EXCEPT ![j] = "finished"]
      BY <2>1, QueueStateChange DEF IInv, Statuses
    <2>4. QueueState[j] = "taken"
      BY <2>2 DEF QueueState
    <2> QED
      BY <2>2, <2>3, <2>4 DEF Queue!Next, Queue!Step, Queue!Finish
  <1>5. ASSUME NEW j \in Jobs, JobCancelled(j) \/ CrashInCancel(j)
        PROVE  Queue!Next
    <2>1. /\ status' = [status EXCEPT ![j] = "cancelled"]
          /\ attempts' = attempts /\ status[j] = "running"
      BY <1>5 DEF JobCancelled, CrashInCancel, JobFileFirst, SaveCancelled, IInv, TasksMatchFiles
    <2>2. QueueState' = [QueueState EXCEPT ![j] = "givenUp"]
      BY <2>1, QueueStateChange DEF IInv, Statuses
    <2>3. QueueState[j] = "taken"
      BY <2>1 DEF QueueState
    <2> QED
      BY <2>1, <2>2, <2>3 DEF Queue!Next, Queue!Step, Queue!GiveUp
  <1>6. ASSUME NEW j \in Jobs, SkipJob(j) \/ WaitForSwallows(j) \/ ForgetTask(j)
        PROVE  UNCHANGED <<status, attempts>>
    BY <1>6 DEF SkipJob, WaitForSwallows, ForgetTask
  <1>7. CASE ServerStep
    BY <1>1, <1>7 DEF ServerStep, Start, StopBegins, StopEnds, Crash
  <1> QED
    BY <1>1, <1>2, <1>3, <1>4, <1>5, <1>6, <1>7 DEF Next, JobStep, vars

\* The runner, its files and the server that is started, stopped and killed implement the
\* durable queue's safety: jobs are only put, taken (again after a crash), finished and given up.
THEOREM QueueIsImplemented == Spec => Queue!SafetySpec
  <1>1. Init => Queue!Init
    BY DEF Init, Queue!Init, QueueState
  <1> QED
    BY <1>1, QueueStep, Invariant, PTL DEF Spec, Queue!SafetySpec
=============================================================================
