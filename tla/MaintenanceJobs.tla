--------------------------- MODULE MaintenanceJobs ---------------------------
(***************************************************************************)
(* The background skill-maintenance jobs: MaintenanceRunner                *)
(* (application/maintenance_runner.py), the job files it works from        *)
(* (infrastructure/maintenance_job_store.py) and the lifetime of the       *)
(* server that starts and stops it (api/app.py, lifespan).                 *)
(*                                                                         *)
(* One asyncio event loop: start, enqueue, the first half of stop and each *)
(* stretch of _run_job between two awaits are single steps.  A job's       *)
(* mission is one await; what it does to the skills is not modelled.       *)
(* memory.maintenance_enabled is TRUE (with FALSE the runner does nothing).*)
(***************************************************************************)
EXTENDS Naturals, FiniteSets

CONSTANTS
  Jobs,            (* the jobs: each successful or failed mission makes one *)
  MaxLives,        (* bound: how often the server is started                *)
  SwallowsCancel   (* TRUE on Python 3.11: see SessionRuns                  *)

ASSUME MaintenanceJobsAssumption ==
  /\ MaxLives \in Nat
  /\ SwallowsCancel \in BOOLEAN

VARIABLES
  status,      (* job -> the status in its job file                        *)
  attempts,    (* job -> attempt_count in its job file                     *)
  jobTrace,    (* job -> the status in traces/<job>/trace.json             *)
  app,         (* the server                                               *)
  task,        (* job -> its asyncio task in this server process           *)
  tracked,     (* the keys of MaintenanceRunner._tasks                     *)
  cancelling,  (* tasks with a CancelledError still to be delivered        *)
  awaited,     (* the tasks stop() awaits                                  *)
  lives        (* history: how often the server was started                *)

jobFiles == <<status, attempts, jobTrace>>
runner   == <<task, tracked, cancelling, awaited>>
vars     == <<jobFiles, app, runner, lives>>

Statuses == {"absent", "pending", "running", "completed", "failed", "cancelled"}
LiveTask == {"created", "working"}

\* Only jobs that had not been started are resumed.
OnlyPending == {j \in Jobs : status[j] = "pending"}

\* pending_jobs: what start() resumes.
PendingJobs == {j \in Jobs : status[j] \in {"pending", "running"}}

\* The process is gone, and with it every task.
ProcessEnds ==
  /\ app' = "down"
  /\ task' = [j \in Jobs |-> "none"]
  /\ tracked' = {}
  /\ cancelling' = {}
  /\ awaited' = {}

-----------------------------------------------------------------------------
(* The server *)

\* start() counts the attempt as well.
StartCountsAttempts ==
  /\ app = "down"
  /\ lives < MaxLives
  /\ app' = "up"
  /\ lives' = lives + 1
  /\ attempts' = [j \in Jobs |-> IF j \in PendingJobs THEN attempts[j] + 1 ELSE attempts[j]]
  /\ task' = [j \in Jobs |-> IF j \in PendingJobs THEN "created" ELSE "none"]
  /\ tracked' = PendingJobs
  /\ UNCHANGED <<status, jobTrace, cancelling, awaited>>

\* start and resume_pending: a task for every job that had not ended.
Start ==
  /\ app = "down"
  /\ lives < MaxLives
  /\ app' = "up"
  /\ lives' = lives + 1
  /\ task' = [j \in Jobs |-> IF j \in PendingJobs THEN "created" ELSE "none"]
  /\ tracked' = PendingJobs
  /\ UNCHANGED <<jobFiles, cancelling, awaited>>

\* stop up to its first await: every tracked task that is not done is cancelled.
StopBegins ==
  /\ app = "up"
  /\ lives < MaxLives
  /\ app' = "stopping"
  /\ awaited' = tracked
  /\ cancelling' = {j \in tracked : task[j] \in LiveTask}
  /\ tracked' = {}
  /\ UNCHANGED <<jobFiles, task, lives>>

\* The awaited tasks have ended, and the server exits.
StopEnds ==
  /\ app = "stopping"
  /\ \A j \in awaited : task[j] \notin LiveTask
  /\ ProcessEnds
  /\ UNCHANGED <<jobFiles, lives>>

-----------------------------------------------------------------------------
(* A job *)

\* enqueue schedules a task even when the runner is stopping.
ScheduleAlways(j) ==
  /\ task' = [task EXCEPT ![j] = "created"]
  /\ tracked' = tracked \cup {j}

\* A task is made for the job if the runner is started.
ScheduleIfStarted(j) ==
  IF app = "up"
  THEN /\ task' = [task EXCEPT ![j] = "created"]
       /\ tracked' = tracked \cup {j}
  ELSE UNCHANGED <<task, tracked>>

\* A mission has ended, well or badly: its job is written down, and scheduled.
Enqueue(j) ==
  /\ app \in {"up", "stopping"}
  /\ status[j] = "absent"
  /\ status' = [status EXCEPT ![j] = "pending"]
  /\ jobTrace' = [jobTrace EXCEPT ![j] = "queued"]
  /\ ScheduleIfStarted(j)
  /\ UNCHANGED <<attempts, app, cancelling, awaited, lives>>

\* The task's first step: mark_running, and the mission starts.
RunJob(j) ==
  /\ task[j] = "created"
  /\ j \notin cancelling
  /\ status' = [status EXCEPT ![j] = "running"]
  /\ attempts' = [attempts EXCEPT ![j] = @ + 1]
  /\ task' = [task EXCEPT ![j] = "working"]
  /\ UNCHANGED <<jobTrace, app, tracked, cancelling, awaited, lives>>

\* A task cancelled before its first step never enters _run_job: the job file stays as it is.
SkipJob(j) ==
  /\ task[j] = "created"
  /\ j \in cancelling
  /\ task' = [task EXCEPT ![j] = "done"]
  /\ cancelling' = cancelling \ {j}
  /\ UNCHANGED <<jobFiles, app, tracked, awaited, lives>>

\* A failure is written under a status the job model does not know.
EndsWithAnyError == {"completed", "error"}

\* How a job whose mission has ended is marked: a failed result and an exception are the same.
EndStatus == {"completed", "failed"}

\* The mission ends.
JobEnds(j) ==
  /\ task[j] = "working"
  /\ j \notin cancelling
  /\ \E outcome \in EndStatus : status' = [status EXCEPT ![j] = outcome]
  /\ task' = [task EXCEPT ![j] = "done"]
  /\ UNCHANGED <<attempts, jobTrace, app, tracked, cancelling, awaited, lives>>

\* A cancelled job goes back to the queue.
PutBack(j) == status' = [status EXCEPT ![j] = "pending"]

\* The status a cancelled job is left with.
SaveCancelled(j) == status' = [status EXCEPT ![j] = "cancelled"]

\* The CancelledError surfaces from the mission: mark_cancelled writes the job file, then the
\* trace.
JobCancelled(j) ==
  /\ task[j] = "working"
  /\ j \in cancelling
  /\ SaveCancelled(j)
  /\ jobTrace' = [jobTrace EXCEPT ![j] = "cancelled"]
  /\ task' = [task EXCEPT ![j] = "done"]
  /\ cancelling' = cancelling \ {j}
  /\ UNCHANGED <<attempts, app, tracked, awaited, lives>>

\* Python 3.11: the mission's wait_for returns the agent's answer in spite of the cancellation.
WaitForSwallows(j) ==
  /\ SwallowsCancel
  /\ task[j] = "working"
  /\ j \in cancelling
  /\ cancelling' = cancelling \ {j}
  /\ UNCHANGED <<jobFiles, app, task, tracked, awaited, lives>>

\* The done-callback, one turn of the event loop after the task has ended.
ForgetTask(j) ==
  /\ task[j] = "done"
  /\ j \in tracked
  /\ tracked' = tracked \ {j}
  /\ UNCHANGED <<jobFiles, app, task, cancelling, awaited, lives>>

-----------------------------------------------------------------------------
(* The process dies ... *)

Crash ==
  /\ app # "down"
  /\ lives < MaxLives
  /\ ProcessEnds
  /\ UNCHANGED <<jobFiles, lives>>

\* ... between the job file and the trace that enqueue writes,
CrashInEnqueue(j) ==
  /\ app \in {"up", "stopping"}
  /\ lives < MaxLives
  /\ status[j] = "absent"
  /\ status' = [status EXCEPT ![j] = "pending"]
  /\ ProcessEnds
  /\ UNCHANGED <<attempts, jobTrace, lives>>

\* mark_cancelled writes the trace first.
TraceFirst(j) ==
  /\ jobTrace' = [jobTrace EXCEPT ![j] = "cancelled"]
  /\ UNCHANGED status

\* The first of the two files mark_cancelled writes.
JobFileFirst(j) ==
  /\ SaveCancelled(j)
  /\ UNCHANGED jobTrace

\* ... or between the two files mark_cancelled writes.
CrashInCancel(j) ==
  /\ lives < MaxLives
  /\ task[j] = "working"
  /\ j \in cancelling
  /\ JobFileFirst(j)
  /\ ProcessEnds
  /\ UNCHANGED <<attempts, lives>>

-----------------------------------------------------------------------------

Init ==
  /\ status = [j \in Jobs |-> "absent"]
  /\ attempts = [j \in Jobs |-> 0]
  /\ jobTrace = [j \in Jobs |-> "none"]
  /\ app = "down"
  /\ task = [j \in Jobs |-> "none"]
  /\ tracked = {}
  /\ cancelling = {}
  /\ awaited = {}
  /\ lives = 0

\* What a job's task does by itself.
JobStep(j) == RunJob(j) \/ SkipJob(j) \/ JobEnds(j) \/ JobCancelled(j)

ServerStep == Start \/ StopBegins \/ StopEnds \/ Crash

Next ==
  \/ ServerStep
  \/ \E j \in Jobs : \/ Enqueue(j) \/ JobStep(j) \/ WaitForSwallows(j) \/ ForgetTask(j)
                     \/ CrashInEnqueue(j) \/ CrashInCancel(j)

\* The event loop runs every task, missions end, stop() ends with the tasks it awaits, and a
\* server that is down is started again (which liveness needs and safety does not).
Fairness ==
  /\ \A j \in Jobs : WF_vars(JobStep(j))
  /\ WF_vars(Start)
  /\ WF_vars(StopEnds)

Spec == Init /\ [][Next]_vars /\ Fairness

-----------------------------------------------------------------------------
(* Properties *)

TypeOK ==
  /\ status \in [Jobs -> Statuses]
  /\ attempts \in [Jobs -> Nat]
  /\ jobTrace \in [Jobs -> {"none", "queued", "cancelled"}]
  /\ app \in {"down", "up", "stopping"}
  /\ task \in [Jobs -> {"none", "created", "working", "done"}]
  /\ tracked \subseteq Jobs
  /\ cancelling \subseteq Jobs
  /\ awaited \subseteq Jobs
  /\ lives \in Nat

\* While the server is up, a job that has not ended has a task that is going to work or working:
\* no job waits for the next start, however the server before ended.
NoJobForgotten ==
  app = "up" => \A j \in Jobs : status[j] \in {"pending", "running"} => task[j] \in LiveTask

\* A server that is stopping waits for every task there is, and a server that is down has none:
\* no job is worked on that a stop has not told to end.
StopReachesEveryTask ==
  /\ app = "up" => {j \in Jobs : task[j] \in LiveTask} \subseteq tracked
  /\ app = "stopping" => {j \in Jobs : task[j] \in LiveTask} \subseteq awaited
  /\ app = "down" => \A j \in Jobs : task[j] = "none"

\* A job is started at most once in each life of the server, so attempt_count counts the lives
\* the job was tried in.
OneAttemptPerLife == \A j \in Jobs : attempts[j] <= lives

\* A trace that calls its job cancelled is right, even if the process died between the two
\* files: the job is not going to be resumed.
CancelledTraceIsTrue == \A j \in Jobs : jobTrace[j] = "cancelled" => status[j] = "cancelled"

\* The jobs are a durable queue: the job files, and nothing else, are what is promised.
QueueState == [j \in Jobs |->
  CASE status[j] = "pending" -> "waiting"
    [] status[j] = "running" -> "taken"
    [] status[j] \in {"completed", "failed"} -> "finished"
    [] status[j] = "cancelled" -> "givenUp"
    [] OTHER -> "absent"]

Queue == INSTANCE DurableQueue WITH state <- QueueState, tries <- attempts

\* Every step of the runner, crashes included, is a step of the durable queue or none, and once
\* the server stays up every job ends.
ImplementsQueue == Queue!Spec

=============================================================================
