# A TLA+ verification project for Doron

Doron is a FastAPI server that carries out research missions with a language-model agent. It
runs as one Python process on one asyncio event loop; its state is a few Kuzu databases and JSON
files (sessions, contexts, traces, maintenance jobs). What can go wrong is therefore not parallel
threads but *interleaved coroutines*: a chat run that awaits a model for minutes works on copies
of files which the operator's other requests change meanwhile, cancellations are delivered late,
and the process may die between any two files it writes.

The modules translate the Python source under `src/agent_platform/` (paths below are relative to
it). `PROJECT.json` maps each definition to the lines it stands for.

## 1. Inventory

| Component | State it keeps | Operations | Hard behaviour | What makes it correct |
|---|---|---|---|---|
| Session runs (`application/session_service.py`, `api/sessions.py`) | session file, context file, `_active_runs`, the run's own copies | `run_chat`, `steer`, `stop`, `resume`, `update`, disconnect | stale copies across awaits; coalesced cancellations; two runs on one session; crash between two files | turns are never lost, steers are heeded, the registry names the live run, stops last, runs end |
| Maintenance jobs (`application/maintenance_runner.py`, `infrastructure/maintenance_job_store.py`, lifespan in `api/app.py`) | job files, job traces, asyncio tasks | `start`, `stop`, `enqueue`, `_run_job`, done-callback | crash and restart at any point, cancellation before the first step, enqueue while stopping | no job is forgotten, none is tried twice in a life, stop leaves no task behind |
| Mission (`application/mission_service.py`, `runtime_builder.py`) | runtime context, trace file, databases, browser | `run`, `_run_once`, `_fail`, overflow recovery, model switch, repair, continuation | errors after the trace is written; cancellation at any await; unbounded refresh loop | trace agrees with the result, one maintenance job per mission, models stay allowed, resources are released |
| Session directory (`session_service.py`, `session_store.py`, `session_context_store.py`) | session, summary and context files | `open`, `fork`, `list_sessions`, the saves of `update` and of a chat run | lookup in summaries that may be older than the sessions; a run's stale copy saved over a fork; crash between two files | files of a session agree; `open` does not give a name out twice; a group is one database |
| Skill memory (`memory_manager.py`, `tools/memory_tools.py`) | `MemoryEntry` rows, `memory_mutations`, call budget | write, update, deprecate, search, read | parallel calls; an embedding awaited between read and write; batches that fail half-way | an update changes what it names; no update revives a deprecated skill unasked; the audit tells what was done |
| Research graph (`research_graph_manager.py`, `tools/research_tools.py`) | nodes, edges | ensure root, advance, frontier, ancestry, descendants, search | a node whose edge is refused; missions that share a graph; cycles | one root; every node has an origin; the frontier only narrows; traversals are exact |
| Compression (`context_compression.py`, `tools/compression_tools.py`) | working memory, `compressed_memory`, `compression_in_progress` | manual, automatic, overflow | tools that find things while the summary is computed; tasks left over from an earlier run | findings are in the memory or in its summary |
| Browser and web tools (`infrastructure/browser.py`, `tools/web_tools.py`) | driver, browser, page, call budget | start, extract, close, open, search | parallel starts; failures and cancellations between the steps of a start | no driver outlives its mission; the budget is respected |
| Graph DB tools (`tools/db_tools.py`, `kuzu_client.py`) | database, checkpoint, audit | read, write, schema | a query that fails half-way, or whose sync does | the audit and the checkpoint agree with what was changed |
| Model catalog (`model_catalog.py`) | none | choose, promote | — | the chosen model is allowed |
| Chat stream (`api/sessions.py`) | an event queue | put, drain | one producer, one consumer | — |
| Traces, snapshots, configuration, API contracts, CLI, web UI, prompts, output schemas | files or none | I/O and formatting | none of their own | — |

Interaction: an HTTP handler calls `SessionService`; `run_chat` awaits `MissionService.run`, which
builds a runtime (databases, browser, agent), writes the trace and hands it to
`MaintenanceRunner.enqueue`; the runner awaits `MissionService.run` again for the job's mission. The agent's tools share the
mission's runtime context (memory, budgets, audit, browser); a main mission works on the research
graph and the user's databases, a maintenance mission on the skills.
`steer`, `stop` and a disconnecting client reach a run only through `Task.cancel()` and the
files. Every handler is `async`, so code between two awaits is atomic; each module's steps are
cut at the awaits.

## 2. Plan

In order of importance; all of it is done except for the last item.

1. `SessionRuns` — chat runs, the operator's calls, crashes. Proved.
2. `MaintenanceJobs`, implementing `DurableQueue`. Proved.
3. `Mission`, implementing `MissionPromise` — the loop of `MissionService.run` and its exits. Proved.
4. `SessionDirectory` — open, fork, list and saves over three files per session. Proved, in
   `SessionDirectoryProofs` (types, groups) and `SessionFilesProofs` (files, names).
5. `SkillMemory` — parallel calls of the skill tools. Proved.
6. `ResearchGraph` — the graph that missions share; `ResearchTraversal` extends it with the two
   traversals. Both proved.
7. `ToolCalls`, composed with `BrowserEngine` — what the parallel tool calls of a mission share:
   working memory and its compression, web budget, checkpoint and audit, browser. Proved.
8. `ModelCatalog` — not written. Its four functions choose from a sorted list without state; the
   one behaviour of it that others rely on (a model is allowed) is `TypeOK` of `Mission`.

Not separate modules, as once planned: the working memory and the browser interact through the
calls that are cancelled with a run, so `ToolCalls` composes them; and the event queue of a chat
stream has one producer and one consumer and nothing to violate.

## 3. The modules

Every module cuts a coroutine at its awaits: what happens between two awaits is one action, with
every assignment and file write on the way. `Task.cancel()` only puts the task into `cancelling`;
the `CancelledError` surfaces in a later step, at the await the task is suspended in. That gap is
where most of the hazards are. The actions named `WaitForSwallows` stand for Python 3.11's
`asyncio.wait_for`, which returns a finished result even though a cancellation was pending;
`SwallowsCancel` switches them off.

### 3.1 `SessionRuns`

| Code | Model |
|---|---|
| session JSON file | `disk[s]`: turns, `closed`, `stop` (`stop_mode`), `config` (what `update` sets) |
| context JSON file | `context[s]`: turns, and how many of them the summary has replaced (`compacted`) |
| `_active_runs`, `restart_requested` | `active`, `restart` |
| the locals of `run_chat` | `local[r]`, `localContext[r]` |
| `run_chat` up to its first await | `Chat`, with `EnterLoop` |
| `_compact_context_if_needed` before / after the mission | phases `compacting` / `settling`, `CompactionEnds` / `SettlingEnds` |
| `await MissionService.run` | phase `mission`; `MissionEnds`, `MissionRaises` |
| `except CancelledError` inside the loop; the outer one; `finally` | `Restarts`; `EndsCancelled`; `Leave` with `Unregister` |
| `steer`, `stop`, `resume`, `update` | `Steer`, `SoftStop`, `HardStop`, `Resume`, `Update` |
| the SSE stream whose client went away | `Disconnect` |
| the process dies, also between two files | `Crash`, `CrashInChat`, `CrashInSteer` |

`steered`, `served`, `overlapped` and `deaf` are history variables: no action reads them. They
let the properties say which run a steer was accepted for, whether a restart has read it back,
whether a session ever had two runs at once, and in which runs `wait_for` swallowed a
cancellation.

The properties about lost turns hold only for sessions that never had two runs at once
(`Sessions \ overlapped`). Nothing in the code prevents two runs, and with two the later save of
a stale copy does lose the other's turns; `overlapped` marks exactly those sessions. A steer that
was accepted but not yet read back may also be lost (finding `steer_in_compaction`), so `Kept`
counts the served ones.

### 3.2 `MaintenanceJobs`, implementing `DurableQueue`

| Code | Model |
|---|---|
| the job file's `status`, `attempt_count`; the job's trace | `status`, `attempts`, `jobTrace` |
| the server's lifespan | `app`: down, up, stopping |
| the asyncio task of a job; `MaintenanceRunner._tasks` | `task`, `tracked` |
| the list `stop()` gathers | `awaited` |
| `start`, `resume_pending`, `pending_jobs` | `Start`, `PendingJobs` |
| `stop` before and after its await | `StopBegins`, `StopEnds` |
| `enqueue`, `_schedule` | `Enqueue`, `ScheduleIfStarted` |
| `_run_job` and how it ends | `RunJob`, `JobEnds`, `JobCancelled`; `SkipJob` for a task cancelled before its first step |
| the done-callback | `ForgetTask` |
| the process dies, also between two files | `Crash`, `CrashInEnqueue`, `CrashInCancel` |

`lives` counts how often the server was started; it is also the bound (`MaxLives`). `DurableQueue`
is the promise without processes, tasks or files: a job is put in, taken (again after a crash),
finished or given up. The refinement mapping `QueueState` reads the job file only, which is what
makes the queue durable.

### 3.3 `Mission`, implementing `MissionPromise`

One call of `MissionService.run`, for a main or a maintenance mission.

| Code | Model |
|---|---|
| `RuntimeBuilder.build`, `_load_durable_memory` | `Build`, `BuildRaises`, `PreflightEnds`, `PreflightRaises` |
| the loop around `_run_once` | `AgentAnswers`, `AgentRefreshes`, `AgentOverflows` with `SummaryEnds`, `AgentSwitches`, `AgentRaises` |
| the repair prompt | phase `repair`, `RepairAnswers` |
| promotion of a model; continuation of a truncated answer | `Promote`; `Continue`, `Deliver` |
| `_persist_trace`, `_maybe_schedule_skill_maintenance` | `PersistTrace`, `Enqueue` |
| `_fail` and the `except` clauses | `Fail`, `Raises`, `ReportRaises`; `level` says whether the try block still guards |
| `browser.close()`, the `finally` clause | `CloseEnds`, `CloseRaises`; `LeaveTry`, `ReleaseEnds` |
| cancellation | `Cancel`, `CancelledInTry`, `CancelledInFinally`, `WaitForSwallows` |

The agent (pydantic-ai, the model and the tools it calls) is a choice among the outcomes that the
loop tells apart. Two tools of one response run in parallel and only one of their exceptions
surfaces, so any outcome may leave a `switch_model` request behind in `pending_model_switch`
(`LeavesSwitchBehind`). `Models` is what `resolve_allowed` returned; the schema of the
`switch_model` tool admits no other model, so the branches for a forbidden one are left out.
`MaxReruns` bounds the agent runs after a refresh, an overflow or a switch; the code has no bound.

`MissionPromise` is what the two callers rely on, and what `SessionRuns` (`MissionEnds`,
`MissionRaises`, `EndsCancelled`) and `MaintenanceJobs` (`JobEnds`, `JobCancelled`) assume of the
call: it ends by itself, raises a `CancelledError` only when told to, returns only what it has
recorded, and a record that says failed stays so.

### 3.4 `SessionDirectory`

| Code | Model |
|---|---|
| `<id>.json`, `<id>.summary.json`, `<id>.context.json` | `session[id]`, `summary[id]`, `context[id]` (number of turns) |
| the writes an operation has still to make, in their order | `writes`; `Write` makes the next, `Crash` drops the rest |
| `list_summaries` with its repair of missing summaries | `Listed`, `List` |
| `open`: `find_by_normalized_name`, `find_by_group_id` | `OpenFound`, `OpenNew` with `Named`, `InGroup`, `Newest`, `Joined` |
| `fork`, with and without the source's history | `Fork` |
| `update`, `stop`, `resume`: read and save | `Update` |
| `run_chat` before and after its mission, with its own copies | `ChatBegins`, `ChatEnds`, `run` |
| `_load_context` | `ContextOf`, `LoadedContext` |

`SessionRuns` looks at one session and every await; `SessionDirectory` at many sessions and every
file. What they share, the saves of a chat run, is in both, at the granularity each needs.

The properties name the exceptions that the code makes, as history variables: `lagging` (a crash
left a session with an older summary, which `list_summaries` does not notice, so a name or group
is looked up in it), `behind` (a crash left a session without its context, which is then made of
turns that already have the new message), `misplaced` (a chat run saved a copy from before its
session was put into a group). TLC finds the
properties violated without them (one of the cases needs the larger instance named in section 4).

### 3.5 `SkillMemory`

| Code | Model |
|---|---|
| the table `MemoryEntry` | `rows`: status, and who last wrote title and body |
| a tool call, cut at each embedding | `at`, `tool`, `todo`; `Begin`, `Resume` |
| `existing`, read before the first await | `copy` |
| `_reserve_skill_tool_call` | `Reserve`, `Blocked` |
| `write_entries`, `update_entries`, `deprecate_entries` | `WriteOne`, `UpdateOne`, `Deprecate`, with `StoreRaises` |
| `skill_search`, `skill_read` | `BeginSearch`, `SearchEnds`; `EndsAtOnce` |
| the mutations returned; `memory_mutations` | `mutations`; `audit` |

`intended` follows what the calls have *named*, one after the other; `UpdatesAddUp` compares it
with the rows. They differ only for skills in `raced`: those stored from a copy that another call,
or an earlier entry of the same batch, had overtaken.

### 3.6 `ResearchGraph` and `ResearchTraversal`

| Code | Model |
|---|---|
| node and edge tables | `node`, `edges` (in order of creation), `clock` for `created_at` |
| `ensure_ready` | `ReadyRows`: what the table may be after it, with which every tool begins |
| `advance_new`, `advance_existing`, `_create_node`, `_create_edge` | `AdvanceNew`, `AdvanceExisting`, `Row`, `Connect`, `Fits` |
| everything that is refused or only reads | `ReadOrRefused` |
| `get_frontier` | `Frontier` |
| `get_ancestry`, `get_descendants` (a queue, the ids of the edges seen, a depth) | `Begin`, `Step` with `IsDone`, `IsMet`, `Meet`; `Ancestry`, `Descendants` |
| `_descendant_mode_matches` | `Matches` |

The tools have no await, so missions on one graph interleave call by call, and one module with
any number of callers is all there is. `ResearchTraversal` compares the queue algorithm with a
definition by walks (`Within`): an edge is within the depth if a walk of that length ends with it.
A traversal runs within one call, on edges that nobody changes meanwhile. So it is no action but a
function of the graph: `States` gives the locals of the loop after each number of steps, an edge of
the node in front at a time, and the traversal is the state after `Enough` = (edges + 1)² of them.
That the queue is empty by then is a part of what is checked and proved, so the bound is no
restriction of the code.

### 3.7 `ToolCalls` with `BrowserEngine`

| Code | Model |
|---|---|
| the findings and notes of `WorkingMemory`, `compressed_memory`, `compression_in_progress` | `memory`, `compressed`, `inProgress` |
| `maybe_auto_compress`, `clean_context`, `compress`, `_apply_compressed_memory` | `Returns`, `Clean`, `BeginCompression`, `Compresses`, `CompressionFails`, `Apply` |
| overflow recovery; the handoff after a refresh; the end of the mission | `Overflows`, `Recovers`; `Handoff`; `End` |
| `read_graph`, `write_graph` with checkpoint, sync and audit | `Read`, `Write` with `Copied`, `Executed`, `Refused` |
| `_reserve_web_tool_call`, `browser_open`, `browser_text` | `Reserve`, `Blocked`, `Open`, `Text` |
| `start()` of the browser, with an await before each of three fields | `DriverStarts`, `Launches`, `PageOpens`, `EngineFails` |
| `close()`, called again if it raises | `BrowserCloses`, `DriverStopped`, `CloseFails` |

`BrowserEngine` has the fields of the browser and their steps; `ToolCalls` says who takes them.
When one call of a response raises, the run of the agent is over; pydantic-ai, which is external,
may leave the other tasks running or cancel them, so both happen (`orphans`, `Cancelled`).

## 4. The runs

Passing runs:

| Run | Instance | What it shows |
|---|---|---|
| `session_overlap` | 1 session, 2 runs, 1 steer, `ActiveTurnLimit` 0 | `RegistryIsCurrent`, `SerialRunIsReachable`, `NoTurnLost`: however two messages, a steer, stops, disconnects and crashes fall, a steer or hard stop reaches the run that is going on, and nothing said or answered in a serially used session is lost |
| `session_steering` | 1 session, 1 run, 3 steers, 2 configurations | `AnswerHeedsSteers`, `PromptShowsNewestTurn`, `EveryRunEnds`: an answer takes in every accepted steer, compaction keeps the newest turn visible, and every run ends |
| `maintenance_queue` | 3 jobs, 3 lives | `NoJobForgotten`, `StopReachesEveryTask`, `OneAttemptPerLife`, `CancelledTraceIsTrue`, `ImplementsQueue` (with liveness) |
| `mission` | 1 call, 2 models, 3 reruns | `AnswerIsFinalModels`, `JobsHaveTraces`, `SecondJobNeedsTrouble`, `ReturnedMissionIsSettled`, `KeepsPromise` (with liveness) |
| `session_directory` | 4 ids, 2 names, 4 dated operations | `FilesAgree`, `NamesAreUnique`, `GroupsShareADatabase`: with a crash between any two files, and chat runs across forks |
| `skill_memory` | 3 parallel calls, 2 skills, budget 2 | `AuditIsOfReturnedCalls`, `UpdatesAddUp`, `DeprecationsStick`, `EveryCallEnds` |
| `research_graph` | 3 nodes, 3 edges, depth 3 | `EdgesFitTargets`, `EveryNodeHasAnOrigin`, `RootIsTheOldestNode`, `FrontierOnlyNarrows`, `TraversalsAreExact`, `EmptyFrontierIsExplained`, in every graph that the tools can make of them |
| `tool_calls` | 3 calls in 5 plans, web budget 2 | `FindingsAreKept`, `MutationsAreAccountedFor`, `NoDriverIsLeft`, `EveryWaitEnds` |

Runs that show a disagreement between the code and what is said of it (each checks one
property, and TLC finds it violated):

| Run | Shortest story |
|---|---|
| `stop_lost` | Chat, SoftStop, MissionEnds: the run saves its own copy and the stop is gone |
| `hard_stop_outrun` | Chat, Steer, HardStop, Restarts: the closed session's mission goes on |
| `steer_in_compaction` | a steer during a compaction ends the run instead of restarting it |
| `switch_fails` | `switch_model` ends the mission as failed with code ModelSwitchRequested |

The other findings in `PROJECT.json` have no run of their own: each is an exception that a
property of a passing run has to name, and the finding says which.

- An orderly stop of the server gives a running job up for good; a crash would have resumed it.
- A report or a close that raises leads to a second maintenance job for one mission
  (`SecondJobNeedsTrouble`).
- Cancelled missions, and those that fail in their setup, leave no trace; an output that fails
  validation is repaired on the same model, never escalated to a stronger one.
- What parallel tools find while a summariser works is lost (`raced` in `FindingsAreKept`), and
  what was found after a compression is not in the next transfer packet (`late`).
- `write_graph` whose sync fails, and any mutation given to `read_graph`, are not in the audit.
- Two parallel `browser_text` calls start two drivers, and `close()` stops one; a start after a
  failed launch overwrites the field of the first driver (`excused`, set by the start that overwrites).
- A chat run takes its session back out of the group that a fork put it in (`misplaced`).
- A session whose context file is missing gets its next message twice (`behind`).
- A skill update stored from an overtaken copy undoes what came in between (`raced` in
  `UpdatesAddUp`).
- The documentation tool of the tooling contract is registered with no agent.

Deadlock is not checked: the operator may stay silent after the last message, all jobs may have
ended in the last life, a mission's call ends, and the number of calls or operations is bounded.

Why the bounds are enough:

- *Sessions.* The methods of `SessionService` touch only the entry and the files of the session
  they name, so sessions share nothing; one is enough for TLC, and the theorems hold for any set.
- *Runs and steers.* Two runs are what it takes to overlap, to register over one another and to
  read files a former run has saved. Three steers can fall before, during and after one restart,
  and two of them can share one cancellation.
- *`ActiveTurnLimit` 0* makes `KeepTurns` 1, its least value, so every prompt with two turns may
  be compacted and the boundary between kept and summarised turns lies next to the newest turn.
- *Jobs and lives.* Two jobs can be in different states when a stop or crash comes, a third can
  be enqueued while stopping; three lives allow a stop followed by a crash, in either order.
- *Models and reruns.* Two models tell a switch from none; three reruns combine a refresh, an
  overflow and a switch in one mission.
- *Session ids, names, operations.* Opening one session, forking it during a chat run and ending
  the run takes four dated operations (`Ready` counts those; lists and lookups are free), as does
  a crash between session and summary followed by an `open` that misses the session. The one case
  beyond the bound is an exception of `NamesAreUnique`: a `misplaced` session whose old name has
  been given out again needs five operations (an instance with one name, three ids and `MaxTime` 5
  shows it).
- *Skills.* Two suspended calls and a third that deprecates or updates in between; batches of two
  entries can fail in the middle and can name one skill twice; the third call meets a budget of 2.
- *Nodes and edges.* Three of each make every chain, fork, join, self-loop, cycle and repeated
  edge id; `MaxDepth` 3 is the longest walk without a repeated edge.
- *Tool calls.* Two calls can start the browser at once while a third is on the web; one or two
  summarise while another finds something; two write around one that reads. `MCPlans` has these
  combinations and not all 125, and `MaxRetries` is the code's 2.

## 5. Fairness

- `SessionRuns`: weak fairness of each `RunStep(r)`. The event loop wakes a coroutine whose await
  has ended and delivers a cancellation. That the awaits end is an assumption about missions
  (discharged under the bound below by `KeepsPromise`) and about summaries, which run under
  `asyncio.wait_for`.
- `MaintenanceJobs`: weak fairness of each `JobStep(j)`, `Start` and `StopEnds`: the loop runs
  tasks, missions end, and a server that is down is started again (without a
  next start no waiting job could be taken, so the queue's liveness needs it; safety does not).
- `Mission`: weak fairness of `RunStep`. Agent runs and summaries are under `wait_for`;
  embedding requests and `browser.close()` have no timeout and are assumed to end. Termination
  holds for finitely many reruns: an agent that calls `clean_context` in every run never ends,
  and nothing in the code stops it.
- `SkillMemory`: weak fairness of each `Resume(c)`: an embedding request is answered or fails.
  `EveryCallEnds` follows because a call stores an entry at each answer.
- `ToolCalls`: weak fairness of each `Resume(c)` and of `LoopStep`. The summariser is under
  `wait_for`; that Playwright answers, or fails, is assumed. Nothing is assumed about the agent: it need not make any call.
- `ResearchGraph` and `SessionDirectory` state no fairness and no liveness: a tool or an operation
  runs to its end without waiting for anything.
- `EveryRunEnds` is about finitely many steers (`Steers`): operators who steer for ever can keep
  one run going for ever, as they should.
- Never assumed: the operator's calls, cancellations, crashes, and `WaitForSwallows`, which is a
  race between two wake-ups.

## 6. Proofs

Eight modules, named `...Proofs`, hold the theorems, for every value of the constants that the
named assumptions of the modules allow (`SessionRunsAssumption` and so on: the reserved values are
not ids, the sets of parallel calls are finite, the bounds are numbers). Each one follows from an inductive invariant: the initial states satisfy it,
each action preserves it (one lemma or step per action), and it implies the property.

| Module | Theorem | Property | What had to be added to make it inductive |
|---|---|---|---|
| SessionRuns | `TypesHold`, `NewestTurnShown` | `TypeOK`, `PromptShowsNewestTurn` | `ContextsSound`: in every context, in a file or copied, the newest turn is not summarised; a run awaits a summary only when there is something to summarise |
| | `RegistryStaysCurrent`, `SerialRunStaysReachable` | `RegistryIsCurrent`, `SerialRunIsReachable` | the two together |
| | `TurnsAreKept` | `NoTurnLost` | `LocalsHoldKept`: a suspended run's stale copy holds every kept turn too, so saving it loses none; `ServedWereSteered` |
| | `SteersAreHeeded` | `AnswerHeedsSteers` | `PendingSteers`: a steer of a live run that is not yet served still has its restart and cancellation under way, and is in the file the restart will read |
| MaintenanceJobs | `TypesHold`, `NoJobIsForgotten`, `StopsReachEveryTask`, `OneAttemptInEachLife`, `CancelledTracesAreTrue` | the five invariants | `TasksMatchFiles`, `TablesMatchServer`, `AttemptsMatchLives`: how tasks, tables and attempts fit the files and the server's state |
| | `QueueIsImplemented` | safety part of `ImplementsQueue` | the same invariant; each action is a step of the queue or a stutter |
| Mission | `TypesHold`, `AnswersAreFinalModels`, `JobsComeAfterTraces`, `JobsAreFew`, `ReturnedMissionsAreSettled` | the five invariants | `Routed`, `AnswerStands`, `ReportsInOrder`, `JobsCounted`, `EndsInOrder`: what the phase and `level` say of the model sequence, the last answer, the trace, the jobs and the resources |
| | `PromiseIsKept` | safety part of `KeepsPromise` | the same invariant; each action is a step of the promise or a stutter |
| SessionDirectory | `TypeCorrect`, `GroupsKeepTheirDatabase`, `DatabasesStay` | `TypeOK`, `GroupsShareADatabase`; no run checks the third | everything is said of what is *held* of a session: in its file, in a write still to come, in the copy of a chat run. `OneDatabase`, `GroupsAgree`, `ForksAgree`: what is held agrees on database and group; `SourcesFollow`: until a fork is written, its source's move into the group is the next write, or done; `HeldIsMade`: a new group's id is new |
| SessionDirectory (`SessionFilesProofs`) | `FilesAlwaysAgree`, `NamesStayUnique` | `FilesAgree`, `NamesAreUnique` | what is still to be written, as a sequence: a session is followed by its own summary (`Followed`, `Preceded`), and a context comes once, after the last write of the session whose turns it has (`OneContext`). `SummariesFollow`: a summary disagrees with its session only while it is the next write, or in `lagging`; `ContextFollows`: once the rest is written, the context has the session's turns; `NamesDiffer`: of sessions that `open` made, what is stored differs in name or group, because the summaries it looked in are those of the sessions. Each operation is first shown to be one kind of step (`Operates`), and only that step to keep the invariant |
| SkillMemory | `TypeCorrect`, `AuditIsExact`, `RowsAreIntended`, `DeprecationsHold`, `BudgetBoundsCalls` | the three invariants, `DeprecationsStick`; no run checks `BudgetHolds` | `MutationsAreChanges`: what a call will return are the changes it has made; `CopiesAreFresh`: a copy differs from the rows only where it was overtaken; `TodoIsLeft`; `CallsAreCounted` |
| ResearchTraversal (in `ResearchGraphProofs`) | `TraversalsAlwaysExact` (by `TraversalsOfAnyGraph`, of any typed edges) | `TraversalsAreExact` | `LoopInv`, of the loop's states: what was met ends walks (`MetOnWalks`); depths in the queue never fall and differ by one at most (`InOrder`); whatever was come to within the depth is still queued or all its edges are met (`NothingSkipped`). `InTime` counts steps against ids seen and nodes queued, which is why the loop ends in any graph |
| | `EmptyFrontiersExplained` | `EmptyFrontierIsExplained` | the nodes are finitely many; a walk of as many edges as there are nodes visits one twice (pigeonhole), and if nothing on the way is both closed and never left, such a walk exists |
| | `AncestriesReachOrigins` | `AncestryReachesAnOrigin`, stated with its proof | every node that is neither a root nor stranded has an edge from an older one (`EveryNodeHasAnOrigin`), so there is a walk back to a root or a stranded node, of at most `clock` edges; and the traversal is exact |
| ResearchGraph | `TypeCorrect`, `EdgesAlwaysFit`, `NodesHaveOrigins`, `OneSharedRoot`, `FrontierNeverWidens` | the four invariants of `ResearchGraph`, `FrontierOnlyNarrows` | `SoundRows`, about a table and a clock, because `ensure_ready` may add the root before the tool does its work: nodes are numbered in the order of their creation, and there is no node before there is a root |
| ToolCalls | `TypeCorrect`, `FindingsSurvive`, `MutationsAreAudited`, `DriversAreStopped`, `BudgetBoundsWebCalls` | the four invariants; no run checks `WebBudgetHolds` | `MemoryIsSound`: one summariser at most, who was given all findings but the `raced`; `DriversAreKnown`: a driver without an excuse is the one the field names, and nobody is about to overwrite that field; `WebCallsAreCounted` |

The two budgets and `DatabasesStay` are proved and not run: a reserve without an await between
check and count is a one-line argument once the calls are counted, and TLC would only repeat it.

`AncestryReachesAnOrigin` is not run either: it follows from the exactness of the traversals and
the origins of the nodes, which are.

### What the endings rest on

That something ends takes two things: fairness (it goes on while it can), and a measure that every
step of it lowers and nothing else raises. The second is an action property and is proved:

| Theorem | Measure | What it rules out |
|---|---|---|
| `RunsCountDown` of `SessionRunsProofs`, for finitely many steers | the awaits ahead, two for a restart that is asked for, two for each steer not yet sent | a run that is restarted for ever, by its own steers or through the registry entry of another run |
| `MissionsRunDown` of `MissionProofs` | the phases ahead, two for each rerun left and for the continuation | handlers and reports that fail into one another; it also bounds a call by 2 · `MaxReruns` + 15 steps |
| `CallsCountDown` of `SkillMemoryProofs` | the entries of the batch that are left | a batch that another call, or a failed embedding, makes longer |
| `WaitsCountDown` of `ToolCallsProofs` | the awaits of `start()`, extraction and compression ahead of a call; two for each retry of `close()` | a late refresh that takes the mission out of `close()`; for this `OnlyOrphansWait`: at the end only calls of runs that are over still wait |

With the first, `WF` gives `EveryRunEnds`, `EveryCallEnds`, `EveryWaitEnds` and the ending of
`KeepsPromise`; that step needs ENABLED and is TLC's.

### Only model-checked

- `EveryRunEnds`, `EveryCallEnds`, `EveryWaitEnds` and the liveness parts of `ImplementsQueue` and
  `KeepsPromise`, because the prover handles neither fairness nor ENABLED.
- That `inProgress` comes down again, a part of `EveryWaitEnds`, has no measure of its own: it is
  down as soon as its summariser, a call or the loop, has ended.

### Induction

The library's induction theorems take an operator as a parameter, which the provers cannot
instantiate. The two inductions that the traversals need, over the steps of the loop and over the
lengths of walks, are therefore done over *sets* of naturals (`SetInduction`): a set of naturals
has a least element because `<` is well-founded, and a least counterexample is none. `StatesFollow`
shows in the same way that the recursive function `States` has the values its definition states.

## 7. What is not modelled

- Files are written whole: `write_text` is one step, and a torn JSON file after a crash is left
  out (the loaders would raise or skip it). Crashes *between* two files are modelled.
- One process, one event loop: two servers on one data directory are outside the code's design.
- Error texts, summaries of sessions, timestamps, event payloads and prompts: no property
  distinguishes them.
- `SessionDirectory` has at most one chat run per session (two are `SessionRuns`), no compaction
  (it cuts contexts, and `SessionRuns` has it) and no closing or reopening, which is a field that
  no lookup reads.
- `SkillMemory`: tags, ranking, embeddings (a failing one is stored as an empty text, which
  changes the order of search results only) and tables beyond the 500 rows that one listing
  returns.
- `ResearchGraph`: titles, bodies, the ranking of `search_research_nodes`, and graphs beyond the
  5000 nodes and 10000 edges of a listing.
- `ToolCalls`: sizes, budgets in characters and what a summary says (a summary stands for the
  findings that it was made of); `web_search`, which records a tool summary and no finding; the
  browser that `browser_open` starts for each url and closes itself.
- The model catalog: `resolve_allowed`, `choose_initial`, `next_stronger` and `strongest_allowed`
  are list functions without state, which unit tests reach; `Mission` takes any set of models.
- The chat stream's queue: one producer, one consumer, in order. A client that goes away is
  `Disconnect` of `SessionRuns`.
- Traces, snapshots, configuration, the API's types, the CLI, the web UI and the prompts have no
  control of their own.
