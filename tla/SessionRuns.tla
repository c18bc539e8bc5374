----------------------------- MODULE SessionRuns -----------------------------
(***************************************************************************)
(* The chat runs of Doron's sessions: SessionService.run_chat, steer,      *)
(* stop, resume and update (application/session_service.py), the two       *)
(* JSON files a session is kept in (session_store.py and                   *)
(* session_context_store.py) and the disconnecting client of the SSE       *)
(* stream (api/sessions.py).                                               *)
(*                                                                         *)
(* Everything runs on one asyncio event loop, so the code between two      *)
(* awaits is one step here.  A run is suspended in one of three places:    *)
(*   "compacting"  the compaction before the mission                       *)
(*   "mission"     await MissionService.run                                *)
(*   "settling"    the compaction after the mission has answered           *)
(* Task.cancel() only marks the run (cancelling); the CancelledError is    *)
(* the next thing the run sees, at the await it is suspended in.           *)
(*                                                                         *)
(* A run works on copies of the two files (local, localContext), read      *)
(* when it starts and again when a steer restarts it, while the operator's *)
(* calls read and write the files themselves.                              *)
(***************************************************************************)
EXTENDS Naturals, Sequences, FiniteSets

CONSTANTS
  Sessions,         (* the sessions, all opened before the first message   *)
  Runs,             (* the chat requests; each is one run of run_chat      *)
  SessionOf,        (* the session a chat request names                    *)
  Steers,           (* the steer messages operators may send               *)
  Configs,          (* values of the fields PATCH /sessions/{id} sets      *)
  ActiveTurnLimit,  (* settings.sessions.active_context_turn_limit         *)
  SwallowsCancel,   (* TRUE on Python 3.11, whose asyncio.wait_for returns *)
                    (* a finished result instead of a cancellation         *)
  NoRun             (* no entry in _active_runs                            *)

ASSUME SessionRunsAssumption ==
  /\ SessionOf \in [Runs -> Sessions]
  /\ ActiveTurnLimit \in Nat
  /\ SwallowsCancel \in BOOLEAN
  /\ NoRun \notin Runs
  /\ Configs # {}

VARIABLES
  disk,          (* session id -> the session's JSON file                  *)
  context,       (* session id -> the session's context JSON file          *)
  active,        (* _active_runs: session id -> the run registered for it  *)
  restart,       (* sessions whose registered run has restart_requested    *)
  phase,         (* where each run is                                      *)
  local,         (* run -> its copy of the session                         *)
  localContext,  (* run -> its copy of the context                         *)
  cancelling,    (* runs with a CancelledError still to be delivered       *)
  (* History, read by no action: *)
  steered,       (* steer -> the run it was accepted for                   *)
  served,        (* steers a restart of their run has read back            *)
  overlapped,    (* sessions that ever had two runs at once                *)
  deaf           (* runs in which wait_for swallowed a cancellation        *)

files   == <<disk, context>>
table   == <<active, restart>>
history == <<steered, served, overlapped, deaf>>
vars    == <<files, table, phase, local, localContext, cancelling, history>>

-----------------------------------------------------------------------------
(* Data *)

UserTurn(r)   == [role |-> "user", of |-> r]
AnswerTurn(r) == [role |-> "assistant", of |-> r]
SteerTurn(t)  == [role |-> "steer", of |-> t]

Turn == [role : {"user", "assistant"}, of : Runs] \cup [role : {"steer"}, of : Steers]

\* The session record.  stop is stop_mode; last_error, summary and timestamps are left out.
Session == [turns : Seq(Turn), closed : BOOLEAN, stop : {"none", "soft", "hard"},
            config : Configs]

\* The agent's context.  The first `compacted` turns are summarised in compressed_memory
\* (historical_turn_count of them); the others are active_turns.
Context == [turns : Seq(Turn), compacted : Nat]

NewSession == [turns |-> <<>>, closed |-> FALSE, stop |-> "none",
               config |-> CHOOSE c \in Configs : TRUE]
NewContext == [turns |-> <<>>, compacted |-> 0]

Suspended == {"compacting", "mission", "settling"}
Ended     == {"answered", "cancelled", "raised", "lost"}
Phase     == {"idle"} \cup Suspended \cup Ended

Alive(r)     == phase[r] \in Suspended
RunsOf(s)    == {r \in Runs : SessionOf[r] = s}
AliveIn(s)   == {r \in RunsOf(s) : Alive(r)}
TurnsIn(rec) == {rec.turns[i] : i \in DOMAIN rec.turns}
Say(rec, turn) == [rec EXCEPT !.turns = Append(@, turn)]

-----------------------------------------------------------------------------
(* Compaction: _compact_context_if_needed *)

\* The keep_turns a build without the lower bound would use.
KeepAnyNumber == ActiveTurnLimit

KeepTurns == IF ActiveTurnLimit > 1 THEN ActiveTurnLimit ELSE 1

\* Too few turns to compact: the loop condition that does not depend on the prompt's size.
MayCompact(c) == Len(c.turns) - c.compacted > KeepTurns

\* The summary counts the turns it keeps as well.
CompactedTwice(c) == [c EXCEPT !.compacted = Len(c.turns) + KeepTurns]

\* All but the last KeepTurns active turns move into the summary.
Compacted(c) == [c EXCEPT !.compacted = Len(c.turns) - KeepTurns]

\* What a compaction that awaits the summariser leaves: a failed summary changes nothing.
AfterCompaction(c) == {c, Compacted(c)}

-----------------------------------------------------------------------------
(* Pieces of run_chat *)

\* The finally clause forgets the registry.
KeepRegistered(r) == UNCHANGED table

\* The finally clause: a run takes only its own entry out of _active_runs.
Unregister(r) ==
  LET s == SessionOf[r] IN
  IF active[s] = r
  THEN /\ active' = [active EXCEPT ![s] = NoRun]
       /\ restart' = restart \ {s}
  ELSE UNCHANGED table

\* The coroutine is left: its locals are gone.
Leave(r, outcome) ==
  /\ phase' = [phase EXCEPT ![r] = outcome]
  /\ local' = [local EXCEPT ![r] = NewSession]
  /\ localContext' = [localContext EXCEPT ![r] = NewContext]
  /\ Unregister(r)

\* The steer forgets to cancel the task.
CancelNothing(r) == cancelling

\* task.cancel(): asking again before delivery changes nothing.
Cancel(r) == cancelling \cup {r}

\* One turn of the loop, up to the next await: the prompt is built from `ses` and `ctx`; if it
\* is over the model's budget (any prompt may be) the run awaits the summariser, and otherwise
\* it saves the context and starts the mission.
EnterLoop(r, ses, ctx) ==
  /\ local' = [local EXCEPT ![r] = ses]
  /\ localContext' = [localContext EXCEPT ![r] = ctx]
  /\ context' = [context EXCEPT ![SessionOf[r]] = ctx]
  /\ \/ phase' = [phase EXCEPT ![r] = "mission"]
     \/ /\ MayCompact(ctx)
        /\ phase' = [phase EXCEPT ![r] = "compacting"]

-----------------------------------------------------------------------------
(* The run *)

\* run_chat up to its first await.  It registers itself over whatever run is there.
Chat(r) ==
  LET s == SessionOf[r]
      ses == Say(disk[s], UserTurn(r))
  IN  /\ phase[r] = "idle"
      /\ ~disk[s].closed
      /\ disk' = [disk EXCEPT ![s] = ses]
      /\ EnterLoop(r, ses, Say(context[s], UserTurn(r)))
      /\ active' = [active EXCEPT ![s] = r]
      /\ restart' = restart \ {s}
      /\ overlapped' = IF AliveIn(s) # {} THEN overlapped \cup {s} ELSE overlapped
      /\ UNCHANGED <<cancelling, steered, served, deaf>>

\* The summariser answers or fails; the context is saved and the mission starts.
CompactionEnds(r) ==
  /\ phase[r] = "compacting"
  /\ r \notin cancelling
  /\ phase' = [phase EXCEPT ![r] = "mission"]
  /\ \E ctx \in AfterCompaction(localContext[r]) :
       /\ localContext' = [localContext EXCEPT ![r] = ctx]
       /\ context' = [context EXCEPT ![SessionOf[r]] = ctx]
  /\ UNCHANGED <<disk, table, local, cancelling, history>>

\* The mission returns a result, good or bad: both become an assistant turn.  The run's copy of
\* the session is saved; then the run awaits a second compaction, or ends.
MissionEnds(r) ==
  LET s == SessionOf[r]
      ses == Say(local[r], AnswerTurn(r))
      ctx == Say(localContext[r], AnswerTurn(r))
  IN  /\ phase[r] = "mission"
      /\ r \notin cancelling
      /\ disk' = [disk EXCEPT ![s] = ses]
      /\ \/ /\ MayCompact(ctx)
            /\ phase' = [phase EXCEPT ![r] = "settling"]
            /\ local' = [local EXCEPT ![r] = ses]
            /\ localContext' = [localContext EXCEPT ![r] = ctx]
            /\ UNCHANGED <<context, table>>
         \/ /\ context' = [context EXCEPT ![s] = ctx]
            /\ Leave(r, "answered")
      /\ UNCHANGED <<cancelling, history>>

\* The second compaction ends.  A context that was ever compacted carries a notice, and with a
\* notice the session is saved once more, from the same copy.
SettlingEnds(r) ==
  LET s == SessionOf[r] IN
  /\ phase[r] = "settling"
  /\ r \notin cancelling
  /\ \E ctx \in AfterCompaction(localContext[r]) :
       /\ context' = [context EXCEPT ![s] = ctx]
       /\ disk' = IF ctx.compacted > 0 THEN [disk EXCEPT ![s] = local[r]] ELSE disk
  /\ Leave(r, "answered")
  /\ UNCHANGED <<cancelling, history>>

\* MissionService.run raises: it does so for errors outside its own try block.  Nothing is saved
\* and no terminal event is emitted.
MissionRaises(r) ==
  /\ phase[r] = "mission"
  /\ r \notin cancelling
  /\ Leave(r, "raised")
  /\ UNCHANGED <<files, cancelling, history>>

\* The restarted run goes on with the copy it has.
ReloadNothing(r) == local[r]

\* The session a restarted run goes on with: the file, with the steer in it.
Reload(r) == disk[SessionOf[r]]

\* The restart keeps its request: restart_requested is never reset.
AcknowledgeNothing(r) == UNCHANGED <<restart, cancelling>>

\* restart_requested is reset and the task uncancelled.
Acknowledge(r) ==
  /\ restart' = restart \ {SessionOf[r]}
  /\ cancelling' = cancelling \ {r}

\* The CancelledError surfaces from the mission and the session's registry entry, whichever run
\* it belongs to, asks for a restart: read both files again and go round the loop.
Restarts(r) ==
  LET s == SessionOf[r] IN
  /\ phase[r] = "mission"
  /\ r \in cancelling
  /\ s \in restart
  /\ Acknowledge(r)
  /\ EnterLoop(r, Reload(r), context[s])
  /\ served' = served \cup {t \in Steers : steered[t] = r /\ SteerTurn(t) \in TurnsIn(disk[s])}
  /\ UNCHANGED <<disk, active, steered, overlapped, deaf>>

\* Any other CancelledError ends the run: its copy of the session is saved, the context is not.
EndsCancelled(r) ==
  LET s == SessionOf[r] IN
  /\ Alive(r)
  /\ r \in cancelling
  /\ phase[r] = "mission" => s \notin restart
  /\ disk' = [disk EXCEPT ![s] = local[r]]
  /\ cancelling' = cancelling \ {r}
  /\ Leave(r, "cancelled")
  /\ UNCHANGED <<context, history>>

\* Python 3.11: the agent (the mission's or the summariser's) had already answered when the
\* cancellation came, and wait_for hands the answer to the run, which carries on.  The restart
\* request stays set.
WaitForSwallows(r) ==
  /\ SwallowsCancel
  /\ Alive(r)
  /\ r \in cancelling
  /\ cancelling' = cancelling \ {r}
  /\ deaf' = deaf \cup {r}
  /\ UNCHANGED <<files, table, phase, local, localContext, steered, served, overlapped>>

-----------------------------------------------------------------------------
(* The operator *)

\* steer: refused on a closed session and without a run.  Both files get the steer's turn.
Steer(s, t) ==
  /\ steered[t] = NoRun
  /\ ~disk[s].closed
  /\ active[s] # NoRun
  /\ Alive(active[s])
  /\ disk' = [disk EXCEPT ![s] = Say(@, SteerTurn(t))]
  /\ context' = [context EXCEPT ![s] = Say(@, SteerTurn(t))]
  /\ restart' = restart \cup {s}
  /\ cancelling' = Cancel(active[s])
  /\ steered' = [steered EXCEPT ![t] = active[s]]
  /\ UNCHANGED <<active, phase, local, localContext, served, overlapped, deaf>>

\* stop with mode soft: only the file is told.
SoftStop(s) ==
  /\ disk' = [disk EXCEPT ![s].stop = "soft"]
  /\ UNCHANGED <<context, table, phase, local, localContext, cancelling, history>>

\* The hard stop takes the cancelled run out of the registry itself.
HardStopForgets(s) ==
  /\ disk' = [disk EXCEPT ![s].stop = "hard", ![s].closed = TRUE]
  /\ active' = [active EXCEPT ![s] = NoRun]
  /\ restart' = restart \ {s}
  /\ cancelling' = IF active[s] # NoRun THEN Cancel(active[s]) ELSE cancelling
  /\ UNCHANGED <<context, phase, local, localContext, history>>

\* stop with mode hard: close the session and cancel the run that is registered.
HardStop(s) ==
  /\ disk' = [disk EXCEPT ![s].stop = "hard", ![s].closed = TRUE]
  /\ cancelling' = IF active[s] # NoRun /\ Alive(active[s])
                   THEN Cancel(active[s]) ELSE cancelling
  /\ UNCHANGED <<context, table, phase, local, localContext, history>>

\* resume
Resume(s) ==
  /\ disk' = [disk EXCEPT ![s].stop = "none", ![s].closed = FALSE]
  /\ UNCHANGED <<context, table, phase, local, localContext, cancelling, history>>

\* update
Update(s, c) ==
  /\ disk' = [disk EXCEPT ![s].config = c]
  /\ UNCHANGED <<context, table, phase, local, localContext, cancelling, history>>

\* The client of a streamed chat goes away: _stream_chat cancels the run's task.
Disconnect(r) ==
  /\ Alive(r)
  /\ cancelling' = Cancel(r)
  /\ UNCHANGED <<files, table, phase, local, localContext, history>>

-----------------------------------------------------------------------------
(* The process *)

\* The process dies and is started again: the files are all that is left.
AllRunsLost(extra) ==
  /\ phase' = [r \in Runs |-> IF Alive(r) \/ r \in extra THEN "lost" ELSE phase[r]]
  /\ active' = [s \in Sessions |-> NoRun]
  /\ restart' = {}
  /\ cancelling' = {}
  /\ local' = [r \in Runs |-> NewSession]
  /\ localContext' = [r \in Runs |-> NewContext]
  /\ UNCHANGED <<overlapped, deaf, served>>

Crash == AllRunsLost({}) /\ UNCHANGED <<files, steered>>

\* ... between the two files run_chat writes when it starts,
CrashInChat(r) ==
  LET s == SessionOf[r] IN
  /\ phase[r] = "idle"
  /\ ~disk[s].closed
  /\ disk' = [disk EXCEPT ![s] = Say(@, UserTurn(r))]
  /\ AllRunsLost({r})
  /\ UNCHANGED <<context, steered>>

\* ... or between the two files steer writes.
CrashInSteer(s, t) ==
  /\ steered[t] = NoRun
  /\ ~disk[s].closed
  /\ active[s] # NoRun
  /\ Alive(active[s])
  /\ disk' = [disk EXCEPT ![s] = Say(@, SteerTurn(t))]
  /\ steered' = [steered EXCEPT ![t] = active[s]]
  /\ AllRunsLost({})
  /\ UNCHANGED context

-----------------------------------------------------------------------------

Init ==
  /\ disk = [s \in Sessions |-> NewSession]
  /\ context = [s \in Sessions |-> NewContext]
  /\ active = [s \in Sessions |-> NoRun]
  /\ restart = {}
  /\ phase = [r \in Runs |-> "idle"]
  /\ local = [r \in Runs |-> NewSession]
  /\ localContext = [r \in Runs |-> NewContext]
  /\ cancelling = {}
  /\ steered = [t \in Steers |-> NoRun]
  /\ served = {}
  /\ overlapped = {}
  /\ deaf = {}

\* What the run does by itself, woken by the event loop.
RunStep(r) ==
  \/ CompactionEnds(r)
  \/ MissionEnds(r)
  \/ SettlingEnds(r)
  \/ MissionRaises(r)
  \/ Restarts(r)
  \/ EndsCancelled(r)

OperatorStep(s) ==
  \/ \E t \in Steers : Steer(s, t)
  \/ SoftStop(s)
  \/ HardStop(s)
  \/ Resume(s)
  \/ \E c \in Configs : Update(s, c)

CrashStep ==
  \/ Crash
  \/ \E r \in Runs : CrashInChat(r)
  \/ \E s \in Sessions, t \in Steers : CrashInSteer(s, t)

Next ==
  \/ \E r \in Runs : Chat(r) \/ Disconnect(r) \/ RunStep(r) \/ WaitForSwallows(r)
  \/ \E s \in Sessions : OperatorStep(s)
  \/ CrashStep

\* The event loop wakes every run whose await has ended, missions and summaries end (both are
\* under timeouts), and a task that was cancelled gets its CancelledError.  Nothing is assumed
\* of WaitForSwallows, a race between two wake-ups.
Fairness == \A r \in Runs : WF_vars(RunStep(r))

Spec == Init /\ [][Next]_vars /\ Fairness

-----------------------------------------------------------------------------
(* Properties *)

TypeOK ==
  /\ disk \in [Sessions -> Session]
  /\ context \in [Sessions -> Context]
  /\ \A s \in Sessions : context[s].compacted <= Len(context[s].turns)
  /\ active \in [Sessions -> Runs \cup {NoRun}]
  /\ restart \subseteq Sessions
  /\ phase \in [Runs -> Phase]
  /\ local \in [Runs -> Session]
  /\ localContext \in [Runs -> Context]
  /\ cancelling \subseteq Runs
  /\ steered \in [Steers -> Runs \cup {NoRun}]
  /\ served \subseteq Steers
  /\ overlapped \subseteq Sessions
  /\ deaf \subseteq Runs

\* _active_runs names only runs that are suspended in its session, so a steer or a hard stop
\* never addresses a finished run; a restart is requested only of a registered run whose
\* cancellation is under way (or was swallowed); only suspended runs are cancelled.
RegistryIsCurrent ==
  /\ \A s \in Sessions : active[s] # NoRun =>
        Alive(active[s]) /\ SessionOf[active[s]] = s
  /\ \A s \in restart : active[s] # NoRun /\ active[s] \in cancelling \cup deaf
  /\ \A r \in cancelling : Alive(r)

\* As long as a session is used by one chat at a time, the run that is going on is the one
\* _active_runs names: steers and hard stops reach it.
SerialRunIsReachable ==
  \A s \in Sessions \ overlapped : \A r \in AliveIn(s) : active[s] = r

\* The turns a session that is used by one chat at a time must still hold: what its users said,
\* what they were answered, and every steer that a run was restarted for.
Kept(s) ==
  {UserTurn(r) : r \in {x \in RunsOf(s) : phase[x] # "idle"}}
  \cup {AnswerTurn(r) : r \in {x \in RunsOf(s) : phase[x] \in {"settling", "answered"}}}
  \cup {SteerTurn(t) : t \in {x \in served : steered[x] \in RunsOf(s)}}

\* No save of a run's copy, restart, stop, cancellation or crash loses such a turn.
NoTurnLost ==
  \A s \in Sessions \ overlapped : Kept(s) \subseteq TurnsIn(disk[s])

\* In such a session a run that answered was restarted for every steer it had accepted: a steer
\* is never accepted and then ignored by the answer, unless Python 3.11 swallowed its cancel.
AnswerHeedsSteers ==
  \A t \in Steers :
    LET r == steered[t] IN
    r # NoRun /\ r \notin deaf /\ SessionOf[r] \notin overlapped /\ phase[r] = "answered"
      => t \in served

\* The newest turn a mission was started for (the message, or the latest steer) is still among
\* the active turns its prompt shows: compaction never summarises it away.
PromptShowsNewestTurn ==
  \A r \in Runs : phase[r] = "mission" =>
    localContext[r].compacted < Len(localContext[r].turns)

\* Every run ends: no sequence of steers, stops and disconnects keeps one suspended for ever.
EveryRunEnds == \A r \in Runs : Alive(r) ~> ~Alive(r)

-----------------------------------------------------------------------------
(* What docs/mission-lifecycle.md says, and the code does not do *)

\* "Session stop controls are persisted ... until the session is resumed": what a stop wrote
\* into the file is changed only by another stop or a resume.
StopLastsUntilResumed ==
  [][\A s \in Sessions :
       disk[s].stop # "none" /\ <<disk'[s].stop, disk'[s].closed>> # <<disk[s].stop, disk[s].closed>>
         => Resume(s) \/ SoftStop(s) \/ HardStop(s)]_vars

\* "a hard stop closes the session and cancels any in-flight run": every run that is still
\* suspended in a closed session is being cancelled.
HardStopCancelsRun ==
  \A s \in Sessions : disk[s].closed => AliveIn(s) \subseteq cancelling

\* "A steer ... cancels the in-flight mission ... and restarts the same run": a run whose
\* registry entry requests a restart does not end as cancelled instead.
SteerRestartsRun ==
  [][\A r \in Runs :
       active[SessionOf[r]] = r /\ SessionOf[r] \in restart => ~EndsCancelled(r)]_vars
=============================================================================
