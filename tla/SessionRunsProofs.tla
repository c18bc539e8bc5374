-------------------------- MODULE SessionRunsProofs --------------------------
(***************************************************************************)
(* Proofs about SessionRuns, for any number of sessions, messages and      *)
(* steers and any active_context_turn_limit.                               *)
(*                                                                         *)
(* The safety properties are not inductive one by one.  The registry       *)
(* invariants stand on the types; the two properties about turns also need *)
(* to know what a suspended run's copies hold (LocalsHoldKept) and that a  *)
(* steer a restart has not picked up yet is on disk and its run is being   *)
(* cancelled (PendingSteers).  The last part is about how long a run can   *)
(* go on.                                                                  *)
(***************************************************************************)
EXTENDS SessionRuns, FiniteSetTheorems, TLAPS

\* A context's newest turn is never summarised.
KeepsNewest(c) == IF c.turns = <<>> THEN c.compacted = 0 ELSE c.compacted < Len(c.turns)

\* What the types leave open about contexts: the newest turn is active in each of them, a run
\* awaits a summary only if there is something to summarise, and a session with a suspended run
\* has had a message.
ContextsSound ==
  /\ \A s \in Sessions : KeepsNewest(context[s])
  /\ \A r \in Runs : KeepsNewest(localContext[r])
  /\ \A r \in Runs : phase[r] \in {"compacting", "settling"} => MayCompact(localContext[r])
  /\ \A r \in Runs : Alive(r) =>
        localContext[r].turns # <<>> /\ context[SessionOf[r]].turns # <<>>

\* The run of a session used by one chat at a time works on a copy that holds every kept turn.
LocalsHoldKept ==
  \A s \in Sessions \ overlapped : \A r \in AliveIn(s) : Kept(s) \subseteq TurnsIn(local[r])

\* Only accepted steers are served.
ServedWereSteered == \A t \in served : steered[t] # NoRun

\* A steer that no restart has read back yet: its run has begun and not answered, and while it
\* is suspended the steer is in the file and the cancellation is on its way.
PendingSteers ==
  \A t \in Steers \ served :
    LET r == steered[t] IN
    r # NoRun /\ r \notin deaf /\ SessionOf[r] \notin overlapped =>
      /\ phase[r] \notin {"idle", "answered"}
      /\ Alive(r) => r \in cancelling /\ SteerTurn(t) \in TurnsIn(disk[SessionOf[r]])

-----------------------------------------------------------------------------
(* The data *)

\* A fresh session record and a fresh context have their types.
LEMMA NewTypes == NewSession \in Session /\ NewContext \in Context /\ KeepsNewest(NewContext)
  BY SessionRunsAssumption DEF NewSession, NewContext, Session, Context, KeepsNewest

\* The three kinds of turns are turns.
LEMMA TurnTypes ==
  /\ \A r \in Runs : UserTurn(r) \in Turn /\ AnswerTurn(r) \in Turn
  /\ \A t \in Steers : SteerTurn(t) \in Turn
  BY DEF Turn, UserTurn, AnswerTurn, SteerTurn

\* Saying a turn in a session adds that turn and touches nothing else.
LEMMA SaySession ==
  ASSUME NEW x \in Session, NEW turn \in Turn
  PROVE  Say(x, turn) \in Session /\ TurnsIn(Say(x, turn)) = TurnsIn(x) \cup {turn}
  <1>1. Say(x, turn) = [x EXCEPT !.turns = Append(x.turns, turn)]
    BY DEF Say
  <1>2. x.turns \in Seq(Turn)
    BY DEF Session
  <1>3. Say(x, turn) \in Session /\ Say(x, turn).turns = Append(x.turns, turn)
    <2>1. Append(x.turns, turn) \in Seq(Turn)
      BY <1>2
    <2> DEFINE grown == Append(x.turns, turn)
    <2>2. grown \in Seq(Turn) /\ Say(x, turn) = [x EXCEPT !.turns = grown]
      BY <1>1, <2>1
    <2> HIDE DEF grown
    <2>3. Say(x, turn) \in Session /\ Say(x, turn).turns = grown
      BY <2>2 DEF Session
    <2> QED
      BY <2>3 DEF grown
  <1>4. DOMAIN Append(x.turns, turn) = DOMAIN x.turns \cup {Len(x.turns) + 1}
    BY <1>2
  <1>5. /\ \A i \in DOMAIN x.turns : Append(x.turns, turn)[i] = x.turns[i]
        /\ Append(x.turns, turn)[Len(x.turns) + 1] = turn
    BY <1>2
  <1> QED
    BY <1>3, <1>4, <1>5 DEF TurnsIn

\* Saying a turn in a sound context gives one with the new turn active.
LEMMA SayContext ==
  ASSUME NEW c \in Context, NEW turn \in Turn, KeepsNewest(c)
  PROVE  /\ Say(c, turn) \in Context
         /\ KeepsNewest(Say(c, turn))
         /\ Say(c, turn).turns # <<>>
  <1>1. Say(c, turn) = [c EXCEPT !.turns = Append(c.turns, turn)]
    BY DEF Say
  <1>2. c.turns \in Seq(Turn) /\ c.compacted \in Nat
    BY DEF Context
  <1>3. /\ Say(c, turn) \in Context
        /\ Say(c, turn).turns = Append(c.turns, turn)
        /\ Say(c, turn).compacted = c.compacted
    <2>1. Append(c.turns, turn) \in Seq(Turn)
      BY <1>2
    <2> DEFINE grown == Append(c.turns, turn)
    <2>2. grown \in Seq(Turn) /\ Say(c, turn) = [c EXCEPT !.turns = grown]
      BY <1>1, <2>1
    <2> HIDE DEF grown
    <2>3. Say(c, turn) \in Context /\ Say(c, turn).turns = grown /\ Say(c, turn).compacted = c.compacted
      BY <2>2 DEF Context
    <2> QED
      BY <2>3 DEF grown
  <1>4. Len(Append(c.turns, turn)) = Len(c.turns) + 1 /\ Len(c.turns) \in Nat
    BY <1>2
  <1>5. c.compacted < Len(c.turns) + 1
    BY <1>2, <1>4 DEF KeepsNewest
  <1> QED
    BY <1>3, <1>4, <1>5 DEF KeepsNewest

\* At least one turn is kept: the lower bound max(1, limit).
LEMMA KeepTurnsPositive == KeepTurns \in Nat /\ KeepTurns > 0
  BY SessionRunsAssumption DEF KeepTurns

\* A compaction, successful or not, keeps a context sound and its turns in place.
LEMMA CompactionSound ==
  ASSUME NEW c \in Context, MayCompact(c), KeepsNewest(c), NEW d \in AfterCompaction(c)
  PROVE  d \in Context /\ KeepsNewest(d) /\ d.turns = c.turns
  <1>1. c.turns \in Seq(Turn) /\ c.compacted \in Nat /\ Len(c.turns) \in Nat
    BY DEF Context
  <1>2. CASE d = c
    BY <1>2
  <1>3. CASE d = Compacted(c)
    <2>1. Len(c.turns) - KeepTurns \in Nat /\ Len(c.turns) - KeepTurns < Len(c.turns)
      BY <1>1, KeepTurnsPositive DEF MayCompact
    <2>2. /\ d \in Context /\ d.turns = c.turns
          /\ d.compacted = Len(c.turns) - KeepTurns
      BY <1>1, <1>3, <2>1 DEF Compacted, Context
    <2>3. c.turns # <<>>
      BY <2>1, <1>1
    <2> QED
      BY <2>1, <2>2, <2>3 DEF KeepsNewest
  <1> QED
    BY <1>2, <1>3 DEF AfterCompaction

-----------------------------------------------------------------------------
(* Types and contexts *)

\* What entering the loop does to types and contexts, for a first message and for a restart.
LEMMA EnterLoopTypes ==
  ASSUME TypeOK, ContextsSound, NEW r \in Runs, NEW ses \in Session, NEW ctx \in Context,
         KeepsNewest(ctx), ctx.turns # <<>>, EnterLoop(r, ses, ctx)
  PROVE  /\ local' \in [Runs -> Session]
         /\ localContext' \in [Runs -> Context]
         /\ context' \in [Sessions -> Context]
         /\ phase' \in [Runs -> Phase]
         /\ ContextsSound'
  <1>1. SessionOf[r] \in Sessions
    BY SessionRunsAssumption
  <1>2. /\ local' \in [Runs -> Session]
        /\ localContext' \in [Runs -> Context]
        /\ context' \in [Sessions -> Context]
    BY <1>1 DEF EnterLoop, TypeOK
  <1>3. phase' \in [Runs -> Phase]
    BY DEF EnterLoop, TypeOK, Phase, Suspended
  <1>4. /\ \A s \in Sessions : context'[s] = IF s = SessionOf[r] THEN ctx ELSE context[s]
        /\ \A q \in Runs : localContext'[q] = IF q = r THEN ctx ELSE localContext[q]
        /\ \A q \in Runs \ {r} : phase'[q] = phase[q]
        /\ phase'[r] = "mission" \/ (phase'[r] = "compacting" /\ MayCompact(ctx))
    BY <1>1 DEF EnterLoop, TypeOK
  <1>5. (\A s \in Sessions : KeepsNewest(context[s]))' /\ (\A q \in Runs : KeepsNewest(localContext[q]))'
    BY <1>4 DEF ContextsSound
  <1>6. (\A q \in Runs : phase[q] \in {"compacting", "settling"} => MayCompact(localContext[q]))'
    BY <1>4 DEF ContextsSound, MayCompact
  <1>7. (\A q \in Runs : Alive(q) =>
           localContext[q].turns # <<>> /\ context[SessionOf[q]].turns # <<>>)'
    BY <1>4, SessionRunsAssumption DEF ContextsSound, Alive
  <1> QED
    BY <1>2, <1>3, <1>5, <1>6, <1>7 DEF ContextsSound

\* What leaving the coroutine does to the types of the run's state and to the contexts, whatever
\* sound context is stored for its session by the same step.
LEMMA LeaveTypes ==
  ASSUME TypeOK, ContextsSound, NEW r \in Runs, NEW outcome \in Ended, Leave(r, outcome),
         context' = context \/ \E ctx \in Context : /\ KeepsNewest(ctx)
                                                    /\ ctx.turns # <<>>
                                                    /\ context' = [context EXCEPT ![SessionOf[r]] = ctx]
  PROVE  /\ local' \in [Runs -> Session]
         /\ localContext' \in [Runs -> Context]
         /\ context' \in [Sessions -> Context]
         /\ phase' \in [Runs -> Phase]
         /\ active' \in [Sessions -> Runs \cup {NoRun}]
         /\ restart' \subseteq Sessions
         /\ ContextsSound'
  <1>1. SessionOf[r] \in Sessions
    BY SessionRunsAssumption
  <1>2. /\ local' \in [Runs -> Session]
        /\ localContext' \in [Runs -> Context]
        /\ phase' \in [Runs -> Phase]
    BY NewTypes DEF Leave, TypeOK, Phase
  <1>3. active' \in [Sessions -> Runs \cup {NoRun}] /\ restart' \subseteq Sessions
    BY <1>1 DEF Leave, Unregister, table, TypeOK
  <1>4. context' \in [Sessions -> Context]
    BY <1>1 DEF TypeOK
  <1>5. /\ \A s \in Sessions : KeepsNewest(context'[s])
        /\ \A s \in Sessions : context[s].turns # <<>> => context'[s].turns # <<>>
    BY <1>1 DEF TypeOK, ContextsSound
  <1>6. /\ \A q \in Runs : localContext'[q] = IF q = r THEN NewContext ELSE localContext[q]
        /\ \A q \in Runs \ {r} : phase'[q] = phase[q]
        /\ phase'[r] = outcome
    BY DEF Leave, TypeOK
  <1>7. outcome \notin Suspended
    BY DEF Ended, Suspended
  <1>8. (\A q \in Runs : KeepsNewest(localContext[q]))'
    BY <1>6, NewTypes DEF ContextsSound
  <1>9. (\A q \in Runs : phase[q] \in {"compacting", "settling"} => MayCompact(localContext[q]))'
    BY <1>6, <1>7 DEF ContextsSound, MayCompact, Suspended
  <1>10. (\A q \in Runs : Alive(q) =>
           localContext[q].turns # <<>> /\ context[SessionOf[q]].turns # <<>>)'
    BY <1>5, <1>6, <1>7, SessionRunsAssumption DEF ContextsSound, Alive
  <1> QED
    BY <1>2, <1>3, <1>4, <1>5, <1>8, <1>9, <1>10 DEF ContextsSound

\* Stops, resumes and updates leave the turns of every session alone.
LEMMA OperatorWrites ==
  ASSUME TypeOK, NEW s \in Sessions,
         SoftStop(s) \/ HardStop(s) \/ Resume(s) \/ \E c \in Configs : Update(s, c)
  PROVE  /\ disk' \in [Sessions -> Session]
         /\ \A x \in Sessions : TurnsIn(disk'[x]) = TurnsIn(disk[x])
  <1>1. disk \in [Sessions -> Session] /\ disk[s] \in Session
    BY DEF TypeOK
  <1>2. \E x \in Session : disk' = [disk EXCEPT ![s] = x] /\ x.turns = disk[s].turns
    <2>1. CASE SoftStop(s)
      <3>1. disk' = [disk EXCEPT ![s] = [disk[s] EXCEPT !.stop = "soft"]]
        BY <1>1, <2>1 DEF SoftStop
      <3>2. /\ [disk[s] EXCEPT !.stop = "soft"] \in Session
            /\ [disk[s] EXCEPT !.stop = "soft"].turns = disk[s].turns
        BY <1>1 DEF Session
      <3> QED
        BY <3>1, <3>2
    <2>2. CASE HardStop(s)
      <3>1. disk' = [disk EXCEPT ![s] = [disk[s] EXCEPT !.stop = "hard", !.closed = TRUE]]
        BY <1>1, <2>2 DEF HardStop
      <3>2. /\ [disk[s] EXCEPT !.stop = "hard", !.closed = TRUE] \in Session
            /\ [disk[s] EXCEPT !.stop = "hard", !.closed = TRUE].turns = disk[s].turns
        BY <1>1 DEF Session
      <3> QED
        BY <3>1, <3>2
    <2>3. CASE Resume(s)
      <3>1. disk' = [disk EXCEPT ![s] = [disk[s] EXCEPT !.stop = "none", !.closed = FALSE]]
        BY <1>1, <2>3 DEF Resume
      <3>2. /\ [disk[s] EXCEPT !.stop = "none", !.closed = FALSE] \in Session
            /\ [disk[s] EXCEPT !.stop = "none", !.closed = FALSE].turns = disk[s].turns
        BY <1>1 DEF Session
      <3> QED
        BY <3>1, <3>2
    <2>4. ASSUME NEW c \in Configs, Update(s, c)
          PROVE  \E x \in Session : disk' = [disk EXCEPT ![s] = x] /\ x.turns = disk[s].turns
      <3>1. disk' = [disk EXCEPT ![s] = [disk[s] EXCEPT !.config = c]]
        BY <1>1, <2>4 DEF Update
      <3>2. /\ [disk[s] EXCEPT !.config = c] \in Session
            /\ [disk[s] EXCEPT !.config = c].turns = disk[s].turns
        BY <1>1 DEF Session
      <3> QED
        BY <3>1, <3>2
    <2> QED
      BY <2>1, <2>2, <2>3, <2>4
  <1> QED
    BY <1>1, <1>2 DEF TurnsIn

\* Types and sound contexts are kept by every step.
LEMMA TypesStep ==
  ASSUME TypeOK, ContextsSound, [Next]_vars
  PROVE  TypeOK' /\ ContextsSound'
  <1> USE DEF files, table, history
  <1>0. \A s \in Sessions : context'[s].compacted <= Len(context'[s].turns)
        \/ ~(context'[s] \in Context /\ KeepsNewest(context'[s]))
    BY DEF KeepsNewest, Context
  <1>1. ASSUME NEW r \in Runs, Chat(r)
        PROVE  TypeOK' /\ ContextsSound'
    <2> DEFINE s == SessionOf[r]
               ses == Say(disk[s], UserTurn(r))
               ctx == Say(context[s], UserTurn(r))
    <2>1. s \in Sessions /\ disk[s] \in Session /\ context[s] \in Context /\ KeepsNewest(context[s])
      BY SessionRunsAssumption DEF TypeOK, ContextsSound
    <2>2. ses \in Session /\ ctx \in Context /\ KeepsNewest(ctx) /\ ctx.turns # <<>>
      BY <2>1, SaySession, SayContext, TurnTypes
    <2>3. EnterLoop(r, ses, ctx)
      BY <1>1 DEF Chat
    <2>4. disk' \in [Sessions -> Session]
      BY <1>1, <2>1, <2>2 DEF Chat, TypeOK
    <2>5. /\ active' \in [Sessions -> Runs \cup {NoRun}]
          /\ restart' \subseteq Sessions
          /\ overlapped' \subseteq Sessions
          /\ cancelling' = cancelling /\ steered' = steered /\ served' = served /\ deaf' = deaf
      BY <1>1, <2>1 DEF Chat, TypeOK
    <2> HIDE DEF s, ses, ctx
    <2>6. /\ local' \in [Runs -> Session] /\ localContext' \in [Runs -> Context]
          /\ context' \in [Sessions -> Context] /\ phase' \in [Runs -> Phase] /\ ContextsSound'
      BY <2>2, <2>3, EnterLoopTypes
    <2> QED
      BY <1>0, <2>4, <2>5, <2>6 DEF TypeOK, ContextsSound
  <1>2. ASSUME NEW r \in Runs, Restarts(r)
        PROVE  TypeOK' /\ ContextsSound'
    <2> DEFINE s == SessionOf[r]
    <2>1. s \in Sessions /\ disk[s] \in Session /\ context[s] \in Context /\ KeepsNewest(context[s])
      BY SessionRunsAssumption DEF TypeOK, ContextsSound
    <2>2. context[s].turns # <<>>
      BY <1>2 DEF Restarts, ContextsSound, Alive, Suspended
    <2>3. EnterLoop(r, disk[s], context[s])
      BY <1>2 DEF Restarts, Reload
    <2>4. /\ disk' = disk /\ active' = active /\ steered' = steered
          /\ overlapped' = overlapped /\ deaf' = deaf
          /\ restart' \subseteq Sessions /\ cancelling' \subseteq Runs /\ served' \subseteq Steers
      BY <1>2 DEF Restarts, Acknowledge, TypeOK
    <2> HIDE DEF s
    <2>5. /\ local' \in [Runs -> Session] /\ localContext' \in [Runs -> Context]
          /\ context' \in [Sessions -> Context] /\ phase' \in [Runs -> Phase] /\ ContextsSound'
      BY <2>1, <2>2, <2>3, EnterLoopTypes
    <2> QED
      BY <1>0, <2>4, <2>5 DEF TypeOK, ContextsSound
  <1>3. ASSUME NEW r \in Runs, CompactionEnds(r)
        PROVE  TypeOK' /\ ContextsSound'
    <2>1. PICK ctx \in AfterCompaction(localContext[r]) :
            /\ localContext' = [localContext EXCEPT ![r] = ctx]
            /\ context' = [context EXCEPT ![SessionOf[r]] = ctx]
      BY <1>3 DEF CompactionEnds
    <2>2. /\ localContext[r] \in Context /\ MayCompact(localContext[r])
          /\ KeepsNewest(localContext[r]) /\ localContext[r].turns # <<>>
      BY <1>3 DEF CompactionEnds, ContextsSound, TypeOK, Alive, Suspended
    <2>3. ctx \in Context /\ KeepsNewest(ctx) /\ ctx.turns # <<>>
      BY <2>1, <2>2, CompactionSound
    <2>4. EnterLoop(r, local[r], ctx)
      BY <1>3, <2>1 DEF CompactionEnds, EnterLoop, TypeOK
    <2>5. local[r] \in Session
      BY DEF TypeOK
    <2>6. /\ local' \in [Runs -> Session] /\ localContext' \in [Runs -> Context]
          /\ context' \in [Sessions -> Context] /\ phase' \in [Runs -> Phase] /\ ContextsSound'
      BY <2>3, <2>4, <2>5, EnterLoopTypes
    <2> QED
      BY <1>0, <1>3, <2>6 DEF CompactionEnds, TypeOK, ContextsSound
  <1>4. ASSUME NEW r \in Runs, MissionEnds(r)
        PROVE  TypeOK' /\ ContextsSound'
    <2> DEFINE s == SessionOf[r]
               ses == Say(local[r], AnswerTurn(r))
               ctx == Say(localContext[r], AnswerTurn(r))
    <2>1. s \in Sessions /\ ses \in Session /\ ctx \in Context /\ KeepsNewest(ctx) /\ ctx.turns # <<>>
      BY SaySession, SayContext, TurnTypes, SessionRunsAssumption DEF TypeOK, ContextsSound
    <2>2. disk' \in [Sessions -> Session]
      BY <1>4, <2>1 DEF MissionEnds, TypeOK
    <2>3. UNCHANGED <<cancelling, history>>
      BY <1>4 DEF MissionEnds
    <2>4. CASE /\ MayCompact(ctx)
               /\ phase' = [phase EXCEPT ![r] = "settling"]
               /\ local' = [local EXCEPT ![r] = ses]
               /\ localContext' = [localContext EXCEPT ![r] = ctx]
               /\ UNCHANGED <<context, table>>
      <3> HIDE DEF ses, ctx, s
      <3>1. /\ local' \in [Runs -> Session] /\ localContext' \in [Runs -> Context]
            /\ phase' \in [Runs -> Phase]
        BY <2>1, <2>4 DEF TypeOK, Phase, Suspended
      <3>2. \A q \in Runs : KeepsNewest(localContext'[q])
        BY <2>1, <2>4 DEF TypeOK, ContextsSound
      <3>3. (\A q \in Runs : phase[q] \in {"compacting", "settling"} => MayCompact(localContext[q]))'
        BY <2>1, <2>4 DEF TypeOK, ContextsSound, MayCompact
      <3>4. phase[r] = "mission"
        BY <1>4 DEF MissionEnds
      <3>5. (\A q \in Runs : Alive(q) =>
               localContext[q].turns # <<>> /\ context[SessionOf[q]].turns # <<>>)'
        BY <2>1, <2>4, <3>4 DEF TypeOK, ContextsSound, Alive, Suspended
      <3> QED
        BY <2>2, <2>3, <2>4, <3>1, <3>2, <3>3, <3>5 DEF TypeOK, ContextsSound
    <2>5. CASE context' = [context EXCEPT ![s] = ctx] /\ Leave(r, "answered")
      <3>1. "answered" \in Ended
        BY DEF Ended
      <3> HIDE DEF ses, ctx
      <3>2. /\ local' \in [Runs -> Session] /\ localContext' \in [Runs -> Context]
            /\ context' \in [Sessions -> Context] /\ phase' \in [Runs -> Phase]
            /\ active' \in [Sessions -> Runs \cup {NoRun}] /\ restart' \subseteq Sessions
            /\ ContextsSound'
        BY <2>1, <2>5, <3>1, LeaveTypes
      <3> QED
        BY <1>0, <2>2, <2>3, <3>2 DEF TypeOK, ContextsSound
    <2> QED
      BY <1>4, <2>4, <2>5 DEF MissionEnds
  <1>5. ASSUME NEW r \in Runs, SettlingEnds(r)
        PROVE  TypeOK' /\ ContextsSound'
    <2>1. PICK ctx \in AfterCompaction(localContext[r]) :
            /\ context' = [context EXCEPT ![SessionOf[r]] = ctx]
            /\ disk' = IF ctx.compacted > 0 THEN [disk EXCEPT ![SessionOf[r]] = local[r]] ELSE disk
      BY <1>5 DEF SettlingEnds
    <2>2. /\ localContext[r] \in Context /\ MayCompact(localContext[r])
          /\ KeepsNewest(localContext[r]) /\ localContext[r].turns # <<>>
      BY <1>5 DEF SettlingEnds, ContextsSound, TypeOK, Alive, Suspended
    <2>3. ctx \in Context /\ KeepsNewest(ctx) /\ ctx.turns # <<>>
      BY <2>1, <2>2, CompactionSound
    <2>4. disk' \in [Sessions -> Session]
      BY <2>1, SessionRunsAssumption DEF TypeOK
    <2>5. Leave(r, "answered") /\ "answered" \in Ended /\ UNCHANGED <<cancelling, history>>
      BY <1>5 DEF SettlingEnds, Ended
    <2>6. /\ local' \in [Runs -> Session] /\ localContext' \in [Runs -> Context]
          /\ context' \in [Sessions -> Context] /\ phase' \in [Runs -> Phase]
          /\ active' \in [Sessions -> Runs \cup {NoRun}] /\ restart' \subseteq Sessions
          /\ ContextsSound'
      BY <2>1, <2>3, <2>5, LeaveTypes
    <2> QED
      BY <1>0, <2>4, <2>5, <2>6 DEF TypeOK, ContextsSound
  <1>6. ASSUME NEW r \in Runs, MissionRaises(r)
        PROVE  TypeOK' /\ ContextsSound'
    <2>1. Leave(r, "raised") /\ "raised" \in Ended /\ UNCHANGED <<files, cancelling, history>>
      BY <1>6 DEF MissionRaises, Ended
    <2>2. /\ local' \in [Runs -> Session] /\ localContext' \in [Runs -> Context]
          /\ context' \in [Sessions -> Context] /\ phase' \in [Runs -> Phase]
          /\ active' \in [Sessions -> Runs \cup {NoRun}] /\ restart' \subseteq Sessions
          /\ ContextsSound'
      BY <2>1, LeaveTypes
    <2> QED
      BY <2>1, <2>2 DEF TypeOK, ContextsSound
  <1>7. ASSUME NEW r \in Runs, EndsCancelled(r)
        PROVE  TypeOK' /\ ContextsSound'
    <2>1. Leave(r, "cancelled") /\ "cancelled" \in Ended /\ UNCHANGED <<context, history>>
      BY <1>7 DEF EndsCancelled, Ended
    <2>2. /\ local' \in [Runs -> Session] /\ localContext' \in [Runs -> Context]
          /\ context' \in [Sessions -> Context] /\ phase' \in [Runs -> Phase]
          /\ active' \in [Sessions -> Runs \cup {NoRun}] /\ restart' \subseteq Sessions
          /\ ContextsSound'
      BY <2>1, LeaveTypes
    <2>3. disk' \in [Sessions -> Session] /\ cancelling' \subseteq Runs
      BY <1>7, SessionRunsAssumption DEF EndsCancelled, TypeOK
    <2> QED
      BY <2>1, <2>2, <2>3 DEF TypeOK, ContextsSound
  <1>8. ASSUME NEW r \in Runs, WaitForSwallows(r) \/ Disconnect(r)
        PROVE  TypeOK' /\ ContextsSound'
    BY <1>8 DEF WaitForSwallows, Disconnect, Cancel, TypeOK, ContextsSound, Alive
  <1>9. ASSUME NEW s \in Sessions, NEW t \in Steers, Steer(s, t)
        PROVE  TypeOK' /\ ContextsSound'
    <2> DEFINE ses == Say(disk[s], SteerTurn(t))
               ctx == Say(context[s], SteerTurn(t))
    <2>1. ses \in Session /\ ctx \in Context /\ KeepsNewest(ctx) /\ ctx.turns # <<>>
      BY SaySession, SayContext, TurnTypes DEF TypeOK, ContextsSound
    <2>2. disk' = [disk EXCEPT ![s] = ses] /\ context' = [context EXCEPT ![s] = ctx]
      BY <1>9 DEF Steer, TypeOK
    <2>3. active[s] \in Runs
      BY <1>9 DEF Steer, TypeOK
    <2>4. /\ restart' \subseteq Sessions /\ cancelling' \subseteq Runs
          /\ steered' \in [Steers -> Runs \cup {NoRun}]
          /\ UNCHANGED <<active, phase, local, localContext, served, overlapped, deaf>>
      BY <1>9, <2>3 DEF Steer, Cancel, TypeOK
    <2> HIDE DEF ses, ctx
    <2>5. disk' \in [Sessions -> Session] /\ context' \in [Sessions -> Context]
      BY <2>1, <2>2 DEF TypeOK
    <2>6. ContextsSound'
      BY <2>1, <2>2, <2>4 DEF TypeOK, ContextsSound, Alive, MayCompact
    <2> QED
      BY <1>0, <2>4, <2>5, <2>6 DEF TypeOK, ContextsSound
  <1>10. ASSUME NEW s \in Sessions, SoftStop(s) \/ HardStop(s) \/ Resume(s)
                                      \/ \E c \in Configs : Update(s, c)
         PROVE  TypeOK' /\ ContextsSound'
    <2>2. disk' \in [Sessions -> Session]
      BY <1>10, OperatorWrites
    <2>3. cancelling' \subseteq Runs
      BY <1>10 DEF SoftStop, HardStop, Resume, Update, Cancel, TypeOK
    <2>4. UNCHANGED <<context, table, phase, local, localContext, history>>
      BY <1>10 DEF SoftStop, HardStop, Resume, Update
    <2> QED
      BY <2>2, <2>3, <2>4 DEF TypeOK, ContextsSound, Alive
  <1>11. ASSUME NEW extra \in SUBSET Runs, AllRunsLost(extra), UNCHANGED context,
                disk' \in [Sessions -> Session], steered' \in [Steers -> Runs \cup {NoRun}]
         PROVE  TypeOK' /\ ContextsSound'
    <2>1. /\ phase' \in [Runs -> Phase]
          /\ \A r \in Runs : phase'[r] \notin Suspended
      BY <1>11 DEF AllRunsLost, TypeOK, Alive, Phase, Suspended, Ended
    <2>2. /\ active' \in [Sessions -> Runs \cup {NoRun}]
          /\ restart' \subseteq Sessions
          /\ cancelling' \subseteq Runs
          /\ local' \in [Runs -> Session]
          /\ localContext' \in [Runs -> Context]
          /\ \A r \in Runs : KeepsNewest(localContext'[r])
      BY <1>11, NewTypes DEF AllRunsLost
    <2>3. UNCHANGED <<overlapped, deaf, served>>
      BY <1>11 DEF AllRunsLost
    <2> QED
      BY <1>11, <2>1, <2>2, <2>3 DEF TypeOK, ContextsSound, Alive, Suspended
  <1>12. CASE CrashStep
    <2>1. CASE Crash
      BY <2>1, <1>11 DEF Crash, TypeOK
    <2>2. ASSUME NEW r \in Runs, CrashInChat(r)
          PROVE  TypeOK' /\ ContextsSound'
      <3>1. SessionOf[r] \in Sessions /\ Say(disk[SessionOf[r]], UserTurn(r)) \in Session
        BY SaySession, TurnTypes, SessionRunsAssumption DEF TypeOK
      <3>2. disk' = [disk EXCEPT ![SessionOf[r]] = Say(disk[SessionOf[r]], UserTurn(r))]
        BY <2>2, <3>1 DEF CrashInChat, TypeOK
      <3>3. disk' \in [Sessions -> Session]
        BY <3>1, <3>2 DEF TypeOK
      <3> QED
        BY <2>2, <3>3, <1>11 DEF CrashInChat, TypeOK
    <2>3. ASSUME NEW s \in Sessions, NEW t \in Steers, CrashInSteer(s, t)
          PROVE  TypeOK' /\ ContextsSound'
      <3>1. Say(disk[s], SteerTurn(t)) \in Session
        BY SaySession, TurnTypes DEF TypeOK
      <3>2. disk' = [disk EXCEPT ![s] = Say(disk[s], SteerTurn(t))]
        BY <2>3 DEF CrashInSteer, TypeOK
      <3>3. disk' \in [Sessions -> Session] /\ steered' \in [Steers -> Runs \cup {NoRun}]
        BY <2>3, <3>1, <3>2 DEF CrashInSteer, TypeOK
      <3> QED
        BY <2>3, <3>3, <1>11 DEF CrashInSteer
    <2> QED
      BY <1>12, <2>1, <2>2, <2>3 DEF CrashStep
  <1>13. CASE UNCHANGED vars
    BY <1>13 DEF vars, TypeOK, ContextsSound, Alive
  <1> QED
    BY <1>1, <1>2, <1>3, <1>4, <1>5, <1>6, <1>7, <1>8, <1>9, <1>10, <1>12, <1>13
    DEF Next, RunStep, OperatorStep


\* Types and sound contexts hold in every state.
LEMMA TypesInvariant == Spec => [](TypeOK /\ ContextsSound)
  <1>1. Init => TypeOK /\ ContextsSound
    BY NewTypes, SessionRunsAssumption
    DEF Init, TypeOK, ContextsSound, Phase, Suspended, Alive, KeepsNewest, NewContext
  <1>2. TypeOK /\ ContextsSound /\ [Next]_vars => (TypeOK /\ ContextsSound)'
    BY TypesStep
  <1> QED
    BY <1>1, <1>2, PTL DEF Spec

\* Every variable keeps its type, and no context counts more summarised turns than it has.
THEOREM TypesHold == Spec => []TypeOK
  BY TypesInvariant, PTL

\* The newest turn of a mission's context is still active, for every active_context_turn_limit:
\* compaction keeps at least one turn, and every restart appends before it compacts.
THEOREM NewestTurnShown == Spec => []PromptShowsNewestTurn
  <1>1. TypeOK /\ ContextsSound => PromptShowsNewestTurn
    BY DEF ContextsSound, PromptShowsNewestTurn, KeepsNewest, Alive, Suspended
  <1> QED
    BY <1>1, TypesInvariant, PTL

-----------------------------------------------------------------------------
(* The registry *)

\* A run that leaves takes exactly its own entry with it.
LEMMA LeaveRegistry ==
  ASSUME TypeOK, RegistryIsCurrent, SerialRunIsReachable, NEW r \in Runs, NEW outcome \in Ended,
         Leave(r, outcome), cancelling' = cancelling \ {r}, UNCHANGED <<overlapped, deaf>>
  PROVE  RegistryIsCurrent' /\ SerialRunIsReachable'
  <1>1. /\ \A q \in Runs \ {r} : phase'[q] = phase[q]
        /\ phase'[r] = outcome /\ outcome \notin Suspended
    BY DEF Leave, TypeOK, Ended, Suspended
  <1>2. \A s \in Sessions : IF active[s] = r
                            THEN active'[s] = NoRun /\ s \notin restart'
                            ELSE active'[s] = active[s] /\ (s \in restart' => s \in restart)
    BY DEF Leave, Unregister, table, TypeOK, RegistryIsCurrent
  <1>3. RegistryIsCurrent'
    <2>1. ASSUME NEW s \in Sessions, active'[s] # NoRun
          PROVE  (Alive(active[s]) /\ SessionOf[active[s]] = s)'
      BY <1>1, <1>2, <2>1 DEF RegistryIsCurrent, Alive, TypeOK
    <2>2. ASSUME NEW s \in restart'
          PROVE  active'[s] # NoRun /\ active'[s] \in cancelling' \cup deaf'
      <3>1. s \in Sessions
        BY DEF Leave, Unregister, table, TypeOK
      <3> QED
        BY <1>2, <3>1 DEF RegistryIsCurrent
    <2>3. ASSUME NEW q \in cancelling'
          PROVE  Alive(q)'
      BY <1>1 DEF RegistryIsCurrent, Alive, TypeOK
    <2> QED
      BY <2>1, <2>2, <2>3 DEF RegistryIsCurrent
  <1>4. SerialRunIsReachable'
    BY <1>1, <1>2 DEF SerialRunIsReachable, AliveIn, RunsOf, Alive
  <1> QED
    BY <1>3, <1>4

\* The registry invariants are kept by every step.
LEMMA RegistryStep ==
  ASSUME TypeOK, RegistryIsCurrent, SerialRunIsReachable, [Next]_vars
  PROVE  RegistryIsCurrent' /\ SerialRunIsReachable'
  <1> USE DEF files, table, history
  <1>1. ASSUME NEW r \in Runs, Chat(r)
        PROVE  RegistryIsCurrent' /\ SerialRunIsReachable'
    <2>1. SessionOf[r] \in Sessions /\ r # NoRun /\ ~Alive(r)
      BY <1>1, SessionRunsAssumption DEF Chat, Alive, Suspended
    <2>2. /\ phase'[r] \in Suspended
          /\ \A q \in Runs \ {r} : phase'[q] = phase[q]
      BY <1>1 DEF Chat, EnterLoop, TypeOK, Suspended
    <2>3. /\ \A s \in Sessions : active'[s] = IF s = SessionOf[r] THEN r ELSE active[s]
          /\ restart' = restart \ {SessionOf[r]}
          /\ cancelling' = cancelling /\ deaf' = deaf
      BY <1>1, <2>1 DEF Chat, TypeOK
    <2>4. overlapped' = IF AliveIn(SessionOf[r]) # {} THEN overlapped \cup {SessionOf[r]} ELSE overlapped
      BY <1>1 DEF Chat
    <2>5. RegistryIsCurrent'
      <3>1. ASSUME NEW s \in Sessions, active'[s] # NoRun
            PROVE  (Alive(active[s]) /\ SessionOf[active[s]] = s)'
        BY <2>1, <2>2, <2>3, <3>1 DEF RegistryIsCurrent, Alive, TypeOK
      <3>2. ASSUME NEW s \in restart'
            PROVE  active'[s] # NoRun /\ active'[s] \in cancelling' \cup deaf'
        BY <2>3 DEF RegistryIsCurrent, TypeOK
      <3>3. ASSUME NEW q \in cancelling'
            PROVE  Alive(q)'
        BY <2>2, <2>3 DEF RegistryIsCurrent, Alive, TypeOK
      <3> QED
        BY <3>1, <3>2, <3>3 DEF RegistryIsCurrent
    <2>6. SerialRunIsReachable'
      BY <2>1, <2>2, <2>3, <2>4 DEF SerialRunIsReachable, AliveIn, RunsOf, Alive
    <2> QED
      BY <2>5, <2>6
  <1>2. ASSUME NEW r \in Runs, Restarts(r)
        PROVE  RegistryIsCurrent' /\ SerialRunIsReachable'
    <2>1. /\ phase[r] \in Suspended /\ phase'[r] \in Suspended
          /\ \A q \in Runs \ {r} : phase'[q] = phase[q]
      BY <1>2 DEF Restarts, EnterLoop, TypeOK, Suspended
    <2>2. /\ active' = active /\ overlapped' = overlapped /\ deaf' = deaf
          /\ restart' = restart \ {SessionOf[r]}
          /\ cancelling' = cancelling \ {r}
      BY <1>2 DEF Restarts, Acknowledge
    <2>3. RegistryIsCurrent'
      <3>1. ASSUME NEW s \in Sessions, active'[s] # NoRun
            PROVE  (Alive(active[s]) /\ SessionOf[active[s]] = s)'
        BY <2>1, <2>2, <3>1 DEF RegistryIsCurrent, Alive, TypeOK
      <3>2. ASSUME NEW s \in restart'
            PROVE  active'[s] # NoRun /\ active'[s] \in cancelling' \cup deaf'
        BY <2>2 DEF RegistryIsCurrent, TypeOK
      <3>3. ASSUME NEW q \in cancelling'
            PROVE  Alive(q)'
        BY <2>1, <2>2 DEF RegistryIsCurrent, Alive, TypeOK
      <3> QED
        BY <3>1, <3>2, <3>3 DEF RegistryIsCurrent
    <2>4. SerialRunIsReachable'
      BY <2>1, <2>2 DEF SerialRunIsReachable, AliveIn, RunsOf, Alive
    <2> QED
      BY <2>3, <2>4
  <1>3. ASSUME NEW r \in Runs, CompactionEnds(r)
        PROVE  RegistryIsCurrent' /\ SerialRunIsReachable'
    BY <1>3 DEF CompactionEnds, RegistryIsCurrent, SerialRunIsReachable, AliveIn, RunsOf, Alive,
                Suspended, TypeOK
  <1>4. ASSUME NEW r \in Runs, MissionEnds(r)
        PROVE  RegistryIsCurrent' /\ SerialRunIsReachable'
    <2>1. CASE Leave(r, "answered")
      <3>1. cancelling' = cancelling \ {r} /\ UNCHANGED <<overlapped, deaf>> /\ "answered" \in Ended
        BY <1>4 DEF MissionEnds, Ended
      <3> QED
        BY <2>1, <3>1, LeaveRegistry
    <2>2. CASE phase' = [phase EXCEPT ![r] = "settling"] /\ UNCHANGED table
      BY <1>4, <2>2 DEF MissionEnds, RegistryIsCurrent, SerialRunIsReachable, AliveIn, RunsOf,
                        Alive, Suspended, TypeOK
    <2> QED
      BY <1>4, <2>1, <2>2 DEF MissionEnds
  <1>5. ASSUME NEW r \in Runs, SettlingEnds(r) \/ MissionRaises(r) \/ EndsCancelled(r)
        PROVE  RegistryIsCurrent' /\ SerialRunIsReachable'
    <2>1. \E outcome \in Ended : Leave(r, outcome)
      BY <1>5 DEF SettlingEnds, MissionRaises, EndsCancelled, Ended
    <2>2. cancelling' = cancelling \ {r} /\ UNCHANGED <<overlapped, deaf>>
      BY <1>5 DEF SettlingEnds, MissionRaises, EndsCancelled
    <2> QED
      BY <2>1, <2>2, LeaveRegistry
  <1>6. ASSUME NEW r \in Runs, WaitForSwallows(r) \/ Disconnect(r)
        PROVE  RegistryIsCurrent' /\ SerialRunIsReachable'
    BY <1>6 DEF WaitForSwallows, Disconnect, Cancel, RegistryIsCurrent, SerialRunIsReachable,
                AliveIn, RunsOf, Alive
  <1>7. ASSUME NEW s \in Sessions, NEW t \in Steers, Steer(s, t)
        PROVE  RegistryIsCurrent' /\ SerialRunIsReachable'
    BY <1>7 DEF Steer, Cancel, RegistryIsCurrent, SerialRunIsReachable, AliveIn, RunsOf, Alive
  <1>8. ASSUME NEW s \in Sessions, SoftStop(s) \/ HardStop(s) \/ Resume(s)
                                     \/ \E c \in Configs : Update(s, c)
        PROVE  RegistryIsCurrent' /\ SerialRunIsReachable'
    <2>1. UNCHANGED <<active, restart, phase, overlapped, deaf>>
      BY <1>8 DEF SoftStop, HardStop, Resume, Update
    <2>2. /\ cancelling \subseteq cancelling'
          /\ \A q \in cancelling' : q \in cancelling \/ Alive(q)
      BY <1>8 DEF SoftStop, HardStop, Resume, Update, Cancel
    <2> QED
      BY <2>1, <2>2 DEF RegistryIsCurrent, SerialRunIsReachable, AliveIn, RunsOf, Alive
  <1>9. CASE CrashStep
    <2>1. PICK extra \in SUBSET Runs : AllRunsLost(extra)
      BY <1>9 DEF CrashStep, Crash, CrashInChat, CrashInSteer
    <2>2. \A r \in Runs : phase'[r] \notin Suspended
      BY <2>1 DEF AllRunsLost, Alive, Suspended
    <2> QED
      BY <2>1, <2>2 DEF AllRunsLost, RegistryIsCurrent, SerialRunIsReachable, AliveIn, RunsOf, Alive
  <1>10. CASE UNCHANGED vars
    BY <1>10 DEF vars, RegistryIsCurrent, SerialRunIsReachable, AliveIn, RunsOf, Alive
  <1> QED
    BY <1>1, <1>2, <1>3, <1>4, <1>5, <1>6, <1>7, <1>8, <1>9, <1>10
    DEF Next, RunStep, OperatorStep

\* What the types and the registry promise, together.
LEMMA RegistryInvariant ==
  Spec => [](TypeOK /\ ContextsSound /\ RegistryIsCurrent /\ SerialRunIsReachable)
  <1>1. Init => RegistryIsCurrent /\ SerialRunIsReachable
    BY DEF Init, RegistryIsCurrent, SerialRunIsReachable, AliveIn, RunsOf, Alive, Suspended
  <1>2. TypeOK /\ RegistryIsCurrent /\ SerialRunIsReachable /\ [Next]_vars
          => (RegistryIsCurrent /\ SerialRunIsReachable)'
    BY RegistryStep
  <1> QED
    BY <1>1, <1>2, TypesInvariant, PTL DEF Spec

\* _active_runs names only suspended runs of the right session, and a restart is requested only
\* of a run that is being cancelled.
THEOREM RegistryStaysCurrent == Spec => []RegistryIsCurrent
  BY RegistryInvariant, PTL

\* In a session used by one chat at a time, steers and hard stops reach the run that goes on.
THEOREM SerialRunStaysReachable == Spec => []SerialRunIsReachable
  BY RegistryInvariant, PTL

-----------------------------------------------------------------------------
(* The turns *)

TurnsHold == NoTurnLost /\ LocalsHoldKept /\ ServedWereSteered

\* What has to be kept grows only when a run begins, answers or picks up a steer.
LEMMA KeptGrowsOnly ==
  ASSUME \A q \in Runs : phase[q] = "idle" => phase'[q] = "idle",
         \A q \in Runs : phase'[q] \in {"settling", "answered"} => phase[q] \in {"settling", "answered"},
         served' = served, \A t \in served : steered'[t] = steered[t]
  PROVE  \A s \in Sessions : Kept(s)' \subseteq Kept(s)
  BY DEF Kept, RunsOf

\* A step that adds nothing to be kept, and lets a file lose turns only to a copy of a run that
\* is suspended in its session, keeps the invariant.
LEMMA TurnsQuiet ==
  ASSUME TypeOK, TurnsHold, overlapped' = overlapped,
         \A s \in Sessions : Kept(s)' \subseteq Kept(s),
         \A s \in Sessions : \/ TurnsIn(disk[s]) \subseteq TurnsIn(disk'[s])
                             \/ \E r \in AliveIn(s) : TurnsIn(disk'[s]) = TurnsIn(local[r]),
         \A r \in Runs : phase'[r] \in Suspended =>
            phase[r] \in Suspended /\ TurnsIn(local'[r]) = TurnsIn(local[r]),
         served' = served, \A t \in served : steered'[t] = steered[t]
  PROVE  TurnsHold'
  <1>1. NoTurnLost'
    BY DEF TurnsHold, NoTurnLost, LocalsHoldKept
  <1>2. LocalsHoldKept'
    BY DEF TurnsHold, LocalsHoldKept, AliveIn, RunsOf, Alive
  <1>3. ServedWereSteered'
    BY DEF TurnsHold, ServedWereSteered
  <1> QED
    BY <1>1, <1>2, <1>3 DEF TurnsHold

\* In a session used by one chat at a time there is at most one suspended run.
LEMMA SerialRunIsAlone ==
  ASSUME SerialRunIsReachable, NEW s \in Sessions \ overlapped, NEW r \in AliveIn(s)
  PROVE  AliveIn(s) = {r}
  BY DEF SerialRunIsReachable

\* A message: the file and the run's copy both get its turn.
LEMMA ChatKeepsTurns ==
  ASSUME TypeOK, TurnsHold, NEW r \in Runs, Chat(r)
  PROVE  TurnsHold'
  <1> DEFINE s == SessionOf[r]
             ses == Say(disk[s], UserTurn(r))
  <1>1. s \in Sessions /\ disk[s] \in Session
    BY SessionRunsAssumption DEF TypeOK
  <1>2. TurnsIn(ses) = TurnsIn(disk[s]) \cup {UserTurn(r)}
    BY <1>1, SaySession, TurnTypes
  <1>3. /\ disk' = [disk EXCEPT ![s] = ses]
        /\ local' = [local EXCEPT ![r] = ses]
        /\ phase[r] = "idle" /\ phase'[r] \in {"mission", "compacting"}
        /\ \A q \in Runs \ {r} : phase'[q] = phase[q]
        /\ overlapped' = IF AliveIn(s) # {} THEN overlapped \cup {s} ELSE overlapped
        /\ served' = served /\ steered' = steered
    BY DEF Chat, EnterLoop, TypeOK
  <1> HIDE DEF ses
  <1>4. /\ \A x \in Sessions \ {s} : Kept(x)' \subseteq Kept(x)
        /\ Kept(s)' \subseteq Kept(s) \cup {UserTurn(r)}
    BY <1>3 DEF Kept, RunsOf
  <1>5. /\ disk'[s] = ses /\ local'[r] = ses
        /\ \A x \in Sessions \ {s} : disk'[x] = disk[x]
        /\ \A q \in Runs \ {r} : local'[q] = local[q]
    BY <1>1, <1>3 DEF TypeOK
  <1>6. NoTurnLost'
    BY <1>1, <1>2, <1>3, <1>4, <1>5 DEF TurnsHold, NoTurnLost
  <1>7. ASSUME NEW x \in Sessions \ overlapped', NEW q \in Runs, q \in AliveIn(x)'
        PROVE  Kept(x)' \subseteq TurnsIn(local'[q])
    <2>1. CASE x = s
      <3>1. AliveIn(s) = {} /\ s \notin overlapped
        BY <1>3, <1>7, <2>1
      <3>2. q = r
        BY <1>3, <1>7, <2>1, <3>1 DEF AliveIn, RunsOf, Alive
      <3> QED
        BY <1>2, <1>4, <1>5, <2>1, <3>1, <3>2, <1>1 DEF TurnsHold, NoTurnLost
    <2>2. CASE x # s
      <3>1. q # r /\ q \in AliveIn(x) /\ x \in Sessions \ overlapped
        BY <1>3, <1>7, <2>2 DEF AliveIn, RunsOf, Alive
      <3> QED
        BY <1>4, <1>5, <1>7, <2>2, <3>1 DEF TurnsHold, LocalsHoldKept
    <2> QED
      BY <2>1, <2>2
  <1>8. LocalsHoldKept'
    BY <1>7 DEF LocalsHoldKept, AliveIn, RunsOf
  <1>9. ServedWereSteered'
    BY <1>3 DEF TurnsHold, ServedWereSteered
  <1> QED
    BY <1>6, <1>8, <1>9 DEF TurnsHold

\* A restart picks up only steers it finds in the file, and goes on with the file.
LEMMA RestartKeepsTurns ==
  ASSUME TypeOK, SerialRunIsReachable, TurnsHold, NEW r \in Runs, Restarts(r)
  PROVE  TurnsHold'
  <1> DEFINE s == SessionOf[r]
             found == {t \in Steers : steered[t] = r /\ SteerTurn(t) \in TurnsIn(disk[s])}
  <1>1. s \in Sessions /\ r # NoRun
    BY SessionRunsAssumption
  <1>2. /\ disk' = disk /\ overlapped' = overlapped /\ steered' = steered
        /\ local' = [local EXCEPT ![r] = disk[s]]
        /\ phase[r] = "mission" /\ phase'[r] \in {"mission", "compacting"}
        /\ \A q \in Runs \ {r} : phase'[q] = phase[q]
        /\ served' = served \cup found
    BY DEF Restarts, Reload, EnterLoop, TypeOK
  <1>3. /\ \A x \in Sessions \ {s} : Kept(x)' \subseteq Kept(x)
        /\ Kept(s)' \subseteq Kept(s) \cup {SteerTurn(t) : t \in found}
    BY <1>2 DEF Kept, RunsOf
  <1>4. {SteerTurn(t) : t \in found} \subseteq TurnsIn(disk[s])
    OBVIOUS
  <1>5. NoTurnLost'
    BY <1>1, <1>2, <1>3, <1>4 DEF TurnsHold, NoTurnLost
  <1>6. ASSUME NEW x \in Sessions \ overlapped', NEW q \in Runs, q \in AliveIn(x)'
        PROVE  Kept(x)' \subseteq TurnsIn(local'[q])
    <2>1. q \in AliveIn(x) /\ x \in Sessions \ overlapped
      BY <1>2, <1>6 DEF AliveIn, RunsOf, Alive, Suspended
    <2>2. CASE x = s
      <3>1. r \in AliveIn(s)
        BY <1>2 DEF AliveIn, RunsOf, Alive, Suspended
      <3>2. q = r
        BY <2>1, <2>2, <3>1, SerialRunIsAlone
      <3>3. local'[q] = disk'[x]
        BY <1>2, <2>2, <3>2 DEF TypeOK
      <3> QED
        BY <1>5, <1>6, <3>3 DEF NoTurnLost
    <2>3. CASE x # s
      <3>1. q # r
        BY <2>1, <2>3 DEF AliveIn, RunsOf
      <3>2. local'[q] = local[q]
        BY <1>2, <3>1
      <3> QED
        BY <1>3, <2>1, <2>3, <3>2 DEF TurnsHold, LocalsHoldKept
    <2> QED
      BY <2>2, <2>3
  <1>7. LocalsHoldKept'
    BY <1>6 DEF LocalsHoldKept, AliveIn, RunsOf
  <1>8. ServedWereSteered'
    BY <1>1, <1>2 DEF TurnsHold, ServedWereSteered
  <1> QED
    BY <1>5, <1>7, <1>8 DEF TurnsHold

\* An answer is appended to the run's copy, and the copy saved.
LEMMA AnswerKeepsTurns ==
  ASSUME TypeOK, SerialRunIsReachable, TurnsHold, NEW r \in Runs, MissionEnds(r)
  PROVE  TurnsHold'
  <1> DEFINE s == SessionOf[r]
             ses == Say(local[r], AnswerTurn(r))
  <1>1. s \in Sessions /\ local[r] \in Session
    BY SessionRunsAssumption DEF TypeOK
  <1>2. TurnsIn(ses) = TurnsIn(local[r]) \cup {AnswerTurn(r)}
    BY <1>1, SaySession, TurnTypes
  <1>3. /\ disk' = [disk EXCEPT ![s] = ses]
        /\ phase[r] = "mission"
        /\ phase'[r] = "answered" \/ (phase'[r] = "settling" /\ local'[r] = ses)
        /\ \A q \in Runs \ {r} : phase'[q] = phase[q] /\ local'[q] = local[q]
        /\ overlapped' = overlapped /\ served' = served /\ steered' = steered
    BY DEF MissionEnds, Leave, history, TypeOK
  <1> HIDE DEF ses
  <1>4. /\ \A x \in Sessions \ {s} : Kept(x)' \subseteq Kept(x)
        /\ Kept(s)' \subseteq Kept(s) \cup {AnswerTurn(r)}
    BY <1>3 DEF Kept, RunsOf
  <1>5. disk'[s] = ses /\ \A x \in Sessions \ {s} : disk'[x] = disk[x]
    BY <1>1, <1>3 DEF TypeOK
  <1>6. r \in AliveIn(s)
    BY <1>3 DEF AliveIn, RunsOf, Alive, Suspended
  <1>7. s \notin overlapped => Kept(s)' \subseteq TurnsIn(ses)
    BY <1>1, <1>2, <1>4, <1>6 DEF TurnsHold, LocalsHoldKept
  <1>8. NoTurnLost'
    BY <1>3, <1>4, <1>5, <1>7 DEF TurnsHold, NoTurnLost
  <1>9. ASSUME NEW x \in Sessions \ overlapped', NEW q \in Runs, q \in AliveIn(x)'
        PROVE  Kept(x)' \subseteq TurnsIn(local'[q])
    <2>1. q \in AliveIn(x) /\ x \in Sessions \ overlapped
      BY <1>3, <1>9 DEF AliveIn, RunsOf, Alive, Suspended
    <2>2. CASE x = s
      <3>1. q = r
        BY <1>6, <2>1, <2>2, SerialRunIsAlone
      <3>2. local'[q] = ses
        BY <1>3, <1>9, <3>1 DEF AliveIn, Alive, Suspended
      <3> QED
        BY <1>7, <2>1, <2>2, <3>2
    <2>3. CASE x # s
      <3>1. q # r
        BY <2>1, <2>3 DEF AliveIn, RunsOf
      <3> QED
        BY <1>3, <1>4, <2>1, <2>3, <3>1 DEF TurnsHold, LocalsHoldKept
    <2> QED
      BY <2>2, <2>3
  <1>10. LocalsHoldKept'
    BY <1>9 DEF LocalsHoldKept, AliveIn, RunsOf
  <1>11. ServedWereSteered'
    BY <1>3 DEF TurnsHold, ServedWereSteered
  <1> QED
    BY <1>8, <1>10, <1>11 DEF TurnsHold

\* A crash keeps what the files hold.
LEMMA CrashKeepsTurns ==
  ASSUME TypeOK, TurnsHold, CrashStep
  PROVE  TurnsHold'
  <1>1. PICK extra \in SUBSET Runs :
          /\ AllRunsLost(extra)
          /\ \/ extra = {} /\ \A s \in Sessions : TurnsIn(disk[s]) \subseteq TurnsIn(disk'[s])
             \/ \E r \in Runs : /\ extra = {r}
                                /\ disk' = [disk EXCEPT ![SessionOf[r]] =
                                              Say(disk[SessionOf[r]], UserTurn(r))]
          /\ \A t \in Steers : steered[t] # NoRun => steered'[t] = steered[t]
    <2>1. CASE Crash
      BY <2>1 DEF Crash, files
    <2>2. ASSUME NEW r \in Runs, CrashInChat(r)
          PROVE  /\ AllRunsLost({r})
                 /\ disk' = [disk EXCEPT ![SessionOf[r]] = Say(disk[SessionOf[r]], UserTurn(r))]
                 /\ steered' = steered
      BY <2>2, SessionRunsAssumption DEF CrashInChat, TypeOK
    <2>3. ASSUME NEW s \in Sessions, NEW t \in Steers, CrashInSteer(s, t)
          PROVE  /\ AllRunsLost({})
                 /\ \A x \in Sessions : TurnsIn(disk[x]) \subseteq TurnsIn(disk'[x])
                 /\ \A u \in Steers : steered[u] # NoRun => steered'[u] = steered[u]
      <3>1. TurnsIn(Say(disk[s], SteerTurn(t))) = TurnsIn(disk[s]) \cup {SteerTurn(t)}
        BY SaySession, TurnTypes DEF TypeOK
      <3>2. \A x \in Sessions : disk'[x] = IF x = s THEN Say(disk[s], SteerTurn(t)) ELSE disk[x]
        BY <2>3 DEF CrashInSteer, TypeOK
      <3> QED
        BY <2>3, <3>1, <3>2 DEF CrashInSteer, TypeOK
    <2> QED
      BY <2>1, <2>2, <2>3, CrashStep DEF CrashStep
  <1>2. /\ overlapped' = overlapped /\ served' = served
        /\ \A q \in Runs : phase'[q] \notin Suspended
        /\ \A q \in Runs \ extra : phase[q] = "idle" => phase'[q] = "idle"
        /\ \A q \in Runs : phase'[q] \in {"settling", "answered"} => phase'[q] = phase[q]
    BY <1>1 DEF AllRunsLost, Alive, Suspended
  <1>3. \A t \in served : t \in Steers /\ steered'[t] = steered[t]
    BY <1>1 DEF TurnsHold, ServedWereSteered, TypeOK
  <1>4. \A s \in Sessions : Kept(s)' \subseteq
          Kept(s) \cup {UserTurn(r) : r \in {x \in extra : SessionOf[x] = s}}
    BY <1>2, <1>3 DEF Kept, RunsOf
  <1>5. NoTurnLost'
    <2>1. CASE extra = {} /\ \A s \in Sessions : TurnsIn(disk[s]) \subseteq TurnsIn(disk'[s])
      BY <1>2, <1>4, <2>1 DEF TurnsHold, NoTurnLost
    <2>2. ASSUME NEW r \in Runs, extra = {r},
                 disk' = [disk EXCEPT ![SessionOf[r]] = Say(disk[SessionOf[r]], UserTurn(r))]
          PROVE  NoTurnLost'
      <3> DEFINE s == SessionOf[r]
      <3>1. s \in Sessions /\ disk[s] \in Session
        BY SessionRunsAssumption DEF TypeOK
      <3>2. TurnsIn(disk'[s]) = TurnsIn(disk[s]) \cup {UserTurn(r)}
        BY <2>2, <3>1, SaySession, TurnTypes DEF TypeOK
      <3>3. \A x \in Sessions \ {s} : disk'[x] = disk[x]
        BY <2>2 DEF TypeOK
      <3> QED
        BY <1>2, <1>4, <2>2, <3>1, <3>2, <3>3 DEF TurnsHold, NoTurnLost
    <2> QED
      BY <1>1, <2>1, <2>2
  <1>6. LocalsHoldKept'
    BY <1>2 DEF LocalsHoldKept, AliveIn, RunsOf, Alive
  <1>7. ServedWereSteered'
    BY <1>2, <1>3 DEF TurnsHold, ServedWereSteered
  <1> QED
    BY <1>5, <1>6, <1>7 DEF TurnsHold

\* Every step keeps the turns.
LEMMA TurnsStep ==
  ASSUME TypeOK, RegistryIsCurrent, SerialRunIsReachable, TurnsHold, [Next]_vars
  PROVE  TurnsHold'
  <1> USE DEF files, table, history
  <1>1. ASSUME NEW r \in Runs, CompactionEnds(r) \/ WaitForSwallows(r) \/ Disconnect(r)
        PROVE  TurnsHold'
    <2>1. /\ UNCHANGED <<disk, local, steered, served, overlapped>>
          /\ \A q \in Runs \ {r} : phase'[q] = phase[q]
          /\ phase'[r] = phase[r] \/ (phase[r] = "compacting" /\ phase'[r] = "mission")
      BY <1>1 DEF CompactionEnds, WaitForSwallows, Disconnect, TypeOK
    <2>2. \A s \in Sessions : Kept(s)' \subseteq Kept(s)
      BY <2>1, KeptGrowsOnly
    <2> QED
      BY <2>1, <2>2, TurnsQuiet DEF Suspended
  <1>2. ASSUME NEW r \in Runs, SettlingEnds(r) \/ MissionRaises(r) \/ EndsCancelled(r)
        PROVE  TurnsHold'
    <2> DEFINE s == SessionOf[r]
    <2>1. s \in Sessions /\ r \in AliveIn(s)
      BY <1>2, SessionRunsAssumption
      DEF SettlingEnds, MissionRaises, EndsCancelled, AliveIn, RunsOf, Alive, Suspended
    <2>2. disk' = disk \/ disk' = [disk EXCEPT ![s] = local[r]]
      BY <1>2 DEF SettlingEnds, MissionRaises, EndsCancelled
    <2>3. \A x \in Sessions : \/ TurnsIn(disk[x]) \subseteq TurnsIn(disk'[x])
                              \/ \E q \in AliveIn(x) : TurnsIn(disk'[x]) = TurnsIn(local[q])
      BY <2>1, <2>2 DEF TypeOK
    <2>4. PICK outcome \in Ended : /\ Leave(r, outcome)
                                   /\ outcome = "answered" => phase[r] = "settling"
      BY <1>2 DEF SettlingEnds, MissionRaises, EndsCancelled, Ended
    <2>5. /\ UNCHANGED <<steered, served, overlapped>>
          /\ \A q \in Runs \ {r} : phase'[q] = phase[q] /\ local'[q] = local[q]
          /\ phase'[r] = outcome /\ phase[r] \in Suspended
      BY <1>2, <2>1, <2>4
      DEF SettlingEnds, MissionRaises, EndsCancelled, Leave, TypeOK, AliveIn, Alive
    <2>6. \A x \in Sessions : Kept(x)' \subseteq Kept(x)
      BY <2>4, <2>5, KeptGrowsOnly DEF Ended, Suspended
    <2> QED
      BY <2>3, <2>4, <2>5, <2>6, TurnsQuiet DEF Ended, Suspended
  <1>3. ASSUME NEW s \in Sessions, NEW t \in Steers, Steer(s, t)
        PROVE  TurnsHold'
    <2>1. TurnsIn(Say(disk[s], SteerTurn(t))) = TurnsIn(disk[s]) \cup {SteerTurn(t)}
      BY SaySession, TurnTypes DEF TypeOK
    <2>2. \A x \in Sessions : disk'[x] = IF x = s THEN Say(disk[s], SteerTurn(t)) ELSE disk[x]
      BY <1>3 DEF Steer, TypeOK
    <2>3. /\ UNCHANGED <<phase, local, served, overlapped>>
          /\ steered[t] = NoRun /\ \A u \in Steers \ {t} : steered'[u] = steered[u]
      BY <1>3 DEF Steer, TypeOK
    <2>4. \A u \in served : steered'[u] = steered[u]
      BY <2>3 DEF TurnsHold, ServedWereSteered, TypeOK
    <2>5. \A x \in Sessions : Kept(x)' \subseteq Kept(x)
      BY <2>3, <2>4, KeptGrowsOnly
    <2>6. \A x \in Sessions : TurnsIn(disk[x]) \subseteq TurnsIn(disk'[x])
      BY <2>1, <2>2
    <2> QED
      BY <2>3, <2>4, <2>5, <2>6, TurnsQuiet
  <1>4. ASSUME NEW s \in Sessions, SoftStop(s) \/ HardStop(s) \/ Resume(s)
                                     \/ \E c \in Configs : Update(s, c)
        PROVE  TurnsHold'
    <2>1. UNCHANGED <<phase, local, steered, served, overlapped>>
      BY <1>4 DEF SoftStop, HardStop, Resume, Update
    <2>2. \A x \in Sessions : TurnsIn(disk[x]) \subseteq TurnsIn(disk'[x])
      BY <1>4, OperatorWrites
    <2>3. \A x \in Sessions : Kept(x)' \subseteq Kept(x)
      BY <2>1, KeptGrowsOnly
    <2> QED
      BY <2>1, <2>2, <2>3, TurnsQuiet
  <1>5. CASE UNCHANGED vars
    BY <1>5 DEF vars, TurnsHold, NoTurnLost, LocalsHoldKept, ServedWereSteered, Kept, AliveIn,
                RunsOf, Alive
  <1> QED
    BY <1>1, <1>2, <1>3, <1>4, <1>5, ChatKeepsTurns, RestartKeepsTurns, AnswerKeepsTurns,
       CrashKeepsTurns
    DEF Next, RunStep, OperatorStep

\* Everything known so far, with the turns.
LEMMA TurnsInvariant ==
  Spec => [](TypeOK /\ RegistryIsCurrent /\ SerialRunIsReachable /\ TurnsHold)
  <1>1. Init => TurnsHold
    BY SessionRunsAssumption
    DEF Init, TurnsHold, NoTurnLost, LocalsHoldKept, ServedWereSteered, Kept, AliveIn, RunsOf,
        Alive, Suspended
  <1>2. TypeOK /\ RegistryIsCurrent /\ SerialRunIsReachable /\ TurnsHold /\ [Next]_vars => TurnsHold'
    BY TurnsStep
  <1> QED
    BY <1>1, <1>2, RegistryInvariant, PTL DEF Spec

\* In a session used by one chat at a time nothing that was said, answered or picked up by a
\* restart is ever lost from its file, whatever steers, stops, updates, cancellations and crashes
\* come in between.
THEOREM TurnsAreKept == Spec => []NoTurnLost
  <1>1. TurnsHold => NoTurnLost
    BY DEF TurnsHold
  <1> QED
    BY <1>1, TurnsInvariant, PTL

-----------------------------------------------------------------------------
(* The steers *)

\* Pending steers survive a step that neither takes their cancellation away nor lets a file
\* lose a turn, unless their run has ended or gone deaf.
LEMMA PendingQuiet ==
  ASSUME TypeOK, PendingSteers, steered' = steered, served \subseteq served',
         overlapped \subseteq overlapped', deaf \subseteq deaf',
         \A q \in Runs : phase'[q] \in {"idle", "answered"} => phase'[q] = phase[q],
         \A q \in Runs : phase'[q] \in Suspended /\ q \notin deaf' /\ SessionOf[q] \notin overlapped'
           /\ phase[q] # "idle" =>
             /\ phase[q] \in Suspended
             /\ q \in cancelling => q \in cancelling'
             /\ q \in cancelling => TurnsIn(disk[SessionOf[q]]) \subseteq TurnsIn(disk'[SessionOf[q]])
  PROVE  PendingSteers'
  <1>1. SUFFICES ASSUME NEW t \in Steers \ served', steered'[t] # NoRun, steered'[t] \notin deaf',
                        SessionOf[steered'[t]] \notin overlapped'
                 PROVE  /\ phase'[steered'[t]] \notin {"idle", "answered"}
                        /\ phase'[steered'[t]] \in Suspended =>
                             /\ steered'[t] \in cancelling'
                             /\ SteerTurn(t) \in TurnsIn(disk'[SessionOf[steered'[t]]])
    BY DEF PendingSteers, Alive
  <1> DEFINE r == steered[t]
  <1>2. /\ r \in Runs /\ r = steered'[t]
        /\ phase[r] \notin {"idle", "answered"}
        /\ phase[r] \in Suspended =>
             r \in cancelling /\ SteerTurn(t) \in TurnsIn(disk[SessionOf[r]])
    BY <1>1 DEF PendingSteers, TypeOK, Alive
  <1> HIDE DEF r
  <1> QED
    BY <1>1, <1>2

\* Every step keeps the pending steers.
LEMMA PendingStep ==
  ASSUME TypeOK, RegistryIsCurrent, SerialRunIsReachable, PendingSteers, [Next]_vars
  PROVE  PendingSteers'
  <1> USE DEF files, table, history
  <1>1. ASSUME NEW r \in Runs, Chat(r)
        PROVE  PendingSteers'
    <2> DEFINE s == SessionOf[r]
    <2>1. TurnsIn(Say(disk[s], UserTurn(r))) = TurnsIn(disk[s]) \cup {UserTurn(r)} /\ s \in Sessions
      BY SaySession, TurnTypes, SessionRunsAssumption DEF TypeOK
    <2>2. \A x \in Sessions : disk'[x] = IF x = s THEN Say(disk[s], UserTurn(r)) ELSE disk[x]
      BY <1>1 DEF Chat, TypeOK
    <2>3. \A x \in Sessions : TurnsIn(disk[x]) \subseteq TurnsIn(disk'[x])
      BY <2>1, <2>2
    <2>4. /\ phase[r] = "idle" /\ phase'[r] \in {"mission", "compacting"}
          /\ \A q \in Runs \ {r} : phase'[q] = phase[q]
          /\ UNCHANGED <<steered, served, deaf, cancelling>> /\ overlapped \subseteq overlapped'
      BY <1>1 DEF Chat, EnterLoop, TypeOK
    <2> HIDE DEF s
    <2> QED
      BY <2>3, <2>4, PendingQuiet, SessionRunsAssumption
  <1>2. ASSUME NEW r \in Runs, Restarts(r)
        PROVE  PendingSteers'
    <2>1. /\ UNCHANGED <<disk, steered, overlapped, deaf>>
          /\ phase[r] = "mission" /\ phase'[r] \in {"mission", "compacting"}
          /\ \A q \in Runs \ {r} : phase'[q] = phase[q]
          /\ cancelling' = cancelling \ {r}
          /\ served' = served \cup
               {t \in Steers : steered[t] = r /\ SteerTurn(t) \in TurnsIn(disk[SessionOf[r]])}
      BY <1>2 DEF Restarts, Acknowledge, EnterLoop, TypeOK
    <2>2. ASSUME NEW t \in Steers \ served', steered[t] # NoRun, steered[t] \notin deaf,
                 SessionOf[steered[t]] \notin overlapped
          PROVE  steered[t] \in Runs \ {r}
      BY <2>1, <2>2 DEF PendingSteers, Alive, Suspended, TypeOK
    <2> QED
      BY <2>1, <2>2 DEF PendingSteers, Alive
  <1>3. ASSUME NEW r \in Runs, CompactionEnds(r)
        PROVE  PendingSteers'
    <2>1. /\ UNCHANGED <<disk, cancelling, steered, served, overlapped, deaf>>
          /\ phase[r] = "compacting" /\ phase'[r] = "mission"
          /\ \A q \in Runs \ {r} : phase'[q] = phase[q]
      BY <1>3 DEF CompactionEnds, TypeOK
    <2> QED
      BY <2>1, PendingQuiet DEF Suspended
  <1>4. ASSUME NEW r \in Runs, MissionEnds(r) \/ SettlingEnds(r) \/ MissionRaises(r)
        PROVE  PendingSteers'
    <2> DEFINE s == SessionOf[r]
    <2>1. s \in Sessions /\ r \in AliveIn(s) /\ r \notin cancelling
      BY <1>4, SessionRunsAssumption
      DEF MissionEnds, SettlingEnds, MissionRaises, AliveIn, RunsOf, Alive, Suspended
    <2>2. /\ UNCHANGED <<cancelling, steered, served, overlapped, deaf>>
          /\ \A x \in Sessions \ {s} : disk'[x] = disk[x]
          /\ \A q \in Runs \ {r} : phase'[q] = phase[q]
      BY <1>4 DEF MissionEnds, SettlingEnds, MissionRaises, Leave, TypeOK
    <2>3. ASSUME NEW t \in Steers \ served, steered[t] # NoRun, steered[t] \notin deaf,
                 SessionOf[steered[t]] \notin overlapped
          PROVE  /\ steered[t] \in Runs \ {r}
                 /\ Alive(steered[t]) => SessionOf[steered[t]] \in Sessions \ {s}
      <3>1. steered[t] \in Runs \ {r}
        BY <2>1, <2>3 DEF PendingSteers, TypeOK, AliveIn
      <3>2. ASSUME Alive(steered[t]), SessionOf[steered[t]] = s
            PROVE  FALSE
        BY <2>1, <2>3, <3>1, <3>2, SerialRunIsAlone DEF AliveIn, RunsOf
      <3> QED
        BY <3>1, <3>2, SessionRunsAssumption
    <2> HIDE DEF s
    <2> QED
      BY <2>2, <2>3 DEF PendingSteers, Alive
  <1>5. ASSUME NEW r \in Runs, EndsCancelled(r)
        PROVE  PendingSteers'
    <2> DEFINE s == SessionOf[r]
    <2>1. s \in Sessions /\ r \in AliveIn(s)
      BY <1>5, SessionRunsAssumption DEF EndsCancelled, AliveIn, RunsOf, Alive
    <2>2. /\ UNCHANGED <<steered, served, overlapped, deaf>>
          /\ \A x \in Sessions \ {s} : disk'[x] = disk[x]
          /\ phase'[r] = "cancelled"
          /\ \A q \in Runs \ {r} : phase'[q] = phase[q]
          /\ cancelling' = cancelling \ {r}
      BY <1>5 DEF EndsCancelled, Leave, TypeOK
    <2>3. ASSUME NEW q \in Runs, phase'[q] \in Suspended, SessionOf[q] \notin overlapped'
          PROVE  q # r /\ SessionOf[q] \in Sessions \ {s}
      <3>1. q # r /\ Alive(q)
        BY <2>2, <2>3 DEF Suspended, Alive
      <3>2. ASSUME SessionOf[q] = s
            PROVE  FALSE
        BY <2>1, <2>2, <2>3, <3>1, <3>2, SerialRunIsAlone DEF AliveIn, RunsOf
      <3> QED
        BY <3>1, <3>2, SessionRunsAssumption
    <2> HIDE DEF s
    <2> QED
      BY <2>2, <2>3, PendingQuiet DEF Suspended
  <1>6. ASSUME NEW r \in Runs, WaitForSwallows(r) \/ Disconnect(r)
        PROVE  PendingSteers'
    <2>1. /\ UNCHANGED <<disk, phase, steered, served, overlapped>>
          /\ deaf \subseteq deaf'
          /\ \A q \in cancelling : q \in cancelling' \cup deaf'
      BY <1>6 DEF WaitForSwallows, Disconnect, Cancel
    <2> QED
      BY <2>1, PendingQuiet
  <1>7. ASSUME NEW s \in Sessions, NEW t \in Steers, Steer(s, t)
        PROVE  PendingSteers'
    <2>1. TurnsIn(Say(disk[s], SteerTurn(t))) = TurnsIn(disk[s]) \cup {SteerTurn(t)}
      BY SaySession, TurnTypes DEF TypeOK
    <2>2. \A x \in Sessions : disk'[x] = IF x = s THEN Say(disk[s], SteerTurn(t)) ELSE disk[x]
      BY <1>7 DEF Steer, TypeOK
    <2>3. \A x \in Sessions : TurnsIn(disk[x]) \subseteq TurnsIn(disk'[x])
      BY <2>1, <2>2
    <2>4. /\ UNCHANGED <<phase, served, overlapped, deaf>>
          /\ cancelling' = cancelling \cup {active[s]}
          /\ active[s] \in Runs /\ Alive(active[s])
          /\ \A u \in Steers : steered'[u] = IF u = t THEN active[s] ELSE steered[u]
      BY <1>7 DEF Steer, Cancel, TypeOK
    <2>5. SessionOf[active[s]] = s
      BY <1>7 DEF Steer, RegistryIsCurrent
    <2>6. ASSUME NEW u \in Steers \ served, steered'[u] # NoRun, steered'[u] \notin deaf,
                 SessionOf[steered'[u]] \notin overlapped
          PROVE  /\ phase[steered'[u]] \notin {"idle", "answered"}
                 /\ Alive(steered'[u]) => /\ steered'[u] \in cancelling'
                                         /\ SteerTurn(u) \in TurnsIn(disk'[SessionOf[steered'[u]]])
      <3>1. CASE u = t
        BY <2>1, <2>2, <2>4, <2>5, <3>1 DEF Alive, Suspended
      <3>2. CASE u # t
        <4>1. steered'[u] = steered[u] /\ steered[u] \in Runs /\ SessionOf[steered[u]] \in Sessions
          BY <2>4, <2>6, <3>2, SessionRunsAssumption DEF TypeOK
        <4> QED
          BY <2>3, <2>4, <2>6, <4>1 DEF PendingSteers
      <3> QED
        BY <3>1, <3>2
    <2> QED
      BY <2>4, <2>6 DEF PendingSteers, Alive
  <1>8. ASSUME NEW s \in Sessions, SoftStop(s) \/ HardStop(s) \/ Resume(s)
                                     \/ \E c \in Configs : Update(s, c)
        PROVE  PendingSteers'
    <2>1. UNCHANGED <<phase, steered, served, overlapped, deaf>> /\ cancelling \subseteq cancelling'
      BY <1>8 DEF SoftStop, HardStop, Resume, Update, Cancel
    <2>2. \A x \in Sessions : TurnsIn(disk[x]) \subseteq TurnsIn(disk'[x])
      BY <1>8, OperatorWrites
    <2> QED
      BY <2>1, <2>2, PendingQuiet, SessionRunsAssumption
  <1>9. CASE CrashStep
    <2>1. PICK extra \in SUBSET Runs : AllRunsLost(extra)
      BY <1>9 DEF CrashStep, Crash, CrashInChat, CrashInSteer
    <2>2. /\ UNCHANGED <<served, overlapped, deaf>>
          /\ \A q \in Runs : phase'[q] \notin Suspended
          /\ \A q \in Runs : phase'[q] \in {"idle", "answered"} => phase'[q] = phase[q] /\ ~Alive(q)
      BY <2>1 DEF AllRunsLost, Alive, Suspended, TypeOK
    <2>3. \A t \in Steers : steered'[t] = steered[t] \/ (steered'[t] \in Runs /\ Alive(steered'[t]))
      BY <1>9 DEF CrashStep, Crash, CrashInChat, CrashInSteer, TypeOK
    <2> QED
      BY <2>2, <2>3 DEF PendingSteers, Alive, TypeOK
  <1>10. CASE UNCHANGED vars
    BY <1>10 DEF vars, PendingSteers, Alive
  <1> QED
    BY <1>1, <1>2, <1>3, <1>4, <1>5, <1>6, <1>7, <1>8, <1>9, <1>10
    DEF Next, RunStep, OperatorStep

\* A steer that was accepted for a run is heeded by its answer: the run was restarted with the
\* steer in its session before it answered, whatever stops, updates and disconnects came along.
THEOREM SteersAreHeeded == Spec => []AnswerHeedsSteers
  <1>1. Init => PendingSteers
    BY DEF Init, PendingSteers
  <1>2. TypeOK /\ RegistryIsCurrent /\ SerialRunIsReachable /\ PendingSteers /\ [Next]_vars
          => PendingSteers'
    BY PendingStep
  <1>3. PendingSteers => AnswerHeedsSteers
    BY DEF PendingSteers, AnswerHeedsSteers
  <1> QED
    BY <1>1, <1>2, <1>3, RegistryInvariant, PTL DEF Spec

-----------------------------------------------------------------------------
(* How long a run can go on *)

\* The awaits before the end of a run that is not restarted.
AheadOf(r) ==
  CASE phase[r] = "compacting" -> 3
    [] phase[r] = "mission"    -> 2
    [] phase[r] = "settling"   -> 1
    [] OTHER                   -> 0

Unsent == {t \in Steers : steered[t] = NoRun}

\* A restart costs two awaits at most, and each restart a steer.
Owed(r)      == IF SessionOf[r] \in restart THEN 2 ELSE 0
StepsLeft(r) == AheadOf(r) + Owed(r) + 2 * Cardinality(Unsent)

\* Every step of a run brings its end nearer, and nothing that operators, clients, other runs of
\* its session or a crash do puts it off, except that a steer uses up one of those that can be
\* sent.  So as long as only finitely many steers are sent no run is restarted for ever, which is
\* what the end of every run rests on.
RunsRunDown ==
  [][\A r \in Runs : Alive(r) =>
       IF RunStep(r) THEN StepsLeft(r)' < StepsLeft(r) ELSE StepsLeft(r)' <= StepsLeft(r)]_vars

\* The parts of the measure are numbers.
LEMMA PartsAreCounted ==
  ASSUME IsFiniteSet(Steers), NEW r \in Runs
  PROVE  /\ AheadOf(r) \in 0 .. 3 /\ AheadOf(r)' \in 0 .. 3
         /\ Owed(r) \in {0, 2} /\ Owed(r)' \in {0, 2}
         /\ Cardinality(Unsent) \in Nat /\ Cardinality(Unsent)' \in Nat
  <1>1. AheadOf(r) \in 0 .. 3 /\ AheadOf(r)' \in 0 .. 3
    BY DEF AheadOf
  <1>2. Owed(r) \in {0, 2} /\ Owed(r)' \in {0, 2}
    BY DEF Owed
  <1>3. Unsent \subseteq Steers /\ Unsent' \subseteq Steers
    BY DEF Unsent
  <1>4. Cardinality(Unsent) \in Nat /\ Cardinality(Unsent') \in Nat
    BY <1>3, FS_Subset, FS_CardinalityType
  <1> QED
    BY <1>1, <1>2, <1>4

\* No steer is sent, and no restart asked for.
LEMMA QuietRank ==
  ASSUME IsFiniteSet(Steers), NEW r \in Runs, UNCHANGED steered, restart' \subseteq restart
  PROVE  /\ AheadOf(r)' <= AheadOf(r) => StepsLeft(r)' <= StepsLeft(r)
         /\ AheadOf(r)' < AheadOf(r) => StepsLeft(r)' < StepsLeft(r)
  <1>1. Cardinality(Unsent)' = Cardinality(Unsent)
    BY DEF Unsent
  <1>2. Owed(r)' <= Owed(r)
    BY DEF Owed
  <1>3. \A a, b \in 0 .. 3 : \A p, q \in {0, 2} : \A n \in Nat :
          /\ a <= b /\ p <= q => a + p + 2 * n <= b + q + 2 * n
          /\ a < b /\ p <= q => a + p + 2 * n < b + q + 2 * n
    OBVIOUS
  <1>4. /\ AheadOf(r) \in 0 .. 3 /\ AheadOf(r)' \in 0 .. 3
        /\ Owed(r) \in {0, 2} /\ Owed(r)' \in {0, 2}
        /\ Cardinality(Unsent) \in Nat
    BY PartsAreCounted
  <1>5. /\ StepsLeft(r) = AheadOf(r) + Owed(r) + 2 * Cardinality(Unsent)
        /\ StepsLeft(r)' = AheadOf(r)' + Owed(r)' + 2 * Cardinality(Unsent)
    BY <1>1 DEF StepsLeft
  <1> QED
    BY <1>2, <1>3, <1>4, <1>5

\* One more steer has been sent.
LEMMA SteeredRank ==
  ASSUME IsFiniteSet(Steers), TypeOK, NEW r \in Runs, NEW t \in Steers, NEW x, x # NoRun,
         steered[t] = NoRun, steered' = [steered EXCEPT ![t] = x], AheadOf(r)' <= AheadOf(r)
  PROVE  StepsLeft(r)' <= StepsLeft(r)
  <1>1. Unsent' = Unsent \ {t} /\ t \in Unsent
    BY DEF Unsent, TypeOK
  <1>2. IsFiniteSet(Unsent)
    BY FS_Subset DEF Unsent
  <1>3. Cardinality(Unsent') = Cardinality(Unsent) - 1
    BY <1>1, <1>2, FS_RemoveElement
  <1>4. /\ AheadOf(r) \in 0 .. 3 /\ AheadOf(r)' \in 0 .. 3
        /\ Owed(r) \in {0, 2} /\ Owed(r)' \in {0, 2}
        /\ Cardinality(Unsent) \in Nat
    BY PartsAreCounted
  <1>5. \A a, b \in 0 .. 3 : \A p, q \in {0, 2} : \A n \in Nat :
          a <= b => a + p + 2 * (n - 1) <= b + q + 2 * n
    OBVIOUS
  <1>6. /\ StepsLeft(r) = AheadOf(r) + Owed(r) + 2 * Cardinality(Unsent)
        /\ StepsLeft(r)' = AheadOf(r)' + Owed(r)' + 2 * (Cardinality(Unsent) - 1)
    BY <1>3 DEF StepsLeft
  <1> QED
    BY <1>4, <1>5, <1>6

\* The run goes on by itself.
LEMMA RunStepCountsDown ==
  ASSUME IsFiniteSet(Steers), TypeOK, NEW r \in Runs, RunStep(r)
  PROVE  StepsLeft(r)' < StepsLeft(r)
  <1>1. CASE Restarts(r)
    <2>1. /\ phase[r] = "mission" /\ phase'[r] \in {"mission", "compacting"}
          /\ SessionOf[r] \in restart /\ SessionOf[r] \notin restart' /\ UNCHANGED steered
      BY <1>1 DEF Restarts, EnterLoop, Acknowledge, TypeOK
    <2>2. AheadOf(r) = 2 /\ AheadOf(r)' \in {2, 3} /\ Owed(r) = 2 /\ Owed(r)' = 0
      BY <2>1 DEF AheadOf, Owed
    <2>3. Cardinality(Unsent)' = Cardinality(Unsent) /\ Cardinality(Unsent) \in Nat
      BY <2>1, PartsAreCounted DEF Unsent
    <2>4. /\ StepsLeft(r) = 4 + 2 * Cardinality(Unsent)
          /\ StepsLeft(r)' = AheadOf(r)' + 2 * Cardinality(Unsent)
      BY <2>2, <2>3 DEF StepsLeft
    <2> QED
      BY <2>2, <2>3, <2>4
  <1>2. CASE ~Restarts(r)
    <2>1. UNCHANGED steered /\ restart' \subseteq restart
      BY <1>2 DEF RunStep, CompactionEnds, MissionEnds, SettlingEnds, MissionRaises, EndsCancelled, Leave,
                  Unregister, history, table
    <2>2. /\ phase[r] \in Suspended
          /\ \/ phase[r] = "compacting" /\ phase'[r] = "mission"
             \/ phase[r] = "mission" /\ phase'[r] = "settling"
             \/ phase'[r] \in Ended
      BY <1>2 DEF RunStep, CompactionEnds, MissionEnds, SettlingEnds, MissionRaises, EndsCancelled, Leave,
                  Alive, Suspended, Ended, TypeOK
    <2>3. AheadOf(r)' < AheadOf(r)
      BY <2>2 DEF AheadOf, Suspended, Ended
    <2> QED
      BY <2>1, <2>3, QuietRank
  <1> QED
    BY <1>1, <1>2

\* Another run of the same session or of another one.
LEMMA OtherRunsLeaveRank ==
  ASSUME IsFiniteSet(Steers), TypeOK, NEW r \in Runs, NEW x \in Runs, x # r,
         Chat(x) \/ Disconnect(x) \/ RunStep(x) \/ WaitForSwallows(x)
  PROVE  StepsLeft(r)' <= StepsLeft(r)
  <1>1. phase'[r] = phase[r]
    <2>1. UNCHANGED phase \/ \E p : phase' = [phase EXCEPT ![x] = p]
      BY DEF Chat, EnterLoop, Disconnect, WaitForSwallows, RunStep, CompactionEnds, MissionEnds,
             SettlingEnds, MissionRaises, Restarts, EndsCancelled, Leave
    <2> QED
      BY <2>1 DEF TypeOK
  <1>2. UNCHANGED steered /\ restart' \subseteq restart
    BY DEF Chat, Disconnect, WaitForSwallows, RunStep, CompactionEnds, MissionEnds, SettlingEnds,
           MissionRaises, Restarts, Acknowledge, EndsCancelled, Leave, Unregister, history, table
  <1>3. AheadOf(r)' = AheadOf(r) /\ AheadOf(r) \in 0 .. 3
    BY <1>1 DEF AheadOf
  <1> QED
    BY <1>2, <1>3, QuietRank

\* The operator and the process.
LEMMA OutsideLeavesRank ==
  ASSUME IsFiniteSet(Steers), TypeOK, NEW r \in Runs, Alive(r),
         CrashStep \/ \E s \in Sessions : OperatorStep(s)
  PROVE  StepsLeft(r)' <= StepsLeft(r)
  <1>1. CASE \E s \in Sessions, t \in Steers : Steer(s, t)
    <2>1. PICK s \in Sessions, t \in Steers : Steer(s, t)
      BY <1>1
    <2>2. AheadOf(r)' <= AheadOf(r)
      BY <2>1 DEF Steer, AheadOf
    <2> DEFINE x == active[s]
    <2>3. /\ x # NoRun /\ steered[t] = NoRun
          /\ steered' = [steered EXCEPT ![t] = x]
      BY <2>1 DEF Steer
    <2> HIDE DEF x
    <2> QED
      BY <2>2, <2>3, SteeredRank
  <1>2. CASE \E s \in Sessions, t \in Steers : CrashInSteer(s, t)
    <2>1. PICK s \in Sessions, t \in Steers : CrashInSteer(s, t)
      BY <1>2
    <2>2. AheadOf(r)' <= AheadOf(r)
      BY <2>1 DEF CrashInSteer, AllRunsLost, AheadOf
    <2> DEFINE x == active[s]
    <2>3. /\ x # NoRun /\ steered[t] = NoRun
          /\ steered' = [steered EXCEPT ![t] = x]
      BY <2>1 DEF CrashInSteer
    <2> HIDE DEF x
    <2> QED
      BY <2>2, <2>3, SteeredRank
  <1>3. CASE Crash \/ \E x \in Runs : CrashInChat(x)
    <2>1. UNCHANGED steered /\ restart' \subseteq restart /\ phase'[r] = "lost"
      BY <1>3 DEF Crash, CrashInChat, AllRunsLost
    <2>2. AheadOf(r)' <= AheadOf(r)
      BY <2>1 DEF AheadOf
    <2> QED
      BY <2>1, <2>2, QuietRank
  <1>4. ASSUME NEW s \in Sessions,
               SoftStop(s) \/ HardStop(s) \/ Resume(s) \/ \E c \in Configs : Update(s, c)
        PROVE  StepsLeft(r)' <= StepsLeft(r)
    <2>1. UNCHANGED <<steered, restart, phase>>
      BY <1>4 DEF SoftStop, HardStop, Resume, Update, history, table
    <2>2. AheadOf(r)' <= AheadOf(r)
      BY <2>1 DEF AheadOf
    <2> QED
      BY <2>1, <2>2, QuietRank
  <1> QED
    BY <1>1, <1>2, <1>3, <1>4 DEF CrashStep, OperatorStep

\* The steps of a run are numbered, if the steers that can be sent are.
THEOREM RunsCountDown ==
  ASSUME IsFiniteSet(Steers)
  PROVE  Spec => RunsRunDown
  <1> DEFINE Down == \A r \in Runs : Alive(r) =>
       IF RunStep(r) THEN StepsLeft(r)' < StepsLeft(r) ELSE StepsLeft(r)' <= StepsLeft(r)
  <1>1. TypeOK /\ [Next]_vars => [Down]_vars
    <2> SUFFICES ASSUME TypeOK, Next, NEW r \in Runs, Alive(r), ~RunStep(r)
                 PROVE  StepsLeft(r)' <= StepsLeft(r)
      BY RunStepCountsDown
    <2>1. ASSUME NEW x \in Runs, Chat(x) \/ Disconnect(x) \/ RunStep(x) \/ WaitForSwallows(x)
          PROVE  StepsLeft(r)' <= StepsLeft(r)
      <3>1. CASE x # r
        BY <2>1, <3>1, OtherRunsLeaveRank
      <3>2. CASE x = r
        <4>1. UNCHANGED <<steered, restart, phase>>
          BY <2>1, <3>2 DEF Chat, Disconnect, WaitForSwallows, Alive, Suspended, history, table
        <4>2. AheadOf(r)' <= AheadOf(r)
          BY <4>1 DEF AheadOf
        <4> QED
          BY <4>1, <4>2, QuietRank
      <3> QED
        BY <3>1, <3>2
    <2> QED
      BY <2>1, OutsideLeavesRank DEF Next
  <1> QED
    BY <1>1, TypesHold, PTL DEF Spec, RunsRunDown
=============================================================================
