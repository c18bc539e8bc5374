-------------------------- MODULE SessionDirectory --------------------------
(***************************************************************************)
(* The directory of sessions (session_store.py, session_context_store.py)  *)
(* and the operations of SessionService that open, fork, list, change and  *)
(* save them.  A session is three files: the session, its summary, which   *)
(* is what a name or a group is looked up in, and the agent's context.     *)
(*                                                                         *)
(* An operation runs without an await: it reads, and what it writes is     *)
(* then written file by file, with nothing in between but a crash of the   *)
(* server.  A chat run is two operations, at its beginning and its end,    *)
(* and keeps its copy of the session in between; SessionRuns has the rest  *)
(* of it, and the compaction that cuts a context, which is left out here.  *)
(* Turns are then only appended, so their number stands for them.  A name  *)
(* stands for its normalized form.  A file is written as a whole, or not   *)
(* at all.                                                                 *)
(***************************************************************************)
EXTENDS Naturals, SequencesExt

CONSTANTS
  Ids,          (* session ids, each made at most once                     *)
  Names,
  None,         (* no group, no file, no run                               *)
  Shared,       (* the shared db_dir; a dedicated one bears the id         *)
  MaxTime       (* bound: operations that set updated_at                   *)

ASSUME SessionDirectoryAssumption ==
  /\ {None, Shared} \cap Ids = {}
  /\ None # Shared
  /\ MaxTime \in Nat

VARIABLES
  session,      (* <id>.json                                               *)
  summary,      (* <id>.summary.json                                       *)
  context,      (* <id>.context.json: the number of its turns              *)
  writes,       (* what the operation that runs has still to write         *)
  run,          (* the copies of a chat run                                *)
  time,
  made,         (* the ids made so far                                     *)
  (* History; no action reads them to decide: *)
  source,       (* what each session was forked from                       *)
  lagging,      (* sessions that a crash left with an older summary        *)
  behind,       (* sessions that a crash left with an older context        *)
  misplaced     (* sessions that are not in the group they were put in     *)

files   == <<session, summary, context>>
history == <<source, lagging, behind, misplaced>>
vars    == <<files, writes, run, time, made, history>>

\* A group bears the id of the fork that it was made for.
Groups  == Ids \cup {None}
Session == [name : Names, group : Groups, db : Ids \cup {Shared}, turns : Nat, updated : Nat]
Summary == [name : Names, group : Groups, updated : Nat]
Run     == [session : Session, turns : Nat]
File    == [file : {"session"}, id : Ids, to : Session]
             \cup [file : {"summary"}, id : Ids, to : Summary]
             \cup [file : {"context"}, id : Ids, to : Nat]

ASSUME NoneAssumption == None \notin Session \cup Run \cup Nat

Sessions == {id \in Ids : session[id] # None}

-----------------------------------------------------------------------------
(* Files *)

\* _build_summary
SummaryOf(s) == [name |-> s.name, group |-> s.group, updated |-> s.updated]

\* A summary that is there is not written again.
SavedOnce(id, s) ==
  <<[file |-> "session", id |-> id, to |-> s]>>
    \o IF summary[id] = None THEN <<[file |-> "summary", id |-> id, to |-> SummaryOf(s)]>>
       ELSE <<>>

\* SessionStore.save and SessionContextStore.save
Saved(id, s) == <<[file |-> "session", id |-> id, to |-> s],
                  [file |-> "summary", id |-> id, to |-> SummaryOf(s)]>>
SavedContext(id, turns) == <<[file |-> "context", id |-> id, to |-> turns]>>

\* What was not found is saved.
LoadedNothing(id) == IF context[id] = None THEN SavedContext(id, context[id]) ELSE <<>>

\* _load_context: a context that is not there is made of the session's turns, and saved.
ContextOf(id)     == IF context[id] = None THEN session[id].turns ELSE context[id]
LoadedContext(id) == IF context[id] = None THEN SavedContext(id, session[id].turns) ELSE <<>>

\* list_summaries: the summaries that are not there are written; the others are not looked at.
Listed ==
  [id \in Ids |-> IF id \in Sessions /\ summary[id] = None THEN SummaryOf(session[id])
                  ELSE summary[id]]

\* The session that a lookup finds: the one that was updated last.
Newest(ids) == {id \in ids : \A other \in ids : Listed[other].updated <= Listed[id].updated}

\* Sessions whose summaries are not there are not found.
NamedBySummary(name, group) ==
  {id \in Sessions : summary[id] # None /\ summary[id].name = name /\ summary[id].group = group}

\* find_by_normalized_name and find_by_group_id
Named(name, group) ==
  {id \in Sessions : Listed[id].name = name /\ Listed[id].group = group}
InGroup(group) == {id \in Sessions : Listed[id].group = group}

\* An operation begins.
Ready == writes = <<>> /\ time < MaxTime

-----------------------------------------------------------------------------
(* Operations *)

\* GET /sessions
List ==
  /\ writes = <<>>
  /\ summary' = Listed
  /\ UNCHANGED <<session, context, writes, run, time, made, history>>

\* open, of a session that is found.
OpenFound(name, group) ==
  /\ writes = <<>>
  /\ summary' = Listed
  /\ \E id \in Newest(Named(name, group)) : writes' = LoadedContext(id)
  /\ UNCHANGED <<session, context, run, time, made, history>>

\* Makes a session with its context.
Make(id, s) ==
  /\ made' = made \cup {id}
  /\ writes' = Saved(id, s) \o SavedContext(id, 0)
  /\ time' = time + 1

\* A group's new session gets a database of its own.
JoinedApart(id, member, name) ==
  [session[member] EXCEPT !.name = name, !.db = id, !.turns = 0, !.updated = time + 1]

\* The new session of a group, whatever database the request asks for.
Joined(id, member, name) ==
  [session[member] EXCEPT !.name = name, !.turns = 0, !.updated = time + 1]

\* open, of a new session.  In a group it takes the group and the database of the session that
\* is found in the group; when there is none the request is refused.
OpenNew(name, group) ==
  /\ Ready
  /\ Named(name, group) = {}
  /\ summary' = Listed
  /\ \E id \in Ids \ made :
       IF group = None
       THEN /\ \E db \in {Shared, id} :
                 Make(id, [name |-> name, group |-> None, db |-> db, turns |-> 0, updated |-> time + 1])
            /\ UNCHANGED misplaced
       ELSE \E member \in Newest(InGroup(group)) :
              /\ Make(id, Joined(id, member, name))
              /\ misplaced' = IF session[member].group = group THEN misplaced
                              ELSE misplaced \cup {id}
  /\ UNCHANGED <<session, context, run, source, lagging, behind>>

\* fork: an ungrouped source is put into a new group first.  Whether the name is taken in the
\* group is not looked at.
Fork(from, name, inherit) ==
  /\ Ready
  /\ from \in Sessions
  /\ \E id \in Ids \ made :
       LET group == IF session[from].group = None THEN id ELSE session[from].group
           fork  == [session[from] EXCEPT !.name = name, !.group = group, !.turns = 0,
                                          !.updated = time + 1]
           first == IF session[from].group = None
                    THEN Saved(from, [session[from] EXCEPT !.group = group, !.updated = time + 1])
                    ELSE <<>>
           rest  == IF inherit
                    THEN LoadedContext(from)
                           \o Saved(id, [fork EXCEPT !.turns = session[from].turns])
                           \o SavedContext(id, ContextOf(from))
                    ELSE SavedContext(id, 0)
       IN  /\ made' = made \cup {id}
           /\ writes' = first \o Saved(id, fork) \o rest
           /\ source' = [source EXCEPT ![id] = from]
           /\ behind' = IF from \in behind /\ inherit THEN behind \cup {id} ELSE behind
  /\ time' = time + 1
  /\ UNCHANGED <<files, run, lagging, misplaced>>

\* update, stop, resume: the session is read and saved.
Update(id) ==
  /\ Ready
  /\ id \in Sessions
  /\ writes' = Saved(id, [session[id] EXCEPT !.updated = time + 1])
  /\ time' = time + 1
  /\ UNCHANGED <<files, run, made, history>>

\* run_chat, up to the mission: the message is appended and saved.  A context that is not there
\* is made of turns that have the message already, which is then appended to it once more.
ChatBegins(id) ==
  LET s     == [session[id] EXCEPT !.turns = @ + 1, !.updated = time + 1]
      first == IF context[id] = None THEN SavedContext(id, s.turns) ELSE <<>>
      turns == (IF context[id] = None THEN s.turns ELSE context[id]) + 1
  IN  /\ Ready
      /\ id \in Sessions
      /\ run[id] = None
      /\ run' = [run EXCEPT ![id] = [session |-> s, turns |-> turns]]
      /\ writes' = Saved(id, s) \o first \o SavedContext(id, turns)
      /\ time' = time + 1
      /\ UNCHANGED <<files, made, history>>

\* The answer is appended to the copies that the run has kept, and they are saved.
ChatEnds(id) ==
  LET kept == run[id]
      s    == [kept.session EXCEPT !.turns = @ + 1, !.updated = time + 1]
  IN  /\ Ready
      /\ run[id] # None
      /\ run' = [run EXCEPT ![id] = None]
      /\ writes' = Saved(id, s) \o SavedContext(id, kept.turns + 1)
      /\ time' = time + 1
      /\ misplaced' = IF s.group = session[id].group THEN misplaced ELSE misplaced \cup {id}
      /\ UNCHANGED <<files, made, source, lagging, behind>>

\* The next file is written.
Write ==
  LET w == Head(writes) IN
  /\ writes # <<>>
  /\ writes' = Tail(writes)
  /\ session' = IF w.file = "session" THEN [session EXCEPT ![w.id] = w.to] ELSE session
  /\ summary' = IF w.file = "summary" THEN [summary EXCEPT ![w.id] = w.to] ELSE summary
  /\ context' = IF w.file = "context" THEN [context EXCEPT ![w.id] = w.to] ELSE context
  /\ UNCHANGED <<run, time, made, history>>

\* The server dies, and is started again.
Crash ==
  /\ writes # <<>> \/ \E id \in Ids : run[id] # None
  /\ writes' = <<>>
  /\ run' = [id \in Ids |-> None]
  /\ lagging' = IF writes # <<>> /\ Head(writes).file = "summary" /\ summary[Head(writes).id] # None
                THEN lagging \cup {Head(writes).id} ELSE lagging
  /\ behind' = behind \cup {w.id : w \in {x \in ToSet(writes) : x.file = "context"}}
  /\ UNCHANGED <<files, time, made, source, misplaced>>

Init ==
  /\ session = [id \in Ids |-> None]
  /\ summary = [id \in Ids |-> None]
  /\ context = [id \in Ids |-> None]
  /\ writes = <<>>
  /\ run = [id \in Ids |-> None]
  /\ time = 0
  /\ made = {}
  /\ source = [id \in Ids |-> None]
  /\ lagging = {} /\ behind = {} /\ misplaced = {}

Operation ==
  \/ List
  \/ \E name \in Names, group \in Groups : OpenFound(name, group) \/ OpenNew(name, group)
  \/ \E id \in Ids, name \in Names, inherit \in BOOLEAN : Fork(id, name, inherit)
  \/ \E id \in Ids : Update(id) \/ ChatBegins(id) \/ ChatEnds(id)

Next == Operation \/ Write \/ Crash

Spec == Init /\ [][Next]_vars

-----------------------------------------------------------------------------
(* Properties *)

TypeOK ==
  /\ session \in [Ids -> Session \cup {None}]
  /\ summary \in [Ids -> Summary \cup {None}]
  /\ context \in [Ids -> Nat \cup {None}]
  /\ writes \in Seq(File)
  /\ run \in [Ids -> Run \cup {None}]
  /\ time \in 0 .. MaxTime
  /\ made \subseteq Ids /\ Sessions \subseteq made
  /\ source \in [Ids -> Ids \cup {None}]
  /\ lagging \subseteq Ids /\ behind \subseteq Ids /\ misplaced \subseteq Ids

\* Whenever no operation is at work the files of a session tell the same: its summary, if it has
\* one, is that of the session, or an older one if the server died between the two files; and its
\* context has as many turns, unless the server died before a context was written.
FilesAgree ==
  writes = <<>> =>
    \A id \in Sessions :
      /\ \/ summary[id] \in {None, SummaryOf(session[id])}
         \/ id \in lagging /\ summary[id].updated < session[id].updated
      /\ id \in behind \/ context[id] = session[id].turns

\* open does not make a session twice: two sessions of one name in one group, or in none, mean
\* that one of them was made by fork, had its name looked up in an older summary after a crash,
\* or has come back from the group it was put in.
Forks == {id \in Ids : source[id] # None}
NamesAreUnique ==
  \A a, b \in Sessions :
    /\ a # b
    /\ session[a].name = session[b].name
    /\ session[a].group = session[b].group
    => {a, b} \cap (Forks \cup lagging \cup misplaced) # {}

\* A group is sessions that share a database: a fork shares the database and the group of its
\* source, unless a chat run saved the copy of the source that it had from before the fork; and
\* whoever is opened in a group, whichever member is found first, has that group's database.
GroupsShareADatabase ==
  /\ \A a, b \in Sessions :
       session[a].group = session[b].group /\ session[a].group # None =>
         session[a].db = session[b].db
  /\ \A id \in Sessions \cap Forks :
       /\ session[id].db = session[source[id]].db
       /\ session[id].group = session[source[id]].group \/ {id, source[id]} \cap misplaced # {}
=============================================================================
