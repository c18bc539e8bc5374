---------------------------- MODULE SkillMemory ----------------------------
(***************************************************************************)
(* The skills of a storage directory (memory_manager.py) and the tools a   *)
(* maintenance mission works on them with (tools/memory_tools.py).  The    *)
(* calls of one response of the model run in parallel on one database      *)
(* connection; a call is suspended, in "embedding", while an embedding is  *)
(* computed, and everything between two such awaits is one action.         *)
(*                                                                         *)
(* skill_update and skill_search work on what they read before the await.  *)
(* A failing embedding is swallowed and stored as "", which no property    *)
(* tells apart.  An entry is its id and the fields the agent gave; entries *)
(* with no title or body are skipped by the code and left out here.  The   *)
(* table stays below the 500 rows that _fetch_records returns.             *)
(***************************************************************************)
EXTENDS Naturals, Sequences, FiniteSets

CONSTANTS
  Calls,        (* calls of the skill tools in one mission                 *)
  Ids,          (* ids of skills                                           *)
  Nobody,       (* the author of what was there before the mission         *)
  Budget,       (* memory_tool_call_budget                                 *)
  Writes,       (* bound: what skill_write may be given to store           *)
  Updates       (* bound: what skill_update may be given to store          *)

Fields   == {"title", "body"}
Authors  == Calls \cup {Nobody}
Statuses == {"absent", "active", "deprecated"}
Row      == [status : Statuses, title : Authors, body : Authors]
Absent   == [status |-> "absent", title |-> Nobody, body |-> Nobody]

\* An entry of skill_write or skill_update.  The fields that an update does not name, and a
\* status "", are those of the current row.
Entry == [id : Ids, names : SUBSET Fields, status : {"", "active", "deprecated"}]
Batches == Seq(Entry) \ {<<>>}

ASSUME SkillMemoryAssumption ==
  /\ IsFiniteSet(Calls)
  /\ Nobody \notin Calls
  /\ Writes \subseteq Batches
  /\ Updates \subseteq Batches
  /\ Budget \in Nat

VARIABLES
  rows,       (* the table MemoryEntry                                     *)
  at,         (* where each call is: "idle", "embedding" or how it ended   *)
  tool,       (* what each call does                                       *)
  todo,       (* the entries a call has still to store                     *)
  copy,       (* the rows as a call has read them (`existing`)             *)
  mutations,  (* the mutations a call will return                          *)
  audit,      (* memory_mutations of the mission                           *)
  used,       (* memory_tool_calls_used                                    *)
  (* History; no action reads them to decide: *)
  changes,    (* every change made to the table                            *)
  overtaken,  (* ids that changed since a suspended call read the rows     *)
  raced,      (* ids that were stored from an overtaken copy               *)
  intended    (* the rows, had every update changed just what it names     *)

progress == <<at, tool, todo, copy, mutations>>
history  == <<changes, overtaken, raced, intended>>
vars     == <<rows, progress, audit, used, history>>

Tools == {"write", "update", "deprecate", "search", "read"}

Change(c, i, action) == [by |-> c, id |-> i, action |-> action]

-----------------------------------------------------------------------------
(* Parts of the tools *)

\* Every call is counted, and none refused.
ReservedAnyway == used' = used + 1

\* _reserve_skill_tool_call: no await between the check and the count.
Reserve == used < Budget /\ used' = used + 1

Begins(c, name) ==
  /\ at[c] = "idle"
  /\ tool' = [tool EXCEPT ![c] = name]

\* The call returns: its mutations go into the audit.
Returns(c, made) ==
  /\ at' = [at EXCEPT ![c] = "returned"]
  /\ audit' = audit \cup made

\* An exception leaves the tool, and with it the mutations so far.
Raises(c) ==
  /\ at' = [at EXCEPT ![c] = "raised"]
  /\ UNCHANGED audit

\* Whoever is suspended now works on an old copy of these rows.
Overtake(ids) ==
  overtaken' = [c \in Calls |-> IF at[c] = "embedding" THEN overtaken[c] \cup ids ELSE {}]

\* What an entry of an update asks for.
Patched(row, c, entry) ==
  [status |-> IF entry.status # "" THEN entry.status ELSE row.status,
   title  |-> IF "title" \notin entry.names THEN row.title ELSE c,
   body   |-> IF "body" \notin entry.names THEN row.body ELSE c]

\* The fields that the entry does not name are emptied.
Replaced(row, c, entry) ==
  [status |-> IF entry.status = "" THEN row.status ELSE entry.status,
   title  |-> IF "title" \in entry.names THEN c ELSE Nobody,
   body   |-> IF "body" \in entry.names THEN c ELSE Nobody]

\* An entry without a status makes the skill active.
Revived(row, c, entry) ==
  [status |-> IF entry.status = "" THEN "active" ELSE entry.status,
   title  |-> IF "title" \in entry.names THEN c ELSE row.title,
   body   |-> IF "body" \in entry.names THEN c ELSE row.body]

\* The row that an update stores, from the copy and the entry: every column of it.
Merged(row, c, entry) ==
  [status |-> IF entry.status = "" THEN row.status ELSE entry.status,
   title  |-> IF "title" \in entry.names THEN c ELSE row.title,
   body   |-> IF "body" \in entry.names THEN c ELSE row.body]

New(c, entry) ==
  [status |-> IF entry.status = "" THEN "active" ELSE entry.status, title |-> c, body |-> c]

\* A change is in the audit as soon as it is made.
AuditAtOnce(c, change) ==
  /\ mutations' = [mutations EXCEPT ![c] = @ \cup {change}]
  /\ todo' = [todo EXCEPT ![c] = Tail(@)]
  /\ audit' = audit \cup {change}
  /\ at' = [at EXCEPT ![c] = IF Len(todo[c]) = 1 THEN "returned" ELSE @]

\* The loop does not leave the entry behind.
StoredAgain(c, change) ==
  /\ mutations' = [mutations EXCEPT ![c] = @ \cup {change}]
  /\ UNCHANGED <<todo, at, audit>>

\* The entry is done with.  After the last one the tool records what the manager returns; the
\* next one may have a confidence that float() refuses, which ends the call there.
Stored(c, change) ==
  /\ mutations' = [mutations EXCEPT ![c] = @ \cup {change}]
  /\ todo' = [todo EXCEPT ![c] = Tail(@)]
  /\ \/ Len(todo[c]) = 1 /\ Returns(c, mutations'[c])
     \/ Len(todo[c]) > 1 /\ UNCHANGED <<at, audit>>
     \/ Len(todo[c]) > 1 /\ Raises(c)

-----------------------------------------------------------------------------
(* The tools *)

\* Every tool, when the budget is used up.
Blocked(c) ==
  /\ used >= Budget
  /\ \E name \in Tools : Begins(c, name)
  /\ at' = [at EXCEPT ![c] = "blocked"]
  /\ UNCHANGED <<rows, todo, copy, mutations, audit, used, history>>

\* Every tool when it has nothing to wait for: skill_read; a search with no query or no active
\* skill; no entry, or none that is complete or found, to store or to deprecate.  An entry with a
\* confidence that is no number raises at once.
EndsAtOnce(c) ==
  /\ Reserve
  /\ \/ /\ \E name \in Tools : Begins(c, name)
        /\ Returns(c, {})
     \/ /\ \E name \in {"write", "update"} : Begins(c, name)
        /\ Raises(c)
  /\ UNCHANGED <<rows, todo, copy, mutations, history>>

\* skill_write and skill_update up to the first embedding.  The batch has the entries that the
\* code does not skip: those with a title and a body, or those that are found.
BeginBatch(c, name, batch) ==
  /\ Reserve
  /\ Begins(c, name)
  /\ name = "update" => \A k \in DOMAIN batch : rows[batch[k].id].status # "absent"
  /\ at' = [at EXCEPT ![c] = "embedding"]
  /\ todo' = [todo EXCEPT ![c] = batch]
  /\ copy' = [copy EXCEPT ![c] = rows]
  /\ UNCHANGED <<rows, mutations, audit, history>>

\* skill_search up to the embedding of its query.
BeginSearch(c) ==
  /\ Reserve
  /\ Begins(c, "search")
  /\ \E i \in Ids : rows[i].status = "active"
  /\ at' = [at EXCEPT ![c] = "embedding"]
  /\ copy' = [copy EXCEPT ![c] = rows]
  /\ UNCHANGED <<rows, todo, mutations, audit, history>>

\* write_entries, after an embedding: one new row.
WriteOne(c) ==
  LET entry == Head(todo[c]) IN
  /\ at[c] = "embedding" /\ tool[c] = "write"
  /\ rows[entry.id].status = "absent"
  /\ rows' = [rows EXCEPT ![entry.id] = New(c, entry)]
  /\ intended' = [intended EXCEPT ![entry.id] = New(c, entry)]
  /\ changes' = changes \cup {Change(c, entry.id, "write")}
  /\ Stored(c, Change(c, entry.id, "write"))
  /\ Overtake({entry.id})
  /\ UNCHANGED <<tool, copy, used, raced>>

\* The id of a new skill is taken, or the database fails otherwise.
StoreRaises(c) ==
  /\ at[c] = "embedding" /\ tool[c] \in {"write", "update"}
  /\ Raises(c)
  /\ UNCHANGED <<rows, tool, todo, copy, mutations, used, history>>

\* update_entries, after an embedding: every column of the row is set.
UpdateOne(c) ==
  LET entry == Head(todo[c]) IN
  /\ at[c] = "embedding" /\ tool[c] = "update"
  /\ rows' = [rows EXCEPT ![entry.id] = Merged(copy[c][entry.id], c, entry)]
  /\ intended' = [intended EXCEPT ![entry.id] = Patched(@, c, entry)]
  /\ raced' = IF entry.id \in overtaken[c] THEN raced \cup {entry.id} ELSE raced
  /\ changes' = changes \cup {Change(c, entry.id, "update")}
  /\ Stored(c, Change(c, entry.id, "update"))
  /\ Overtake({entry.id})
  /\ UNCHANGED <<tool, copy, used>>

\* The row of a skill that is given up.
GivenUp(row) == [row EXCEPT !.status = "deprecated"]

\* skill_deprecate, without an await.  The database may fail after these ids.
Deprecate(c, ids) ==
  LET made  == {Change(c, i, "deprecate") : i \in ids}
      after(table) == [i \in Ids |-> IF i \in ids THEN GivenUp(table[i]) ELSE table[i]]
  IN  /\ Reserve
      /\ Begins(c, "deprecate")
      /\ \A i \in ids : rows[i].status # "absent"
      /\ rows' = after(rows)
      /\ intended' = after(intended)
      /\ changes' = changes \cup made
      /\ mutations' = [mutations EXCEPT ![c] = made]
      /\ Returns(c, made) \/ Raises(c)
      /\ Overtake(ids)
      /\ UNCHANGED <<todo, copy, raced>>

\* The skills are ranked and returned, as they were read.
SearchEnds(c) ==
  /\ at[c] = "embedding" /\ tool[c] = "search"
  /\ Returns(c, {})
  /\ UNCHANGED <<rows, tool, todo, copy, mutations, used, history>>

\* The agent's run is cancelled: by its timeout, or with the mission.
Cancelled(c) ==
  /\ at[c] = "embedding"
  /\ at' = [at EXCEPT ![c] = "cancelled"]
  /\ UNCHANGED <<rows, tool, todo, copy, mutations, audit, used, history>>

-----------------------------------------------------------------------------

Init ==
  /\ rows \in [Ids -> {Absent, [Absent EXCEPT !.status = "active"]}]
  /\ at = [c \in Calls |-> "idle"]
  /\ tool = [c \in Calls |-> "none"]
  /\ todo = [c \in Calls |-> <<>>]
  /\ copy = [c \in Calls |-> [i \in Ids |-> Absent]]
  /\ mutations = [c \in Calls |-> {}]
  /\ audit = {}
  /\ used = 0
  /\ changes = {}
  /\ overtaken = [c \in Calls |-> {}]
  /\ raced = {}
  /\ intended = rows

Begin(c) ==
  \/ Blocked(c) \/ EndsAtOnce(c) \/ BeginSearch(c)
  \/ \E batch \in Writes : BeginBatch(c, "write", batch)
  \/ \E batch \in Updates : BeginBatch(c, "update", batch)
  \/ \E ids \in (SUBSET Ids) \ {{}} : Deprecate(c, ids)

\* An embedding request has ended, or is given up.
Resume(c) == WriteOne(c) \/ UpdateOne(c) \/ StoreRaises(c) \/ SearchEnds(c) \/ Cancelled(c)

Next == \E c \in Calls : Begin(c) \/ Resume(c)

Fairness == \A c \in Calls : WF_vars(Resume(c))

Spec == Init /\ [][Next]_vars /\ Fairness

-----------------------------------------------------------------------------
(* Properties *)

Ended == {"returned", "raised", "blocked", "cancelled"}

TypeOK ==
  /\ rows \in [Ids -> Row]
  /\ at \in [Calls -> Ended \cup {"idle", "embedding"}]
  /\ tool \in [Calls -> Tools \cup {"none"}]
  /\ todo \in [Calls -> Seq(Entry)]
  /\ copy \in [Calls -> [Ids -> Row]]
  /\ used \in 0 .. Budget
  /\ overtaken \in [Calls -> SUBSET Ids]
  /\ raced \subseteq Ids
  /\ intended \in [Ids -> Row]

\* What the trace will say of the skills is what the calls that returned have done to them: the
\* audit has all of that and nothing else.  A call that raised in the middle of its batch, or was
\* cancelled, has left changes in the table that the audit does not have.
AuditIsOfReturnedCalls == audit = {ch \in changes : at[ch.by] = "returned"}

\* Nothing is written to a skill but what some call meant to write: its title, body and status
\* are what the updates have named and the deprecations have set, one after the other, unless an
\* update stored it from a copy that others, or its own batch, had overtaken.
UpdatesAddUp == \A i \in Ids \ raced : rows[i] = intended[i]

\* A skill that was deprecated is active again only because an entry has said so, or because an
\* update had read it before the deprecation and wrote it back after.
DeprecationsStick ==
  [][\A i \in Ids \ raced' :
       rows[i].status = "deprecated" /\ rows'[i].status = "active" =>
         \E c \in Calls : /\ at[c] = "embedding"
                          /\ Head(todo[c]).id = i
                          /\ Head(todo[c]).status = "active"]_vars

\* The mission's budget bounds the calls that reach the memory, however many run in parallel.
AdmittedCalls == {c \in Calls : at[c] \notin {"idle", "blocked"}}
BudgetHolds == Cardinality(AdmittedCalls) <= Budget

\* A call that waits for an embedding ends, however many entries it has to store.
EveryCallEnds == \A c \in Calls : at[c] = "embedding" ~> at[c] \in Ended
=============================================================================
