----------------------------- MODULE ToolCalls -----------------------------
(***************************************************************************)
(* The calls that one mission's agent makes to its tools and the state     *)
(* they share, the RuntimeContext: the working memory and its compression  *)
(* (compression_tools.py, context_compression.py), the web budget          *)
(* (web_tools.py), the checkpoint and the audit of graph mutations         *)
(* (db_tools.py), the browser (BrowserEngine), and the mission loop that   *)
(* starts and ends the runs of the agent (mission_service.py).             *)
(*                                                                         *)
(* The calls of one response run as parallel tasks.  When one raises, the  *)
(* run is over; pydantic-ai, which is external, then leaves the other      *)
(* tasks running or cancels them.  A call runs to its next await in one    *)
(* action; queries, fetches and web_search block the event loop.           *)
(*                                                                         *)
(* A finding bears the name of the call that made it.  A summary stands    *)
(* for the findings that the summariser was given, and sizes are left out: *)
(* a successful call may or may not find the memory too large.             *)
(***************************************************************************)
EXTENDS BrowserEngine, Naturals, FiniteSets

CONSTANTS
  Loop,         (* the mission loop, which summarises after an overflow    *)
  WebBudget,    (* web_tool_call_budget                                    *)
  Plans,        (* bound: what the calls may be to                         *)
  MaxRetries    (* bound: close() is tried again; 2 times in the code      *)

Tools == {"read", "write", "open", "text", "clean"}

ASSUME ToolCallsAssumption ==
  /\ IsFiniteSet(Calls)
  /\ Loop \notin Calls \cup {Nothing}
  /\ WebBudget \in Nat
  /\ Plans \subseteq [Calls -> Tools]
  /\ MaxRetries \in Nat

VARIABLES
  tool,         (* the tool of each call                                   *)
  memory,       (* the findings in the working memory                      *)
  compressed,   (* compressed_memory: the findings it stands for           *)
  inProgress,   (* compression_in_progress                                 *)
  shown,        (* what each summariser was given                          *)
  used,         (* web_tool_calls_used                                     *)
  graph,        (* the calls whose mutations are in the graph              *)
  checkpoint,   (* the graph as it was checkpointed, or {Nothing}          *)
  audit,        (* db_mutations                                            *)
  loop,         (* the mission: a run of the agent, a refresh, an overflow *)
                (* being summarised, the two waits of close(), or "over"   *)
  closes,       (* how often close() will still be called                  *)
  orphans,      (* calls whose run was over before they ended              *)
  (* History; no action reads them to decide: *)
  found,        (* every finding                                           *)
  raced,        (* findings made while a summariser worked                 *)
  late          (* findings made since the last compression                *)

memoryVars  == <<memory, compressed, inProgress, shown, found, raced, late>>
graphVars   == <<graph, checkpoint, audit>>
browserVars == <<fields, drivers, stopping, excused>>
loopVars    == <<loop, closes, orphans>>
vars        == <<at, tool, used, memoryVars, graphVars, browserVars, loopVars>>

Waits   == StartSteps \cup {"extract", "compressing"}
Ends    == {"returned", "raised", "blocked", "cancelled"}
Waiting == {c \in Calls : at[c] \in Waits}

-----------------------------------------------------------------------------
(* Working memory *)

\* A finding is appended.
Record(c) ==
  /\ memory' = memory \cup {c}
  /\ found' = found \cup {c}
  /\ raced' = IF inProgress THEN raced \cup {c} ELSE raced
  /\ late' = late \cup {c}

\* The flag is not looked at.
MayCompressTwice == TRUE

MayCompress == ~inProgress

\* compress(), up to the request to the summariser.
BeginCompression(who) ==
  /\ MayCompress
  /\ inProgress' = TRUE
  /\ shown' = [shown EXCEPT ![who] = memory']

\* maybe_auto_compress, after a success: the memory is large or it is not.
Returns(c) ==
  \/ /\ Moves(c, "returned")
     /\ UNCHANGED <<inProgress, shown>>
  \/ /\ Moves(c, "compressing")
     /\ BeginCompression(c)

\* _apply_compressed_memory: the working memory becomes the summary.
Apply(who) ==
  /\ memory' = shown[who]
  /\ compressed' = shown[who]
  /\ late' = {}

-----------------------------------------------------------------------------
(* A call, up to its first await *)

Begins(c, name) ==
  /\ loop = "run"
  /\ at[c] = "idle"
  /\ tool[c] = name
  /\ UNCHANGED tool

\* Calls are counted and not refused.
ReservedAnyway == used' = used + 1

\* _reserve_web_tool_call
Reserve == used < WebBudget /\ used' = used + 1

\* The refusal is a note in the memory.
Blocked(c) ==
  /\ used >= WebBudget
  /\ \E name \in {"open", "text"} : Begins(c, name)
  /\ Record(c)
  /\ Moves(c, "blocked")
  /\ UNCHANGED <<used, compressed, inProgress, shown, graphVars, browserVars, loopVars>>

\* read_graph and inspect_schema, which record their failures as well.  The query of read_graph is
\* executed as it is, and may be a mutation.
Read(c) ==
  /\ Begins(c, "read")
  /\ Record(c)
  /\ graph' \in {graph, graph \cup {c}}
  /\ \/ Returns(c)
     \/ Moves(c, "returned") /\ UNCHANGED <<inProgress, shown>>
  /\ UNCHANGED <<used, compressed, checkpoint, audit, browserVars, loopVars>>

\* The copy is made when the mutation has been executed.
CopiedAfter(c) == checkpoint' = IF checkpoint = {Nothing} THEN graph' ELSE checkpoint

\* write_graph copies the database before the first mutation it makes.
Copied(c) == checkpoint' = IF checkpoint = {Nothing} THEN graph ELSE checkpoint

\* write_graph, whose query has been executed and the database closed and opened again.
Executed(c) ==
  /\ graph' = graph \cup {c}
  /\ audit' = audit \cup {c}
  /\ UNCHANGED <<memory, found, raced, late>>
  /\ Returns(c)

\* The query fails, perhaps after some of its statements, or the sync does.
Refused(c) ==
  /\ graph' \in {graph, graph \cup {c}}
  /\ UNCHANGED audit
  /\ Record(c)
  /\ Moves(c, "returned")
  /\ UNCHANGED <<inProgress, shown>>

\* A copy that fails ends the mission: see End.
Write(c) ==
  /\ Begins(c, "write")
  /\ Executed(c) \/ Refused(c)
  /\ Copied(c)
  /\ UNCHANGED <<used, compressed, browserVars, loopVars>>

\* browser_open: a request that is not valid, or no url that can be fetched, records nothing.
Open(c) ==
  /\ Reserve
  /\ Begins(c, "open")
  /\ \/ Record(c) /\ Returns(c)
     \/ /\ Moves(c, "returned")
        /\ UNCHANGED <<memory, inProgress, shown, found, raced, late>>
  /\ UNCHANGED <<compressed, graphVars, browserVars, loopVars>>

\* browser_text
Text(c) ==
  /\ Reserve
  /\ Begins(c, "text")
  /\ RequirePage(c)
  /\ UNCHANGED <<memoryVars, graphVars, loopVars>>

\* clean_context
Clean(c) ==
  /\ Begins(c, "clean")
  /\ UNCHANGED memory
  /\ \/ /\ inProgress
        /\ Moves(c, "returned")
        /\ UNCHANGED <<inProgress, shown>>
     \/ /\ Moves(c, "compressing")
        /\ BeginCompression(c)
  /\ UNCHANGED <<used, compressed, found, raced, late, graphVars, browserVars, loopVars>>

Begin(c) == Blocked(c) \/ Read(c) \/ Write(c) \/ Open(c) \/ Text(c) \/ Clean(c)

-----------------------------------------------------------------------------
(* A call, from await to await *)

Starts(c) ==
  /\ EngineStep(c)
  /\ UNCHANGED <<tool, used, memoryVars, graphVars, loopVars>>

Extracts(c) ==
  /\ at[c] = "extract"
  /\ Record(c)
  /\ Returns(c)
  /\ UNCHANGED <<tool, used, compressed, graphVars, browserVars, loopVars>>

\* The summary is there: the memory is replaced and ContextRefreshRequested raised, which ends
\* the run that the call belongs to.
Compresses(c) ==
  /\ at[c] = "compressing"
  /\ Apply(c)
  /\ inProgress' = FALSE
  /\ Moves(c, "raised")
  /\ IF c \in orphans THEN UNCHANGED <<loop, orphans>>
     ELSE loop' = "refresh" /\ orphans' = orphans \cup (Waiting \ {c})
  /\ UNCHANGED <<tool, used, shown, found, raced, closes, graphVars, browserVars>>

\* The flag is left as it is when the summariser fails.
FlagIsLeft(c) ==
  /\ at[c] = "compressing"
  /\ Moves(c, "returned")
  /\ UNCHANGED <<tool, used, memoryVars, graphVars, browserVars, loopVars>>

\* No answer in time, or none that is a summary: the memory is as it was.
CompressionFails(c) ==
  /\ at[c] = "compressing"
  /\ inProgress' = FALSE
  /\ Moves(c, "returned")
  /\ UNCHANGED <<tool, used, memory, compressed, shown, found, raced, late>>
  /\ UNCHANGED <<graphVars, browserVars, loopVars>>

\* A task whose run is over may be cancelled.  The driver it was starting may run on.
Cancelled(c) ==
  /\ c \in orphans /\ at[c] \in Waits
  /\ Moves(c, "cancelled")
  /\ inProgress' = (inProgress /\ at[c] # "compressing")
  /\ drivers' \in IF at[c] = "driver" THEN {drivers, drivers \cup {c}} ELSE {drivers}
  /\ excused' = IF at[c] = "driver" THEN excused \cup {c} ELSE excused
  /\ UNCHANGED <<tool, used, memory, compressed, shown, found, raced, late>>
  /\ UNCHANGED <<fields, stopping, graphVars, loopVars>>

Resume(c) == Starts(c) \/ Extracts(c) \/ Compresses(c) \/ CompressionFails(c) \/ Cancelled(c)

-----------------------------------------------------------------------------
(* The mission loop *)

\* After a refresh: build_handoff_prompt, then the next run of the agent.  Once there has been a
\* compression the transfer packet has the compressed memory and not the working memory.
Handoff ==
  /\ loop = "refresh"
  /\ loop' = "run"
  /\ UNCHANGED <<at, tool, used, memoryVars, closes, orphans, graphVars, browserVars>>

\* The model refuses a prompt as too long, which it does between responses.
Overflows ==
  /\ loop = "run"
  /\ Waiting \subseteq orphans
  /\ loop' = "overflow"
  /\ UNCHANGED memory
  /\ BeginCompression(Loop)
  /\ UNCHANGED <<at, tool, used, compressed, found, raced, late>>
  /\ UNCHANGED <<closes, orphans, graphVars, browserVars>>

Recovers ==
  /\ loop = "overflow"
  /\ Apply(Loop)
  /\ inProgress' = FALSE
  /\ loop' = "run"
  /\ UNCHANGED <<at, tool, used, shown, found, raced, closes, orphans, graphVars, browserVars>>

\* The mission ends: with an answer, an error (an overflow that is not recovered from, a timeout,
\* an exception of a tool) or a cancellation.  close() is called up to three times if it raises.
End ==
  /\ loop \in {"run", "refresh", "overflow"}
  /\ loop' = ClosesTo("over")
  /\ closes' \in 0 .. MaxRetries
  /\ StopsAt(loop')
  /\ orphans' = orphans \cup Waiting
  /\ inProgress' = (inProgress /\ loop # "overflow")
  /\ excused' = excused \cup {c \in Calls : at[c] = "driver"}
  /\ UNCHANGED <<at, tool, used, memory, compressed, shown, found, raced, late>>
  /\ UNCHANGED <<fields, drivers, graphVars>>

BrowserCloses ==
  /\ loop = "closing"
  /\ loop' = "stopping"
  /\ StopsAt("stopping")
  /\ UNCHANGED <<at, tool, used, memoryVars, graphVars, fields, drivers, excused, closes, orphans>>

DriverStopped ==
  /\ loop = "stopping"
  /\ DriverStops
  /\ loop' = "over"
  /\ UNCHANGED <<at, tool, used, memoryVars, graphVars, excused, closes, orphans>>

CloseFails ==
  /\ loop \in {"closing", "stopping"}
  /\ CloseRaises(closes = 0)
  /\ loop' = IF closes = 0 THEN "over" ELSE ClosesTo("over")
  /\ StopsAt(loop')
  /\ closes' = IF closes = 0 THEN 0 ELSE closes - 1
  /\ UNCHANGED <<at, tool, used, memoryVars, graphVars, orphans>>

Init ==
  /\ EngineInit
  /\ at = [c \in Calls |-> "idle"]
  /\ tool \in Plans
  /\ used = 0
  /\ memory = {} /\ compressed = {}
  /\ inProgress = FALSE
  /\ shown = [who \in Calls \cup {Loop} |-> {}]
  /\ graph = {} /\ checkpoint = {Nothing} /\ audit = {}
  /\ loop = "run" /\ closes = 0 /\ orphans = {}
  /\ found = {} /\ raced = {} /\ late = {}

LoopStep == Handoff \/ Recovers \/ BrowserCloses \/ DriverStopped \/ CloseFails

Next ==
  \/ \E c \in Calls : Begin(c) \/ Resume(c)
  \/ LoopStep \/ Overflows \/ End

\* Requests to models time out, and Playwright's answers are taken for granted.
Fairness == WF_vars(LoopStep) /\ \A c \in Calls : WF_vars(Resume(c))

Spec == Init /\ [][Next]_vars /\ Fairness

-----------------------------------------------------------------------------
(* Properties *)

TypeOK ==
  /\ EngineTypeOK
  /\ at \in [Calls -> Waits \cup Ends \cup {"idle"}]
  /\ tool \in [Calls -> Tools]
  /\ used \in 0 .. WebBudget
  /\ memory \subseteq Calls /\ compressed \subseteq Calls
  /\ inProgress \in BOOLEAN
  /\ shown \in [Calls \cup {Loop} -> SUBSET Calls]
  /\ graph \subseteq Calls /\ audit \subseteq Calls
  /\ checkpoint \in (SUBSET Calls) \cup {{Nothing}}
  /\ loop \in {"run", "refresh", "overflow", "closing", "stopping", "over"}
  /\ closes \in 0 .. MaxRetries
  /\ orphans \subseteq Calls
  /\ found \subseteq Calls /\ raced \subseteq Calls /\ late \subseteq Calls

\* What the tools find is not forgotten: it is in the working memory, as it was or summarised,
\* and in what the summary says for the next run, unless it was found while a summariser worked,
\* or, for the next run, since.  So a second summary never replaces one that it has not read, and
\* a task left over from an earlier run brings no old memory back.
FindingsAreKept ==
  /\ found \ raced \subseteq memory
  /\ found \ (raced \cup late) \subseteq compressed

\* Every mutation of the graph is in the audit, except for those of write_graph that it reports
\* as failed and those that read_graph was given to execute; and the checkpoint, which is there
\* as soon as write_graph has mutated anything, has none of write_graph's mutations in it.
Writers == {c \in Calls : tool[c] = "write"}
MutationsAreAccountedFor ==
  /\ audit \subseteq graph \cap Writers
  /\ \A c \in (graph \cap Writers) \ audit : c \in found
  /\ checkpoint = {Nothing} => graph \cap Writers = {}
  /\ checkpoint \cap Writers = {}

\* When the mission is over its browser is gone, except for drivers of calls that started one
\* while another was starting, that a later start has overwritten after their launch failed or was
\* cancelled, that no field named yet when their start was cancelled or the mission ended, or on
\* which close() itself has failed to the end.  A failed launch alone leaves no driver, and neither
\* does a mission that ends while a browser or a page is being opened.
NoDriverIsLeft == loop = "over" => drivers \subseteq excused

\* A call that waits, for the browser or a summary, ends, whatever happens to its run; the flag
\* that keeps other summarisers out comes down; and close() ends.
EveryWaitEnds ==
  /\ \A c \in Calls : at[c] \in Waits ~> at[c] \in Ends
  /\ inProgress ~> ~inProgress
  /\ loop \in {"closing", "stopping"} ~> loop = "over"

\* However many calls run in parallel, the budget bounds those that reach the web.
WebCalls == {c \in Calls : tool[c] \in {"open", "text"} /\ at[c] \notin {"idle", "blocked"}}
WebBudgetHolds == Cardinality(WebCalls) <= WebBudget
=============================================================================
