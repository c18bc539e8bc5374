-------------------------- MODULE ToolCallsProofs --------------------------
(***************************************************************************)
(* Proofs about ToolCalls, for any number of parallel calls, any plans and *)
(* any budget.  The three things that the calls share are proved one by    *)
(* one: the memory (MemoryIsSound), the graph (MutationsAreAccountedFor is *)
(* inductive as it stands), the browser (DriversAreKnown).                 *)
(*                                                                         *)
(* Memory: there is one summariser exactly when the flag is up, and it was *)
(* given every finding that was not made since.  Browser: a driver without *)
(* an excuse is the one the field names, and nobody is about to overwrite  *)
(* that field.  At the end: how many awaits there can still be.            *)
(***************************************************************************)
EXTENDS ToolCalls, FiniteSetTheorems, TLAPS

Summarisers    == Calls \cup {Loop}
Summarising(w) == IF w = Loop THEN loop = "overflow" ELSE at[w] = "compressing"

\* The flag stands for one summariser, who knows all findings but those made meanwhile.
MemoryIsSound ==
  /\ \A v, w \in Summarisers : Summarising(v) /\ Summarising(w) => v = w
  /\ inProgress <=> \E w \in Summarisers : Summarising(w)
  /\ \A w \in Summarisers : Summarising(w) => found \ raced \subseteq shown[w]
  /\ FindingsAreKept

AtTheEnd == loop \in {"closing", "stopping", "over"}

\* Who starts a driver without an excuse starts alone, while the mission runs; and a driver
\* without an excuse is the one that close() will find.
DriversAreKnown ==
  /\ \A c \in Starting \ excused : Starting = {c}
  /\ AtTheEnd => \A c \in Calls : at[c] = "driver" => c \in excused
  /\ \A d \in drivers \ excused : playwright = d
  /\ (\E c \in Calls : at[c] = "driver") => drivers \subseteq excused
  /\ loop = "stopping" => drivers \ excused \subseteq {stopping}
  /\ NoDriverIsLeft

\* Every call that was let through to the web is counted once.
WebCallsAreCounted == used = Cardinality(WebCalls)

IInv ==
  /\ TypeOK
  /\ MemoryIsSound
  /\ MutationsAreAccountedFor
  /\ DriversAreKnown
  /\ WebCallsAreCounted

-----------------------------------------------------------------------------

\* Nothing has been called, found or started.
LEMMA InitInvariant == Init => IInv
  <1> SUFFICES ASSUME Init PROVE IInv
    OBVIOUS
  <1>a. tool \in [Calls -> Tools] /\ used \in 0 .. WebBudget /\ closes \in 0 .. MaxRetries
    BY ToolCallsAssumption DEF Init
  <1>b. EngineTypeOK
    BY DEF Init, EngineInit, EngineTypeOK
  <1>c. checkpoint \in (SUBSET Calls) \cup {{Nothing}}
    <2>1. checkpoint = {Nothing}
      BY DEF Init
    <2> QED
      BY <2>1
  <1>d. at \in [Calls -> Waits \cup Ends \cup {"idle"}] /\ shown \in [Calls \cup {Loop} -> SUBSET Calls]
    BY DEF Init
  <1>1. TypeOK
    BY <1>a, <1>b, <1>c, <1>d DEF Init, TypeOK
  <1>2. MemoryIsSound
    BY ToolCallsAssumption DEF Init, MemoryIsSound, Summarisers, Summarising, FindingsAreKept
  <1>3. MutationsAreAccountedFor
    BY BrowserAssumption DEF Init, MutationsAreAccountedFor, Writers
  <1>4. DriversAreKnown
    BY DEF Init, EngineInit, DriversAreKnown, Starting, StartSteps, AtTheEnd, NoDriverIsLeft
  <1>5. WebCalls = {}
    BY DEF Init, WebCalls
  <1>6. WebCallsAreCounted
    BY <1>5, FS_EmptySet DEF Init, WebCallsAreCounted
  <1> QED
    BY <1>1, <1>2, <1>3, <1>4, <1>6 DEF IInv

-----------------------------------------------------------------------------
(* What the actions have in common *)

Step(c) == Begin(c) \/ Resume(c)

\* A call begins while the agent runs, waits here and there and ends, and keeps its tool.
LEMMA OneCallMoves ==
  ASSUME TypeOK, NEW c \in Calls, Step(c)
  PROVE  /\ at' = [at EXCEPT ![c] = at'[c]]
         /\ at'[c] \in Waits \cup Ends
         /\ at[c] \in Waits \cup {"idle"}
         /\ at[c] = "idle" => loop = "run"
         /\ UNCHANGED tool
         /\ loop' = loop \/ (loop' = "refresh" /\ at[c] = "compressing")
  <1> USE DEF Waits, Ends, StartSteps, Moves
  <1>1. CASE Begin(c)
    <2>1. CASE Blocked(c)
      BY <2>1 DEF Blocked, Begins, TypeOK, loopVars
    <2>2. CASE Read(c) \/ Write(c) \/ Open(c) \/ Clean(c)
      BY <2>2 DEF Read, Write, Open, Clean, Executed, Refused, Begins, Returns, TypeOK, loopVars
    <2>3. CASE Text(c)
      BY <2>3 DEF Text, RequirePage, Begins, TypeOK, loopVars
    <2> QED
      BY <1>1, <2>1, <2>2, <2>3 DEF Begin
  <1>2. CASE Starts(c)
    BY <1>2 DEF Starts, EngineStep, DriverStarts, Launches, PageOpens, EngineFails, TypeOK, loopVars
  <1>3. CASE Extracts(c) \/ Compresses(c) \/ CompressionFails(c) \/ Cancelled(c)
    BY <1>3 DEF Extracts, Compresses, CompressionFails, Cancelled, Returns, TypeOK, loopVars
  <1> QED
    BY <1>1, <1>2, <1>3 DEF Step, Resume

\* The budget is taken by the calls that go to the web, one each.
LEMMA CountStep ==
  ASSUME IInv, NEW c \in Calls, Step(c)
  PROVE  WebCallsAreCounted' /\ used' \in 0 .. WebBudget
  <1> USE DEF IInv
  <1>0. /\ at' = [at EXCEPT ![c] = at'[c]] /\ at'[c] \in Waits \cup Ends /\ UNCHANGED tool
        /\ at[c] \in Waits \cup {"idle"}
    BY OneCallMoves
  <1>1. IsFiniteSet(WebCalls)
    BY ToolCallsAssumption, FS_Subset DEF WebCalls
  <1>2. used \in 0 .. WebBudget /\ used = Cardinality(WebCalls) /\ WebBudget \in Nat
    BY ToolCallsAssumption DEF TypeOK, WebCallsAreCounted
  <1>3. ASSUME UNCHANGED used, c \in WebCalls' <=> c \in WebCalls
        PROVE  WebCallsAreCounted' /\ used' \in 0 .. WebBudget
    <2>1. WebCalls' = WebCalls
      BY <1>0, <1>3 DEF WebCalls, TypeOK
    <2> QED
      BY <1>2, <1>3, <2>1 DEF WebCallsAreCounted
  <1>4. CASE Open(c) \/ Text(c)
    <2>1. /\ used < WebBudget /\ used' = used + 1 /\ tool[c] \in {"open", "text"}
          /\ at[c] = "idle" /\ at'[c] # "blocked"
      <3>1. CASE Open(c)
        BY <3>1 DEF Open, Reserve, Begins, Returns, Moves, TypeOK
      <3>2. CASE Text(c)
        BY <3>2 DEF Text, Reserve, Begins, RequirePage, Moves, TypeOK
      <3> QED
        BY <1>4, <3>1, <3>2
    <2>2. WebCalls' = WebCalls \cup {c} /\ c \notin WebCalls
      <3>1. at'[c] \notin {"idle", "blocked"}
        BY <1>0, <2>1 DEF Waits, Ends, StartSteps
      <3>2. \A d \in Calls : d # c => at'[d] = at[d]
        BY <1>0 DEF TypeOK
      <3> QED
        BY <1>0, <2>1, <3>1, <3>2 DEF WebCalls
    <2>3. Cardinality(WebCalls') = Cardinality(WebCalls) + 1
      BY <1>1, <2>2, FS_AddElement
    <2>4. used < WebBudget /\ used' = used + 1
      BY <2>1
    <2> QED
      BY <1>2, <2>3, <2>4 DEF WebCallsAreCounted
  <1>5. CASE Blocked(c)
    BY <1>0, <1>3, <1>5 DEF Blocked, Moves, Begins, WebCalls, TypeOK
  <1>6. CASE Read(c) \/ Write(c) \/ Clean(c)
    <2>1. UNCHANGED used /\ tool[c] \in {"read", "write", "clean"}
      BY <1>6 DEF Read, Write, Clean, Begins
    <2> QED
      BY <1>0, <1>3, <2>1 DEF WebCalls
  <1>7. CASE Resume(c)
    <2>1. UNCHANGED used /\ at[c] \in Waits /\ at'[c] # "blocked"
      <3>1. CASE Starts(c)
        BY <3>1 DEF Starts, EngineStep, DriverStarts, Launches, PageOpens, EngineFails, Moves, TypeOK,
                    Waits, StartSteps
      <3>2. CASE Extracts(c) \/ Compresses(c) \/ CompressionFails(c) \/ Cancelled(c)
        BY <3>2 DEF Extracts, Compresses, CompressionFails, Cancelled, Returns, Moves, TypeOK, Waits
      <3> QED
        BY <1>7, <3>1, <3>2 DEF Resume
    <2>2. at[c] \notin {"idle", "blocked"} /\ at'[c] \notin {"idle", "blocked"}
      BY <1>0, <2>1 DEF Waits, Ends, StartSteps
    <2> QED
      BY <1>0, <1>3, <2>1, <2>2 DEF WebCalls
  <1> QED
    BY <1>4, <1>5, <1>6, <1>7 DEF Step, Begin

-----------------------------------------------------------------------------
(* The memory *)

\* All but w go on, or not, as before.
OthersStay(w) == \A v \in Summarisers : v # w => (Summarising(v)' <=> Summarising(v))

\* Something may be found; then w may begin to summarise, if nobody does.
LEMMA AddsToMemory ==
  ASSUME TypeOK, MemoryIsSound, NEW w \in Summarisers, NEW c \in Calls, OthersStay(w),
         Record(c) \/ UNCHANGED <<memory, found, raced, late>>,
         UNCHANGED compressed,
         \/ (Summarising(w)' <=> Summarising(w)) /\ UNCHANGED <<inProgress, shown>>
         \/ Summarising(w)' /\ BeginCompression(w)
  PROVE  MemoryIsSound'
  <1>1. /\ found \ raced \subseteq memory
        /\ found \ (raced \cup late) \subseteq compressed
        /\ inProgress \in BOOLEAN
    BY DEF TypeOK, MemoryIsSound, FindingsAreKept
  <1>2. /\ found' \ raced' \subseteq memory'
        /\ found' \ (raced' \cup late') \subseteq compressed'
        /\ inProgress => found' \ raced' \subseteq found \ raced
    BY <1>1 DEF Record
  <1>3. CASE (Summarising(w)' <=> Summarising(w)) /\ UNCHANGED <<inProgress, shown>>
    <2>1. \A v \in Summarisers : Summarising(v)' <=> Summarising(v)
      BY <1>3 DEF OthersStay
    <2>2. \A v \in Summarisers : Summarising(v) => found' \ raced' \subseteq shown'[v]
      BY <1>2, <1>3 DEF MemoryIsSound
    <2> QED
      BY <1>2, <1>3, <2>1, <2>2 DEF MemoryIsSound, FindingsAreKept
  <1>4. CASE Summarising(w)' /\ BeginCompression(w)
    <2>1. ~inProgress /\ inProgress' /\ shown' = [shown EXCEPT ![w] = memory']
      BY <1>4 DEF BeginCompression, MayCompress
    <2>2. \A v \in Summarisers : ~Summarising(v)
      BY <2>1 DEF MemoryIsSound
    <2>3. \A v \in Summarisers : Summarising(v)' <=> v = w
      BY <1>4, <2>2 DEF OthersStay
    <2>4. shown'[w] = memory'
      BY <2>1 DEF TypeOK, Summarisers
    <2> QED
      BY <1>2, <2>1, <2>3, <2>4 DEF MemoryIsSound, FindingsAreKept
  <1> QED
    BY <1>3, <1>4

\* The summary of w replaces the memory.
LEMMA AppliesToMemory ==
  ASSUME TypeOK, MemoryIsSound, NEW w \in Summarisers, OthersStay(w), Summarising(w), ~Summarising(w)',
         Apply(w), inProgress' = FALSE, UNCHANGED <<shown, found, raced>>
  PROVE  MemoryIsSound'
  <1>1. found \ raced \subseteq shown[w]
    BY DEF MemoryIsSound
  <1>2. \A v \in Summarisers : ~Summarising(v)'
    BY DEF MemoryIsSound, OthersStay
  <1> QED
    BY <1>1, <1>2 DEF Apply, MemoryIsSound, FindingsAreKept

\* w stops without a summary, if it was summarising at all.
LEMMA MemoryIsLeft ==
  ASSUME TypeOK, MemoryIsSound, NEW w \in Summarisers, OthersStay(w), ~Summarising(w)',
         inProgress' = (inProgress /\ ~Summarising(w)),
         UNCHANGED <<memory, compressed, shown, found, raced, late>>
  PROVE  MemoryIsSound'
  <1>1. inProgress' \in BOOLEAN /\ inProgress \in BOOLEAN
    BY DEF TypeOK
  <1>2. \A v \in Summarisers : Summarising(v)' <=> Summarising(v) /\ v # w
    BY DEF OthersStay
  <1>3. inProgress' <=> \E v \in Summarisers : Summarising(v)'
    BY <1>1, <1>2 DEF MemoryIsSound
  <1> QED
    BY <1>2, <1>3 DEF MemoryIsSound, FindingsAreKept

\* What a call does to the memory, from await to await.
LEMMA CallKeepsMemory ==
  ASSUME IInv, NEW c \in Calls, Step(c)
  PROVE  MemoryIsSound'
  <1> USE DEF IInv
  <1>0. /\ at' = [at EXCEPT ![c] = at'[c]] /\ at'[c] \in Waits \cup Ends
        /\ at[c] \in Waits \cup {"idle"} /\ c \in Summarisers /\ c # Loop
        /\ loop' = loop \/ (loop' = "refresh" /\ at[c] = "compressing")
    BY OneCallMoves, ToolCallsAssumption DEF Summarisers
  <1>1. /\ Summarising(c) <=> at[c] = "compressing"
        /\ Summarising(c)' <=> at'[c] = "compressing"
    BY <1>0 DEF Summarising
  <1>2. ASSUME loop' = loop PROVE OthersStay(c)
    BY <1>0, <1>2 DEF OthersStay, Summarising, Summarisers, TypeOK
  <1>3. ASSUME NEW d \in Calls, at[c] # "compressing", UNCHANGED compressed,
               Record(c) \/ UNCHANGED <<memory, found, raced, late>>,
               \/ at'[c] # "compressing" /\ UNCHANGED <<inProgress, shown>>
               \/ at'[c] = "compressing" /\ BeginCompression(c)
        PROVE  MemoryIsSound'
    BY <1>0, <1>1, <1>2, <1>3, AddsToMemory
  <1>4. ASSUME Returns(c)
        PROVE  \/ at'[c] # "compressing" /\ UNCHANGED <<inProgress, shown>>
               \/ at'[c] = "compressing" /\ BeginCompression(c)
    BY <1>4 DEF Returns, Moves, TypeOK
  <1>5. CASE Begin(c)
    <2>1. at[c] = "idle"
      BY <1>5 DEF Begin, Blocked, Read, Write, Open, Text, Clean, Begins
    <2>2. CASE Blocked(c)
      BY <1>3, <2>1, <2>2 DEF Blocked, Moves, TypeOK
    <2>3. CASE Read(c)
      BY <1>3, <1>4, <2>1, <2>3 DEF Read, Moves, TypeOK
    <2>4. CASE Write(c)
      BY <1>3, <1>4, <2>1, <2>4 DEF Write, Executed, Refused, Moves, TypeOK
    <2>5. CASE Open(c)
      BY <1>3, <1>4, <2>1, <2>5 DEF Open, Moves, TypeOK
    <2>6. CASE Text(c)
      BY <1>3, <2>1, <2>6 DEF Text, RequirePage, Moves, memoryVars, TypeOK
    <2>7. CASE Clean(c)
      BY <1>3, <2>1, <2>7 DEF Clean, Moves, TypeOK
    <2> QED
      BY <1>5, <2>2, <2>3, <2>4, <2>5, <2>6, <2>7 DEF Begin
  <1>6. CASE Starts(c)
    <2>1. at[c] # "compressing" /\ at'[c] # "compressing" /\ UNCHANGED memoryVars
      BY <1>6 DEF Starts, EngineStep, DriverStarts, Launches, PageOpens, EngineFails, Moves, StartSteps,
                  TypeOK
    <2> QED
      BY <1>3, <2>1 DEF memoryVars
  <1>7. CASE Extracts(c)
    BY <1>3, <1>4, <1>7 DEF Extracts
  <1>8. CASE Compresses(c)
    <2>1. /\ at[c] = "compressing" /\ at'[c] = "raised"
          /\ Apply(c) /\ inProgress' = FALSE /\ UNCHANGED <<shown, found, raced>>
      BY <1>8 DEF Compresses, Moves, TypeOK
    <2>2. loop # "overflow"
      <3>1. loop = "overflow" => Summarising(Loop) /\ Loop \in Summarisers
        BY DEF Summarising, Summarisers
      <3> QED
        BY <1>0, <1>1, <2>1, <3>1 DEF MemoryIsSound
    <2>3. OthersStay(c)
      BY <1>0, <2>2 DEF OthersStay, Summarising, Summarisers, TypeOK
    <2> QED
      BY <1>0, <1>1, <2>1, <2>3, AppliesToMemory
  <1>9. CASE CompressionFails(c) \/ Cancelled(c)
    <2>1. /\ at'[c] # "compressing" /\ loop' = loop
          /\ UNCHANGED <<memory, compressed, shown, found, raced, late>>
      BY <1>9 DEF CompressionFails, Cancelled, Moves, loopVars, TypeOK
    <2>2. inProgress' = (inProgress /\ at[c] # "compressing")
      BY <1>9 DEF CompressionFails, Cancelled
    <2> QED
      BY <1>0, <1>1, <1>2, <2>1, <2>2, MemoryIsLeft
  <1> QED
    BY <1>5, <1>6, <1>7, <1>8, <1>9 DEF Step, Resume

LoopSteps == LoopStep \/ Overflows \/ End

\* What the mission loop does to the memory.
LEMMA LoopKeepsMemory == IInv /\ LoopSteps => MemoryIsSound'
  <1> SUFFICES ASSUME IInv, LoopSteps PROVE MemoryIsSound'
    OBVIOUS
  <1> USE DEF IInv
  <1>1. /\ Loop \in Summarisers /\ Loop \notin Calls /\ UNCHANGED at
        /\ Summarising(Loop) <=> loop = "overflow"
        /\ Summarising(Loop)' <=> loop' = "overflow"
    <2>1. UNCHANGED at
      BY DEF LoopSteps, LoopStep, Handoff, Recovers, BrowserCloses, DriverStopped, CloseFails,
             Overflows, End
    <2> QED
      BY <2>1, ToolCallsAssumption DEF Summarisers, Summarising
  <1>2. OthersStay(Loop)
    BY <1>1 DEF OthersStay, Summarising, Summarisers
  <1>3. CASE Handoff \/ BrowserCloses \/ DriverStopped \/ CloseFails
    <2>1. UNCHANGED memoryVars /\ loop # "overflow" /\ loop' # "overflow"
      BY <1>3 DEF Handoff, BrowserCloses, DriverStopped, CloseFails, ClosesTo
    <2>2. inProgress' = (inProgress /\ ~Summarising(Loop))
      BY <1>1, <2>1 DEF memoryVars, TypeOK
    <2> QED
      BY <1>1, <1>2, <2>1, <2>2, MemoryIsLeft DEF memoryVars
  <1>4. CASE End
    <2>1. /\ UNCHANGED <<memory, compressed, shown, found, raced, late>>
          /\ inProgress' = (inProgress /\ loop # "overflow") /\ loop' # "overflow"
      BY <1>4 DEF End, ClosesTo
    <2>2. inProgress' = (inProgress /\ ~Summarising(Loop))
      BY <1>1, <2>1 DEF TypeOK
    <2> QED
      BY <1>1, <1>2, <2>1, <2>2, MemoryIsLeft
  <1>5. CASE Recovers
    BY <1>1, <1>2, <1>5, AppliesToMemory DEF Recovers
  <1>6. CASE Overflows
    <2>1. /\ UNCHANGED <<memory, found, raced, late>> /\ UNCHANGED compressed
          /\ BeginCompression(Loop) /\ loop' = "overflow"
      BY <1>6 DEF Overflows
    <2>2. CASE Calls = {}
      BY <1>1, <2>1, <2>2 DEF MemoryIsSound, FindingsAreKept, Summarisers, BeginCompression, TypeOK
    <2>3. ASSUME NEW c \in Calls PROVE MemoryIsSound'
      BY <1>1, <1>2, <2>1, AddsToMemory
    <2> QED
      BY <2>2, <2>3
  <1> QED
    BY <1>3, <1>4, <1>5, <1>6 DEF LoopSteps, LoopStep

-----------------------------------------------------------------------------
(* The graph *)

\* Only read_graph and write_graph touch it, and write_graph copies it before its first mutation.
LEMMA GraphStep ==
  ASSUME IInv, NEW c \in Calls, Step(c)
  PROVE  MutationsAreAccountedFor'
  <1> USE DEF IInv
  <1>0. UNCHANGED tool /\ Writers' = Writers
    BY OneCallMoves DEF Writers
  <1>1. CASE UNCHANGED graphVars /\ found \subseteq found'
    BY <1>0, <1>1 DEF MutationsAreAccountedFor, graphVars
  <1>2. CASE Read(c)
    <2>1. c \notin Writers
      BY <1>2 DEF Read, Begins, Writers
    <2>2. /\ graph' \in {graph, graph \cup {c}} /\ UNCHANGED <<audit, checkpoint>>
          /\ found' = found \cup {c}
      BY <1>2 DEF Read, Record
    <2>3. graph' \cap Writers = graph \cap Writers
      BY <2>1, <2>2
    <2> QED
      BY <1>0, <2>2, <2>3 DEF MutationsAreAccountedFor
  <1>3. CASE Write(c)
    <2>1. c \in Writers
      BY <1>3 DEF Write, Begins, Writers
    <2>2. /\ graph' \in {graph, graph \cup {c}}
          /\ \/ graph' = graph \cup {c} /\ audit' = audit \cup {c} /\ found' = found
             \/ audit' = audit /\ found' = found \cup {c}
          /\ checkpoint' = IF checkpoint = {Nothing} THEN graph ELSE checkpoint
      BY <1>3 DEF Write, Executed, Refused, Record, Copied
    <2>3. checkpoint' # {Nothing} /\ checkpoint' \cap Writers = {}
      BY <2>2, BrowserAssumption DEF MutationsAreAccountedFor, TypeOK
    <2>4. audit' \subseteq graph' \cap Writers /\ \A d \in (graph' \cap Writers) \ audit' : d \in found'
      BY <2>1, <2>2 DEF MutationsAreAccountedFor
    <2> QED
      BY <1>0, <2>3, <2>4 DEF MutationsAreAccountedFor
  <1>4. CASE Blocked(c) \/ Open(c) \/ Text(c) \/ Clean(c)
    BY <1>1, <1>4 DEF Blocked, Open, Text, Clean, Record, memoryVars
  <1>5. CASE Resume(c)
    BY <1>1, <1>5 DEF Resume, Starts, Extracts, Compresses, CompressionFails, Cancelled, Record, memoryVars
  <1> QED
    BY <1>2, <1>3, <1>4, <1>5 DEF Step, Begin

-----------------------------------------------------------------------------
(* The browser *)

\* Calls that start nothing, and a mission that is not about to end.
LEMMA BrowserIsLeft ==
  ASSUME TypeOK, DriversAreKnown, UNCHANGED browserVars,
         \A d \in Calls : \A s \in StartSteps : at'[d] = s <=> at[d] = s,
         loop' = loop \/ loop' \notin {"closing", "stopping", "over"}
  PROVE  DriversAreKnown'
  <1>1. UNCHANGED <<playwright, browser, drivers, stopping, excused>> /\ Starting' = Starting
    BY DEF browserVars, fields, Starting
  <1>2. \A d \in Calls : (at'[d] = "driver" <=> at[d] = "driver") /\ (at'[d] = "launch" <=> at[d] = "launch")
    BY DEF StartSteps
  <1>3. drivers \subseteq Calls
    BY DEF TypeOK, EngineTypeOK
  <1> QED
    BY <1>1, <1>2, <1>3 DEF DriversAreKnown, AtTheEnd, NoDriverIsLeft

\* start(), step by step, and its failures.
LEMMA EngineKeepsDrivers ==
  ASSUME IInv, NEW c \in Calls, EngineStep(c), loop' = loop
  PROVE  DriversAreKnown'
  <1> USE DEF IInv
  <1>0. at' = [at EXCEPT ![c] = at'[c]] /\ at[c] \in StartSteps \cup {"extract"}
    BY DEF EngineStep, DriverStarts, Launches, PageOpens, EngineFails, Moves, TypeOK, StartSteps
  <1>1. /\ \A d \in Calls : d # c => at'[d] = at[d]
        /\ drivers \subseteq Calls /\ excused \subseteq Calls /\ Nothing \notin Calls
    BY <1>0, BrowserAssumption DEF TypeOK, EngineTypeOK
  <1>2. CASE DriverStarts(c)
    <2>1. /\ at[c] = "driver" /\ at'[c] = "launch" /\ playwright' = c /\ drivers' = drivers \cup {c}
          /\ UNCHANGED <<browser, page, stopping, excused>>
      BY <1>2 DEF DriverStarts, Moves, TypeOK
    <2>2. Starting' = Starting /\ c \in Starting
      BY <1>1, <2>1 DEF Starting, StartSteps
    <2>3. drivers \subseteq excused /\ (AtTheEnd => c \in excused)
      BY <2>1 DEF DriversAreKnown
    <2>a. \A d \in Calls : at'[d] = "driver" => at[d] = "driver"
      BY <1>1, <2>1
    <2>4. ASSUME NEW d \in Calls, at'[d] = "driver" PROVE drivers' \subseteq excused'
      <3>1. d # c /\ d \in Starting
        BY <1>1, <2>1, <2>4 DEF Starting, StartSteps
      <3>2. c \in excused
        BY <2>2, <3>1 DEF DriversAreKnown
      <3> QED
        BY <2>1, <2>3, <3>2
    <2> QED
      BY <2>1, <2>2, <2>3, <2>4, <2>a DEF DriversAreKnown, AtTheEnd, NoDriverIsLeft
  <1>3. CASE Launches(c) \/ PageOpens(c)
    <2>1. /\ at[c] \in {"launch", "page"} /\ at'[c] \in {"page", "extract"}
          /\ UNCHANGED <<playwright, drivers, stopping, excused>>
      BY <1>3 DEF Launches, PageOpens, Moves, TypeOK
    <2>2. Starting' \subseteq Starting
      BY <1>1, <2>1 DEF Starting, StartSteps
    <2>3. \A d \in Calls : at'[d] = "driver" => at[d] = "driver"
      BY <1>1, <2>1
    <2> QED
      BY <2>1, <2>2, <2>3 DEF DriversAreKnown, AtTheEnd, NoDriverIsLeft
  <1>4. CASE EngineFails(c)
    <2>1. at'[c] = "returned" /\ UNCHANGED <<playwright, drivers, stopping, excused>>
      BY <1>4 DEF EngineFails, Moves, TypeOK, fields
    <2>2. Starting' \subseteq Starting
      BY <1>1, <2>1 DEF Starting, StartSteps
    <2>3. \A d \in Calls : at'[d] = "driver" => at[d] = "driver"
      BY <1>1, <2>1
    <2> QED
      BY <2>1, <2>2, <2>3 DEF DriversAreKnown, AtTheEnd, NoDriverIsLeft
  <1> QED
    BY <1>2, <1>3, <1>4 DEF EngineStep

\* A call that starts while another does, or is cancelled while it starts, excuses its driver.
LEMMA CallKeepsDrivers ==
  ASSUME IInv, NEW c \in Calls, Step(c)
  PROVE  DriversAreKnown'
  <1> USE DEF IInv
  <1>0. /\ at' = [at EXCEPT ![c] = at'[c]] /\ at'[c] \in Waits \cup Ends
        /\ at[c] \in Waits \cup {"idle"}
        /\ at[c] = "idle" => loop = "run"
        /\ loop' = loop \/ (loop' = "refresh" /\ at[c] = "compressing")
    BY OneCallMoves
  <1>1. /\ \A d \in Calls : d # c => at'[d] = at[d]
        /\ drivers \subseteq Calls /\ excused \subseteq Calls
    BY <1>0 DEF TypeOK, EngineTypeOK
  <1>2. ASSUME UNCHANGED browserVars, at[c] \notin StartSteps, at'[c] \notin StartSteps
        PROVE  DriversAreKnown'
    BY <1>0, <1>1, <1>2, BrowserIsLeft
  <1>3. CASE Blocked(c) \/ Read(c) \/ Write(c) \/ Open(c) \/ Clean(c)
    <2>1. UNCHANGED browserVars /\ at[c] = "idle"
      BY <1>3 DEF Blocked, Read, Write, Open, Clean, Begins
    <2>2. at'[c] \in {"blocked", "returned", "compressing"}
      BY <1>3 DEF Blocked, Read, Write, Open, Clean, Executed, Refused, Returns, Moves, TypeOK
    <2> QED
      BY <1>2, <2>1, <2>2 DEF StartSteps
  <1>4. CASE Text(c)
    <2>1. /\ at[c] = "idle" /\ loop = "run" /\ loop' = loop
          /\ UNCHANGED <<playwright, browser, drivers, stopping>>
          /\ RequirePage(c)
      BY <1>4 DEF Text, Begins, RequirePage, fields, loopVars
    <2>2. CASE at'[c] # "driver"
      <3>1. at'[c] \notin StartSteps /\ excused' = excused
        BY <2>1, <2>2 DEF RequirePage, Moves, TypeOK, StartSteps
      <3> QED
        BY <1>2, <2>1, <3>1 DEF RequirePage, StartSteps, browserVars
    <2>3. CASE at'[c] = "driver"
      <3>1. /\ browser = Nothing
            /\ excused' = excused \cup Forgotten(c)
        BY <2>1, <2>3 DEF RequirePage, Moves, TypeOK
      <3>2. Starting' = Starting \cup {c}
        BY <1>1, <2>3 DEF Starting, StartSteps
      <3>3. drivers \subseteq excused'
        <4> SUFFICES ASSUME NEW d \in drivers, d \notin excused PROVE d \in excused'
          BY <3>1
        <4>1. playwright = d /\ d # Nothing
          BY <1>1, BrowserAssumption DEF DriversAreKnown
        <4> QED
          BY <3>1, <4>1 DEF Forgotten
      <3>4. \A d \in Starting' \ excused' : Starting' = {d}
        BY <3>1, <3>2 DEF Forgotten
      <3> QED
        BY <2>1, <3>3, <3>4 DEF DriversAreKnown, AtTheEnd, NoDriverIsLeft
    <2> QED
      BY <2>2, <2>3
  <1>5. CASE Starts(c)
    BY <1>5, EngineKeepsDrivers DEF Starts, loopVars
  <1>6. CASE Extracts(c) \/ Compresses(c) \/ CompressionFails(c)
    <2>1. UNCHANGED browserVars /\ at[c] \in {"extract", "compressing"}
      BY <1>6 DEF Extracts, Compresses, CompressionFails
    <2>2. at'[c] \in {"returned", "compressing", "raised"}
      BY <1>6 DEF Extracts, Compresses, CompressionFails, Returns, Moves, TypeOK
    <2> QED
      BY <1>2, <2>1, <2>2 DEF StartSteps
  <1>7. CASE Cancelled(c)
    <2>1. /\ at'[c] = "cancelled" /\ loop' = loop /\ UNCHANGED <<playwright, browser, stopping>>
          /\ drivers' = drivers \/ (at[c] = "driver" /\ drivers' = drivers \cup {c})
          /\ excused \subseteq excused' /\ (at[c] = "driver" => c \in excused')
      BY <1>7 DEF Cancelled, Moves, fields, loopVars, TypeOK
    <2>2. Starting' \subseteq Starting
      BY <1>1, <2>1 DEF Starting, StartSteps
    <2>3. \A d \in drivers' \ excused' : d \in drivers \ excused
      BY <2>1
    <2>4. \A d \in drivers' \ excused' : playwright = d
      BY <2>3 DEF DriversAreKnown
    <2>5. \A d \in Calls : at'[d] = "driver" => at[d] = "driver"
      BY <1>1, <2>1
    <2>6. drivers' \ excused' \subseteq drivers \ excused
      BY <2>3
    <2> QED
      BY <2>1, <2>2, <2>4, <2>5, <2>6 DEF DriversAreKnown, AtTheEnd, NoDriverIsLeft
  <1> QED
    BY <1>3, <1>4, <1>5, <1>6, <1>7 DEF Step, Begin, Resume

\* The mission loop: close() finds the driver, or excuses it.
LEMMA LoopKeepsDrivers == IInv /\ LoopSteps => DriversAreKnown'
  <1> SUFFICES ASSUME IInv, LoopSteps PROVE DriversAreKnown'
    OBVIOUS
  <1> USE DEF IInv
  <1>1. UNCHANGED at /\ Starting' = Starting
    BY DEF LoopSteps, LoopStep, Handoff, Recovers, BrowserCloses, DriverStopped, CloseFails,
           Overflows, End, Starting
  <1>2. drivers \subseteq Calls /\ {playwright, stopping} \subseteq Calls \cup {Nothing} /\ Nothing \notin Calls
    BY BrowserAssumption DEF TypeOK, EngineTypeOK
  <1>3. CASE Handoff \/ Recovers \/ Overflows
    BY <1>1, <1>3, BrowserIsLeft DEF Handoff, Recovers, Overflows
  <1>4. CASE End
    <2>1. /\ UNCHANGED <<playwright, browser, drivers>>
          /\ excused' = excused \cup {c \in Calls : at[c] = "driver"}
          /\ loop' = ClosesTo("over") /\ StopsAt(loop')
      BY <1>4 DEF End, fields
    <2>2. \A d \in drivers \ excused' : playwright = d /\ d # Nothing
      BY <1>2, <2>1 DEF DriversAreKnown
    <2>3. loop' = "over" => drivers \subseteq excused'
      BY <2>1, <2>2 DEF ClosesTo
    <2>4. loop' = "stopping" => drivers \ excused' \subseteq {stopping'}
      BY <2>1, <2>2 DEF StopsAt
    <2> QED
      BY <1>1, <2>1, <2>2, <2>3, <2>4 DEF DriversAreKnown, AtTheEnd, NoDriverIsLeft
  <1>5. CASE BrowserCloses
    <2>1. /\ UNCHANGED <<playwright, browser, drivers, excused>> /\ stopping' = playwright
          /\ loop = "closing" /\ loop' = "stopping"
      BY <1>5 DEF BrowserCloses, StopsAt, fields
    <2> QED
      BY <1>1, <2>1 DEF DriversAreKnown, AtTheEnd, NoDriverIsLeft
  <1>6. CASE DriverStopped
    <2>1. /\ loop = "stopping" /\ loop' = "over" /\ drivers' = drivers \ {stopping} /\ UNCHANGED excused
      BY <1>6 DEF DriverStopped, DriverStops
    <2>2. drivers' \subseteq excused'
      BY <2>1 DEF DriversAreKnown
    <2> QED
      BY <1>1, <2>1, <2>2 DEF DriversAreKnown, AtTheEnd, NoDriverIsLeft
  <1>7. CASE CloseFails
    <2>1. /\ loop \in {"closing", "stopping"} /\ UNCHANGED <<playwright, browser, drivers>>
          /\ excused \subseteq excused'
          /\ loop' = IF closes = 0 THEN "over" ELSE ClosesTo("over")
          /\ closes = 0 => {playwright} \ {Nothing} \subseteq excused'
          /\ loop' = "stopping" => stopping' = playwright
      BY <1>7 DEF CloseFails, CloseRaises, StopsAt, fields
    <2>2. loop' \in {"closing", "stopping", "over"}
      BY <2>1 DEF ClosesTo
    <2>3. \A d \in drivers \ excused' : playwright = d
      BY <2>1 DEF DriversAreKnown
    <2>4. loop' = "over" => drivers \subseteq excused'
      <3> SUFFICES ASSUME loop' = "over", NEW d \in drivers, d \notin excused' PROVE FALSE
        OBVIOUS
      <3>1. playwright = d /\ playwright # Nothing
        BY <1>2, <2>3
      <3> QED
        BY <2>1, <3>1 DEF ClosesTo
    <2> QED
      BY <1>1, <2>1, <2>2, <2>3, <2>4 DEF DriversAreKnown, AtTheEnd, NoDriverIsLeft
  <1> QED
    BY <1>3, <1>4, <1>5, <1>6, <1>7 DEF LoopSteps, LoopStep

-----------------------------------------------------------------------------
(* Types, and the theorems *)

\* What a call does keeps the types.
LEMMA CallKeepsTypes ==
  ASSUME IInv, NEW c \in Calls, Step(c)
  PROVE  TypeOK'
  <1> USE DEF IInv
  <1>0. /\ at' \in [Calls -> Waits \cup Ends \cup {"idle"}]
        /\ UNCHANGED tool /\ used' \in 0 .. WebBudget
        /\ loop' \in {"run", "refresh", "overflow", "closing", "stopping", "over"}
    <2>1. at' = [at EXCEPT ![c] = at'[c]] /\ at'[c] \in Waits \cup Ends
      BY OneCallMoves
    <2>2. loop' = loop \/ loop' = "refresh"
      BY OneCallMoves
    <2> QED
      BY <2>1, <2>2, OneCallMoves, CountStep DEF TypeOK
  <1>1. /\ c \in Calls \cup {Loop}
        /\ shown \in [Calls \cup {Loop} -> SUBSET Calls] /\ shown[c] \subseteq Calls
    BY DEF TypeOK
  <1> DEFINE MemoryTyped == /\ memory \subseteq Calls /\ compressed \subseteq Calls
                            /\ inProgress \in BOOLEAN
                            /\ shown \in [Calls \cup {Loop} -> SUBSET Calls]
                            /\ found \subseteq Calls /\ raced \subseteq Calls /\ late \subseteq Calls
             GraphTyped == /\ graph \subseteq Calls /\ audit \subseteq Calls
                           /\ checkpoint \in (SUBSET Calls) \cup {{Nothing}}
  <1>2. MemoryTyped'
    <2>1. MemoryTyped
      BY DEF TypeOK
    <2>2. ASSUME Record(c) \/ UNCHANGED <<memory, found, raced, late>>
          PROVE  /\ memory' \subseteq Calls /\ found' \subseteq Calls /\ raced' \subseteq Calls
                 /\ late' \subseteq Calls
      BY <2>1, <2>2 DEF Record
    <2>3. ASSUME UNCHANGED <<inProgress, shown>> \/ BeginCompression(c), memory' \subseteq Calls
          PROVE  inProgress' \in BOOLEAN /\ shown' \in [Calls \cup {Loop} -> SUBSET Calls]
      BY <1>1, <2>1, <2>3 DEF BeginCompression
    <2>4. CASE Begin(c) \/ Extracts(c)
      <3>1. /\ Record(c) \/ UNCHANGED <<memory, found, raced, late>>
            /\ UNCHANGED <<inProgress, shown>> \/ BeginCompression(c)
            /\ UNCHANGED compressed
        BY <2>4 DEF Begin, Blocked, Read, Write, Open, Text, Clean, Extracts, Executed, Refused, Returns,
                    memoryVars
      <3> QED
        BY <2>1, <2>2, <2>3, <3>1
    <2>5. CASE Starts(c)
      BY <2>1, <2>5 DEF Starts, memoryVars
    <2>6. CASE Compresses(c)
      BY <1>1, <2>1, <2>6 DEF Compresses, Apply
    <2>7. CASE CompressionFails(c) \/ Cancelled(c)
      BY <2>1, <2>7 DEF CompressionFails, Cancelled
    <2> QED
      BY <2>4, <2>5, <2>6, <2>7 DEF Step, Resume
  <1>3. GraphTyped'
    <2>1. GraphTyped
      BY DEF TypeOK
    <2>2. CASE UNCHANGED graphVars
      BY <2>1, <2>2 DEF graphVars
    <2>3. CASE Read(c) \/ Write(c)
      <3>1. /\ graph' \subseteq graph \cup {c} /\ audit' \subseteq audit \cup {c}
            /\ checkpoint' \in {graph, checkpoint}
        BY <2>3 DEF Read, Write, Executed, Refused, Copied
      <3> QED
        BY <2>1, <3>1
    <2>4. CASE Blocked(c) \/ Open(c) \/ Text(c) \/ Clean(c) \/ Resume(c)
      BY <2>2, <2>4 DEF Blocked, Open, Text, Clean, Resume, Starts, Extracts, Compresses,
                        CompressionFails, Cancelled
    <2> QED
      BY <2>3, <2>4 DEF Step, Begin
  <1>4. EngineTypeOK'
    <2>1. EngineTypeOK
      BY DEF TypeOK
    <2>2. CASE UNCHANGED browserVars
      BY <2>1, <2>2 DEF browserVars, fields, EngineTypeOK
    <2>3. CASE Text(c) \/ Cancelled(c)
      <3>1. /\ UNCHANGED <<playwright, browser, page, stopping>>
            /\ drivers' \subseteq drivers \cup {c}
            /\ excused' \subseteq excused \cup Starting \cup {c} \cup ({playwright} \ {Nothing})
        BY <2>3 DEF Text, Cancelled, RequirePage, Forgotten, fields
      <3> QED
        BY <2>1, <3>1 DEF EngineTypeOK, Starting
    <2>4. CASE Starts(c)
      <3>1. /\ playwright' \in {playwright, c} /\ browser' \in {browser, c} /\ page' \in {page, c}
            /\ UNCHANGED stopping
            /\ drivers' \subseteq drivers \cup {c} /\ excused' \subseteq excused \cup {c}
        BY <2>4 DEF Starts, EngineStep, DriverStarts, Launches, PageOpens, EngineFails, fields
      <3> QED
        BY <2>1, <3>1 DEF EngineTypeOK
    <2>5. CASE Blocked(c) \/ Read(c) \/ Write(c) \/ Open(c) \/ Clean(c) \/ Extracts(c) \/ Compresses(c)
               \/ CompressionFails(c)
      BY <2>2, <2>5 DEF Blocked, Read, Write, Open, Clean, Extracts, Compresses, CompressionFails
    <2> QED
      BY <2>3, <2>4, <2>5 DEF Step, Begin, Resume
  <1>5. closes' \in 0 .. MaxRetries /\ orphans' \subseteq Calls
    <2>1. UNCHANGED closes /\ orphans' \subseteq orphans \cup Waiting
      BY DEF Step, Begin, Resume, Blocked, Read, Write, Open, Text, Clean, Starts, Extracts, Compresses,
             CompressionFails, Cancelled, loopVars
    <2> QED
      BY <2>1 DEF TypeOK, Waiting
  <1> QED
    BY <1>0, <1>2, <1>3, <1>4, <1>5 DEF TypeOK

\* So does the mission loop, which counts no call.
LEMMA LoopKeepsTypes == IInv /\ LoopSteps => TypeOK' /\ WebCallsAreCounted'
  <1> SUFFICES ASSUME IInv, LoopSteps PROVE TypeOK' /\ WebCallsAreCounted'
    OBVIOUS
  <1> USE DEF IInv
  <1>1. UNCHANGED <<at, tool, used, graphVars>>
    BY DEF LoopSteps, LoopStep, Handoff, Recovers, BrowserCloses, DriverStopped, CloseFails,
           Overflows, End
  <1>2. WebCallsAreCounted'
    BY <1>1 DEF WebCallsAreCounted, WebCalls
  <1>3. /\ memory' \subseteq Calls /\ compressed' \subseteq Calls /\ inProgress' \in BOOLEAN
        /\ shown' \in [Calls \cup {Loop} -> SUBSET Calls] /\ UNCHANGED <<found, raced>>
        /\ late' \subseteq Calls
    <2>1. CASE Handoff \/ BrowserCloses \/ DriverStopped \/ CloseFails \/ End
      BY <2>1 DEF Handoff, BrowserCloses, DriverStopped, CloseFails, End, memoryVars, TypeOK
    <2>2. CASE Overflows \/ Recovers
      BY <2>2 DEF Overflows, Recovers, BeginCompression, Apply, TypeOK
    <2> QED
      BY <2>1, <2>2 DEF LoopSteps, LoopStep
  <1>4. EngineTypeOK'
    <2>1. /\ {playwright', browser', page'} \subseteq {playwright, browser, page, Nothing}
          /\ stopping' \in {playwright, stopping, Nothing} /\ drivers' \subseteq drivers
          /\ excused' \subseteq excused \cup Starting \cup ({playwright, stopping} \ {Nothing})
      <3>1. CASE Handoff \/ Recovers \/ Overflows
        BY <3>1 DEF Handoff, Recovers, Overflows, browserVars, fields
      <3>2. CASE BrowserCloses \/ End
        BY <3>2 DEF BrowserCloses, End, StopsAt, fields, Starting, StartSteps
      <3>3. CASE DriverStopped
        BY <3>3 DEF DriverStopped, DriverStops
      <3>4. CASE CloseFails
        BY <3>4 DEF CloseFails, CloseRaises, StopsAt, fields
      <3> QED
        BY <3>1, <3>2, <3>3, <3>4 DEF LoopSteps, LoopStep
    <2> QED
      BY <2>1 DEF TypeOK, EngineTypeOK, Starting
  <1>5. loop' \in {"run", "refresh", "overflow", "closing", "stopping", "over"}
    BY DEF LoopSteps, LoopStep, Handoff, Recovers, BrowserCloses, DriverStopped, CloseFails,
           Overflows, End, ClosesTo
  <1>6. closes' \in 0 .. MaxRetries /\ orphans' \subseteq Calls
    <2>1. CASE CloseFails
      <3>1. closes \in 0 .. MaxRetries /\ closes' = IF closes = 0 THEN 0 ELSE closes - 1
        BY <2>1 DEF CloseFails, TypeOK
      <3>2. closes' \in 0 .. MaxRetries
        BY <3>1, ToolCallsAssumption
      <3> QED
        BY <2>1, <3>2 DEF CloseFails, TypeOK
    <2>2. CASE End
      BY <2>2 DEF End, TypeOK, Waiting
    <2>3. CASE Handoff \/ Recovers \/ Overflows \/ BrowserCloses \/ DriverStopped
      BY <2>3 DEF Handoff, Recovers, Overflows, BrowserCloses, DriverStopped, TypeOK
    <2> QED
      BY <2>1, <2>2, <2>3 DEF LoopSteps, LoopStep
  <1> QED
    BY <1>1, <1>2, <1>3, <1>4, <1>5, <1>6 DEF TypeOK, graphVars

\* Every step of a call or of the loop keeps the invariant.
LEMMA StepInvariant == IInv /\ [Next]_vars => IInv'
  <1> SUFFICES ASSUME IInv, [Next]_vars PROVE IInv'
    OBVIOUS
  <1>1. CASE UNCHANGED vars
    <2>1. TypeOK' /\ MemoryIsSound' /\ MutationsAreAccountedFor'
      BY <1>1 DEF vars, memoryVars, graphVars, browserVars, fields, loopVars, IInv, TypeOK, EngineTypeOK,
                  MemoryIsSound, Summarising, FindingsAreKept, MutationsAreAccountedFor, Writers
    <2>2. DriversAreKnown' /\ WebCallsAreCounted'
      BY <1>1 DEF vars, browserVars, fields, loopVars, IInv, DriversAreKnown, Starting, AtTheEnd,
                  NoDriverIsLeft, WebCallsAreCounted, WebCalls
    <2> QED
      BY <2>1, <2>2 DEF IInv
  <1>2. ASSUME NEW c \in Calls, Step(c) PROVE IInv'
    BY <1>2, CallKeepsTypes, CallKeepsMemory, GraphStep, CallKeepsDrivers, CountStep DEF IInv
  <1>3. CASE LoopSteps
    <2>1. UNCHANGED <<graphVars, tool>> /\ found \subseteq found'
      BY <1>3 DEF LoopSteps, LoopStep, Handoff, Recovers, BrowserCloses, DriverStopped, CloseFails,
                  Overflows, End, memoryVars
    <2>2. MutationsAreAccountedFor'
      BY <2>1 DEF IInv, MutationsAreAccountedFor, Writers, graphVars
    <2> QED
      BY <1>3, <2>2, LoopKeepsTypes, LoopKeepsMemory, LoopKeepsDrivers DEF IInv
  <1> QED
    BY <1>1, <1>2, <1>3 DEF Next, Step, LoopSteps

\* All that is proved of the states of a mission's tools.
THEOREM Invariant == Spec => []IInv
  BY InitInvariant, StepInvariant, PTL DEF Spec

\* Every variable keeps its type.
THEOREM TypeCorrect == Spec => []TypeOK
  <1>1. IInv => TypeOK
    BY DEF IInv
  <1> QED
    BY <1>1, Invariant, PTL

\* No finding is lost but to a summariser that was already at work.
THEOREM FindingsSurvive == Spec => []FindingsAreKept
  <1>1. IInv => FindingsAreKept
    BY DEF IInv, MemoryIsSound
  <1> QED
    BY <1>1, Invariant, PTL

\* The audit and the checkpoint are right about what write_graph has done.
THEOREM MutationsAreAudited == Spec => []MutationsAreAccountedFor
  <1>1. IInv => MutationsAreAccountedFor
    BY DEF IInv
  <1> QED
    BY <1>1, Invariant, PTL

\* A driver that outlives the mission has one of the named reasons.
THEOREM DriversAreStopped == Spec => []NoDriverIsLeft
  <1>1. IInv => NoDriverIsLeft
    BY DEF IInv, DriversAreKnown
  <1> QED
    BY <1>1, Invariant, PTL

\* However many calls run in parallel, no more reach the web than the budget allows.
THEOREM BudgetBoundsWebCalls == Spec => []WebBudgetHolds
  <1>1. IInv => WebBudgetHolds
    BY ToolCallsAssumption DEF IInv, TypeOK, WebCallsAreCounted, WebBudgetHolds
  <1> QED
    BY <1>1, Invariant, PTL

-----------------------------------------------------------------------------
(* How long the waits can go on *)

\* The awaits that may still be before a call.
WaitsLeft(c) ==
  CASE at[c] = "driver"      -> 5
    [] at[c] = "launch"      -> 4
    [] at[c] = "page"        -> 3
    [] at[c] = "extract"     -> 2
    [] at[c] = "compressing" -> 1
    [] OTHER                 -> 0

\* The awaits that may still be before close(), which is tried again when it raises.
ClosesLeft == CASE loop = "closing"  -> 2 * closes + 2
                [] loop = "stopping" -> 2 * closes + 1
                [] OTHER             -> 0

Closing == loop \in {"closing", "stopping"}

\* Whatever ends an await, of a call or of close(), brings who waited nearer to the end, and
\* nobody else puts that off: no refresh of a task that was left over takes the mission out of
\* close().  This is what the end of every wait rests on.
WaitsRunDown ==
  [][/\ \A c \in Waiting :
          IF Resume(c) THEN WaitsLeft(c)' < WaitsLeft(c) ELSE WaitsLeft(c)' = WaitsLeft(c)
     /\ Closing => IF LoopStep THEN ClosesLeft' < ClosesLeft ELSE ClosesLeft' = ClosesLeft]_vars

\* When the mission ends, the calls that still wait belong to a run that is over.
OnlyOrphansWait == AtTheEnd => Waiting \subseteq orphans

LEMMA OrphansStep == TypeOK /\ OnlyOrphansWait /\ [Next]_vars => OnlyOrphansWait'
  <1> SUFFICES ASSUME TypeOK, OnlyOrphansWait, [Next]_vars PROVE OnlyOrphansWait'
    OBVIOUS
  <1>1. CASE UNCHANGED vars
    BY <1>1 DEF vars, loopVars, OnlyOrphansWait, AtTheEnd, Waiting
  <1>2. ASSUME NEW c \in Calls, Step(c) PROVE OnlyOrphansWait'
    <2>1. /\ at' = [at EXCEPT ![c] = at'[c]]
          /\ at[c] \in Waits \cup {"idle"} /\ (at[c] = "idle" => loop = "run")
          /\ loop' = loop \/ loop' = "refresh"
      BY <1>2, OneCallMoves
    <2>2. orphans \subseteq orphans'
      BY <1>2 DEF Step, Begin, Resume, Blocked, Read, Write, Open, Text, Clean, Starts, Extracts,
                  Compresses, CompressionFails, Cancelled, loopVars
    <2>3. AtTheEnd' => AtTheEnd /\ at[c] \in Waits
      BY <2>1 DEF AtTheEnd
    <2>4. at[c] \in Waits => Waiting' \subseteq Waiting
      BY <2>1 DEF Waiting, TypeOK
    <2> QED
      BY <2>2, <2>3, <2>4 DEF OnlyOrphansWait
  <1>3. CASE End
    BY <1>3 DEF End, OnlyOrphansWait, Waiting
  <1>4. CASE LoopStep \/ Overflows
    BY <1>4 DEF LoopStep, Handoff, Recovers, BrowserCloses, DriverStopped, CloseFails, Overflows,
                OnlyOrphansWait, AtTheEnd, Waiting
  <1> QED
    BY <1>1, <1>2, <1>3, <1>4 DEF Next, Step

LEMMA OrphansWait == Spec => []OnlyOrphansWait
  <1>1. Init => OnlyOrphansWait
    BY DEF Init, OnlyOrphansWait, AtTheEnd
  <1> QED
    BY <1>1, OrphansStep, TypeCorrect, PTL DEF Spec

\* An await of a call has ended.
LEMMA ResumeEndsAWait ==
  ASSUME TypeOK, NEW c \in Calls, Resume(c)
  PROVE  WaitsLeft(c)' < WaitsLeft(c)
  <1> USE DEF TypeOK, Moves, WaitsLeft
  <1>1. CASE Starts(c)
    BY <1>1 DEF Starts, EngineStep, DriverStarts, Launches, PageOpens, EngineFails, StartSteps
  <1>2. CASE Extracts(c) \/ Compresses(c) \/ CompressionFails(c)
    BY <1>2 DEF Extracts, Compresses, CompressionFails, Returns
  <1>3. CASE Cancelled(c)
    BY <1>3 DEF Cancelled, Waits, StartSteps
  <1> QED
    BY <1>1, <1>2, <1>3 DEF Resume

\* The mission loop ends an await of close(), or a call leaves close() alone.
LEMMA CloseEndsAWait ==
  ASSUME TypeOK, Closing, LoopStep
  PROVE  ClosesLeft' < ClosesLeft
  <1>1. closes \in Nat
    BY ToolCallsAssumption DEF TypeOK
  <1>2. CASE BrowserCloses \/ DriverStopped
    BY <1>1, <1>2 DEF BrowserCloses, DriverStopped, ClosesLeft
  <1>3. CASE CloseFails
    <2>1. /\ loop \in {"closing", "stopping"}
          /\ closes = 0 => loop' = "over"
          /\ closes # 0 => closes' = closes - 1 /\ loop' \in {"closing", "stopping", "over"}
      BY <1>3 DEF CloseFails, ClosesTo
    <2> QED
      BY <1>1, <2>1 DEF ClosesLeft
  <1> QED
    BY <1>2, <1>3 DEF LoopStep, Handoff, Recovers, Closing

LEMMA CallsLeaveCloseAlone ==
  ASSUME TypeOK, OnlyOrphansWait, Closing, NEW c \in Calls, Step(c)
  PROVE  UNCHANGED <<loop, closes>>
  <1>1. Resume(c) /\ at[c] \in Waits
    <2>1. at[c] \in Waits
      BY OneCallMoves DEF Closing
    <2> QED
      BY <2>1 DEF Step, Begin, Blocked, Read, Write, Open, Text, Clean, Begins, Closing
  <1>2. c \in orphans
    BY <1>1 DEF OnlyOrphansWait, Closing, AtTheEnd, Waiting
  <1> QED
    BY <1>1, <1>2 DEF Resume, Starts, Extracts, Compresses, CompressionFails, Cancelled, loopVars

\* The waits of a mission's tools are numbered.
THEOREM WaitsCountDown == Spec => WaitsRunDown
  <1> DEFINE Down ==
        /\ \A c \in Waiting :
             IF Resume(c) THEN WaitsLeft(c)' < WaitsLeft(c) ELSE WaitsLeft(c)' = WaitsLeft(c)
        /\ Closing => IF LoopStep THEN ClosesLeft' < ClosesLeft ELSE ClosesLeft' = ClosesLeft
  <1>1. TypeOK /\ OnlyOrphansWait /\ [Next]_vars => [Down]_vars
    <2> SUFFICES ASSUME TypeOK, OnlyOrphansWait, Next PROVE Down
      OBVIOUS
    <2>1. ASSUME NEW d \in Waiting, ~Resume(d) PROVE WaitsLeft(d)' = WaitsLeft(d)
      <3>1. at'[d] = at[d]
        <4>1. ASSUME NEW c \in Calls, Step(c) PROVE at'[d] = at[d]
          <5>1. at' = [at EXCEPT ![c] = at'[c]]
            BY <4>1, OneCallMoves
          <5>2. c # d
            BY <2>1, <4>1 DEF Step, Begin, Blocked, Read, Write, Open, Text, Clean, Begins, Waiting,
                              Waits, StartSteps
          <5> QED
            BY <5>1, <5>2 DEF TypeOK, Waiting
        <4>2. CASE LoopStep \/ Overflows \/ End
          BY <4>2 DEF LoopStep, Handoff, Recovers, BrowserCloses, DriverStopped, CloseFails, Overflows,
                      End
        <4> QED
          BY <4>1, <4>2 DEF Next, Step
      <3> QED
        BY <3>1 DEF WaitsLeft
    <2>2. ASSUME Closing, ~LoopStep PROVE ClosesLeft' = ClosesLeft
      <3>1. ~Overflows /\ ~End
        BY <2>2 DEF Overflows, End, Closing
      <3>2. UNCHANGED <<loop, closes>>
        BY <2>2, <3>1, CallsLeaveCloseAlone DEF Next, Step
      <3> QED
        BY <3>2 DEF ClosesLeft
    <2> QED
      BY <2>1, <2>2, ResumeEndsAWait, CloseEndsAWait DEF Waiting
  <1> QED
    BY <1>1, TypeCorrect, OrphansWait, PTL DEF Spec, WaitsRunDown
=============================================================================
