--------------------------- MODULE BrowserEngine ---------------------------
(***************************************************************************)
(* The browser of a mission (PlaywrightBrowserEngine of browser.py): three *)
(* fields, set one after the other by start() with an await before each,   *)
(* and reset by close().  The calls of browser_text that run in parallel   *)
(* share it.  ToolCalls says when they call it and what they make of it.   *)
(*                                                                         *)
(* Playwright is external: starting a driver process, launching a browser, *)
(* opening a page, reading it, closing and stopping may each fail.  What a *)
(* call starts bears the name of the call.                                 *)
(***************************************************************************)
CONSTANTS
  Calls,        (* tool calls of one mission                               *)
  Nothing       (* None                                                    *)

ASSUME BrowserAssumption == Nothing \notin Calls

VARIABLES
  playwright,   (* _playwright: whose driver                               *)
  browser,      (* _browser: whose browser                                 *)
  page,         (* _page: whose page                                       *)
  drivers,      (* the driver processes that run                           *)
  stopping,     (* the driver that close() waits for                       *)
  at,           (* where each call is                                      *)
  excused       (* History: drivers that there is a reason to find running *)
                (* after close(): see NoDriverIsLeft in ToolCalls          *)

fields == <<playwright, browser, page>>

\* Where start() waits.
StartSteps == {"driver", "launch", "page"}
Starting   == {c \in Calls : at[c] \in StartSteps}

EngineInit ==
  /\ playwright = Nothing
  /\ browser = Nothing
  /\ page = Nothing
  /\ drivers = {}
  /\ stopping = Nothing
  /\ excused = {}

EngineTypeOK ==
  /\ {playwright, browser, page, stopping} \subseteq Calls \cup {Nothing}
  /\ drivers \subseteq Calls
  /\ excused \subseteq Calls

Moves(c, step) == at' = [at EXCEPT ![c] = step]

-----------------------------------------------------------------------------
(* start() and extract_text() *)

\* A start that finds no browser overwrites _playwright: a driver that the field still names, whose
\* launch failed or was cancelled, is forgotten, and of starts in parallel it is open whose driver.
Forgotten(c) == ({playwright} \ {Nothing}) \cup IF Starting = {} THEN {} ELSE Starting \cup {c}

\* _require_page, up to its first await.  A browser without a page is not started again.
RequirePage(c) ==
  /\ Moves(c, CASE page # Nothing -> "extract"
                [] page = Nothing /\ browser # Nothing -> "returned"
                [] OTHER -> "driver")
  /\ excused' = IF page = Nothing /\ browser = Nothing THEN excused \cup Forgotten(c) ELSE excused
  /\ UNCHANGED <<fields, drivers, stopping>>

DriverStarts(c) ==
  /\ at[c] = "driver"
  /\ playwright' = c
  /\ drivers' = drivers \cup {c}
  /\ Moves(c, "launch")
  /\ UNCHANGED <<browser, page, stopping, excused>>

Launches(c) ==
  /\ at[c] = "launch" /\ c \in drivers
  /\ browser' = c
  /\ Moves(c, "page")
  /\ UNCHANGED <<playwright, page, drivers, stopping, excused>>

PageOpens(c) ==
  /\ at[c] = "page" /\ c \in drivers
  /\ page' = c
  /\ Moves(c, "extract")
  /\ UNCHANGED <<playwright, browser, drivers, stopping, excused>>

\* Whatever Playwright was asked for fails: the call reports an error, and the fields stay as
\* they are, so that close() still finds the driver whose launch failed.
EngineFails(c) ==
  /\ at[c] \in StartSteps \cup {"extract"}
  /\ Moves(c, "returned")
  /\ UNCHANGED <<fields, drivers, stopping, excused>>

EngineStep(c) == DriverStarts(c) \/ Launches(c) \/ PageOpens(c) \/ EngineFails(c)

-----------------------------------------------------------------------------
(* close(), which waits for the browser and then for the driver *)

\* Where close() waits first, if anywhere; `after` is what follows it.
ClosesTo(after) ==
  CASE browser # Nothing -> "closing"
    [] browser = Nothing /\ playwright # Nothing -> "stopping"
    [] OTHER -> after

\* The driver that it waits for then is the one that the field names at that moment.
StopsAt(step) == stopping' = IF step = "stopping" THEN playwright ELSE Nothing

\* The browser is closed, and its driver goes on.
DriverForgotten ==
  /\ drivers' = drivers
  /\ playwright' = Nothing /\ browser' = Nothing /\ page' = Nothing
  /\ stopping' = Nothing

\* The driver has stopped; the fields are reset, whatever they name by now.
DriverStops ==
  /\ drivers' = drivers \ {stopping}
  /\ playwright' = Nothing /\ browser' = Nothing /\ page' = Nothing
  /\ stopping' = Nothing

\* close() raises at one of its awaits: no field is reset.
CloseRaises(last) ==
  /\ excused' = IF last THEN excused \cup ({playwright, stopping} \ {Nothing}) ELSE excused
  /\ UNCHANGED <<fields, drivers>>
=============================================================================
