\* Three calls, two of them on the web, across refreshes and the end of the mission.
SPECIFICATION Spec
CONSTANTS
  c1 = c1
  c2 = c2
  c3 = c3
  Calls = {c1, c2, c3}
  Nothing = nothing
  Loop = loop
  WebBudget = 2
  Plans <- MCPlans
  MaxRetries = 2
INVARIANTS
  TypeOK
  FindingsAreKept
  MutationsAreAccountedFor
  NoDriverIsLeft
PROPERTY EveryWaitEnds
\* A mission ends.
CHECK_DEADLOCK FALSE
