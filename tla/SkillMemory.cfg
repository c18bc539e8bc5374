\* Three parallel calls on two skills, two of which the budget admits.
SPECIFICATION Spec
CONSTANTS
  s1 = s1
  s2 = s2
  Calls = {c1, c2, c3}
  Ids = {s1, s2}
  Nobody = nobody
  Budget = 2
  Writes <- MCWrites
  Updates <- MCUpdates
INVARIANTS
  TypeOK
  AuditIsOfReturnedCalls
  UpdatesAddUp
PROPERTIES
  DeprecationsStick
  EveryCallEnds
\* A mission ends with its calls.
CHECK_DEADLOCK FALSE
