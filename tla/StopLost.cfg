\* A stop while a mission works.
SPECIFICATION Spec
CONSTANTS
  s1 = s1
  r1 = r1
  r2 = r2
  t1 = t1
  t2 = t2
  t3 = t3
  Sessions = {s1}
  Runs = {r1}
  Steers = {t1}
  Configs = {c1}
  SessionOf <- OneSession
  ActiveTurnLimit = 2
  SwallowsCancel = FALSE
  NoRun = NoRun
PROPERTY StopLastsUntilResumed
\* The operator may stay silent once every message has been handled.
CHECK_DEADLOCK FALSE
