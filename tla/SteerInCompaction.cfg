\* A steer while a compaction awaits its summary: a steered mission goes round the loop once.
SPECIFICATION Spec
CONSTANTS
  s1 = s1
  r1 = r1
  r2 = r2
  t1 = t1
  t2 = t2
  t3 = t3
  Sessions = {s1}
  Runs = {r1}
  Steers = {t1}
  Configs = {c1}
  SessionOf <- OneSession
  ActiveTurnLimit = 1
  SwallowsCancel = FALSE
  NoRun = NoRun
PROPERTY SteerRestartsRun
\* The operator may stay silent once every message has been handled.
CHECK_DEADLOCK FALSE
