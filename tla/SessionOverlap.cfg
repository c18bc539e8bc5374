\* Two messages to one session, one after the other or at once; a steer; Python 3.11.
SPECIFICATION Spec
CONSTANTS
  s1 = s1
  r1 = r1
  r2 = r2
  t1 = t1
  t2 = t2
  t3 = t3
  Sessions = {s1}
  Runs = {r1, r2}
  Steers = {t1}
  Configs = {c1}
  SessionOf <- OneSession
  ActiveTurnLimit = 0
  SwallowsCancel = TRUE
  NoRun = NoRun
INVARIANTS
  TypeOK
  RegistryIsCurrent
  SerialRunIsReachable
  NoTurnLost
\* The operator may stay silent once every message has been handled.
CHECK_DEADLOCK FALSE
