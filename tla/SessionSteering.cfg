\* One message and three steers, settings that change meanwhile.
SPECIFICATION Spec
CONSTANTS
  s1 = s1
  r1 = r1
  r2 = r2
  t1 = t1
  t2 = t2
  t3 = t3
  Sessions = {s1}
  Runs = {r1}
  Steers = {t1, t2, t3}
  Configs = {c1, c2}
  SessionOf <- OneSession
  ActiveTurnLimit = 0
  SwallowsCancel = TRUE
  NoRun = NoRun
INVARIANTS
  AnswerHeedsSteers
  PromptShowsNewestTurn
PROPERTY EveryRunEnds
\* The operator may stay silent once every message has been handled.
CHECK_DEADLOCK FALSE
