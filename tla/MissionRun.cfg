\* One mission, main or maintenance, with two models and three reruns, on Python 3.11.
SPECIFICATION Spec
CONSTANTS
  m1 = m1
  m2 = m2
  Models = {m1, m2}
  NoModel = NoModel
  MaxReruns = 3
  SwallowsCancel = TRUE
INVARIANTS
  TypeOK
  AnswerIsFinalModels
  JobsHaveTraces
  SecondJobNeedsTrouble
  ReturnedMissionIsSettled
PROPERTY KeepsPromise
\* A mission that has ended does nothing more.
CHECK_DEADLOCK FALSE
