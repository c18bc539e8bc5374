\* Three jobs and three lives of the server, on Python 3.11.
SPECIFICATION Spec
CONSTANTS
  j1 = j1
  j2 = j2
  j3 = j3
  Jobs = {j1, j2, j3}
  MaxLives = 3
  SwallowsCancel = TRUE
INVARIANTS
  TypeOK
  NoJobForgotten
  StopReachesEveryTask
  OneAttemptPerLife
  CancelledTraceIsTrue
PROPERTY ImplementsQueue
\* Once every job has ended in the last life there is nothing left to do.
CHECK_DEADLOCK FALSE
