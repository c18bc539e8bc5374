\* A mission that asks for another model.
SPECIFICATION Spec
CONSTANTS
  m1 = m1
  m2 = m2
  Models = {m1, m2}
  NoModel = NoModel
  MaxReruns = 1
  SwallowsCancel = FALSE
INVARIANT SwitchIsPerformed
\* A mission that has ended does nothing more.
CHECK_DEADLOCK FALSE
