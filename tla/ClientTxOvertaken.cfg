\* An INVITE transaction, and what a test expects of its state.
CONSTANTS
  t1 = t1
  t2 = t2
  Tx = {t1}
  Invite = {t1}
  T1 = 1
  T2 = 2
  TimerF = 4
  EventCap = 2
SPECIFICATION Spec
INVARIANT FinalIsRecorded
CHECK_DEADLOCK FALSE
