\* A CANCEL while the only target rings.
CONSTANTS
  t1 = t1
  t2 = t2
  Request <- Invite
  Targets <- One
  Code = {487}
  TimerC = TimerC
  None = None
SPECIFICATION FairSpec
PROPERTY CancelAnswered
CHECK_DEADLOCK FALSE
