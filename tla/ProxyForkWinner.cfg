\* Two successes: which of them does the dialog lead to?
CONSTANTS
  t1 = t1
  t2 = t2
  Request <- Invite
  Targets <- Two
  Code = {200}
  TimerC = TimerC
  None = None
SPECIFICATION Spec
INVARIANT DialogIsWinner
CHECK_DEADLOCK FALSE
