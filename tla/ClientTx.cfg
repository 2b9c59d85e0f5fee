\* With T1 = 1, T2 = 2 and TimerF = 4 the loop sends three times more, the last
\* two after a capped interval.  Two events fill the channel: a provisional and
\* the final.
CONSTANTS
  t1 = t1
  t2 = t2
  Tx = {t1, t2}
  Invite = {t1}
  T1 = 1
  T2 = 2
  TimerF = 4
  EventCap = 2
SPECIFICATION FairSpec
CONSTRAINT OneStarted
INVARIANT TypeOK
INVARIANT AtMostOneFinal
INVARIANT TimeoutOnTime
INVARIANT AtMostOneLateResend
INVARIANT TerminatedIsUnregistered
INVARIANT CrashNeedsRace
PROPERTY EventuallyTerminated
PROPERTY FinalTerminates
\* A transaction that has ended stays ended.
CHECK_DEADLOCK FALSE
