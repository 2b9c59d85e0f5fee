CONSTANTS
  None = None
  Caller = Caller
  Callee = Callee
  Other = Other
  Req = {r1, r2}
  MaxDialogs = 2
SPECIFICATION FairSpec
INVARIANTS
  OneByeThrough
  CrashNeedsNoContact
PROPERTIES
  AnsweredUnlessEarly
CHECK_DEADLOCK FALSE
