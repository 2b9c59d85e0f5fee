CONSTANTS
  NoTag = NoTag
  NoHost = NoHost
  None = None
  Own = Own
  Other = Other
  i1 = i1
  i2 = i2
  c1 = c1
  c2 = c2
  Inv = {i1, i2}
  Call = {c1, c2}
  MaxSeq <- MCMaxSeq
  MaxRequests = 2
SPECIFICATION FairSpec
CONSTRAINT Bounded
INVARIANTS
  ByeOnce
  OvertakenOnly
  HangupReachesPeer
  MediaLostToOther
PROPERTIES
  InOrder
  InviteAnswered
  ByeEndsSession
CHECK_DEADLOCK FALSE
