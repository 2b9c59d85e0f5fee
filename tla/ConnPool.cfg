CONSTANTS
  None = None
  p1 = p1
  n1 = n1
  c1 = c1
  c2 = c2
  Sender = {s1, s2}
  Peer = {p1}
  Name = {n1}
  Ip <- MCIp
  Conn = {c1, c2}
  MaxTCPConns = 1
SPECIFICATION FairSpec
CONSTRAINT InOrder
INVARIANTS
  NoLeak
  StaleUnderName
PROPERTIES
  OneDial
  SendReturns
CHECK_DEADLOCK FALSE
