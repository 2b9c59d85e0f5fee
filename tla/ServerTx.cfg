\* One branch, so that an INVITE, its CANCEL and its ACK meet; two objects, so
\* that a key is used again after finish; two sources for the CANCEL's check;
\* two goroutines that respond, with two codes they may disagree on.
CONSTANTS
  None = None
  b1 = b1
  o1 = o1
  o2 = o2
  p1 = p1
  p2 = p2
  r1 = r1
  r2 = r2
  c1 = c1
  c2 = c2
  Obj = {o1, o2}
  Branch = {b1}
  Peer = {p1, p2}
  Final = {c1, c2}
  Responder = {r1, r2}
SPECIFICATION FairSpec
CONSTRAINT Bounded
INVARIANT TypeOK
INVARIANT OneLateResend
INVARIANT HandlerOnce
INVARIANT RegisteredUntilFinish
INVARIANT CrashNeedsAck
PROPERTY OneReply
PROPERTY NeverBack
PROPERTY FinalEnds
\* Nothing happens once all objects have been used.
CHECK_DEADLOCK FALSE
