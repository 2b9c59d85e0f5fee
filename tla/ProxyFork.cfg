\* An INVITE to two targets, enough for a winner and a loser, where two failures
\* of different rank make the choice between them visible; and a request that
\* handleRequest forks twice.
CONSTANTS
  t1 = t1
  t2 = t2
  Request <- Both
  Targets <- Two
  Code = {200, 480, 486}
  TimerC = TimerC
  None = None
SPECIFICATION FairSpec
CONSTRAINT Bounded
INVARIANTS TypeOK BestForwarded LosersCancelled LastBranchAnswers
PROPERTY Answered
\* The proxy is done with a request it has answered.
CHECK_DEADLOCK FALSE
