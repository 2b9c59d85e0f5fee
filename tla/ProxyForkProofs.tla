-------------------------- MODULE ProxyForkProofs ---------------------------
(* Proofs that LastBranchAnswers, BestForwarded and LosersCancelled are       *)
(* invariants of ProxyFork, for any targets and any codes.                    *)
EXTENDS ProxyForkTypes

USE DEF groupVars, branchVars, workVars

-----------------------------------------------------------------------------
(* The inductive invariant *)

\* Only branches that were made are listed and copied.
ListInv ==
  /\ \A i \in DOMAIN group : pc[group[i]] # "none"
  /\ \A w \in Worker : \A i \in DOMAIN todo[w] : pc[todo[w][i]] # "none"

\* Before the caller is answered, whoever has claimed the group is at work, and
\* the goroutine that found a branch unfinished has left it to that branch.
LiveInv ==
  upstream = None /\ ~withdrawn =>
    /\ cancelled => \E b \in Branch : pc[b] \in {"cancel", "respond"}
    /\ (\E b \in Branch : pc[b] = "done") => \E b \in Branch : pc[b] \notin {"none", "done"}

\* A sequence has all the branches that were made.
Covers(s) == \A b \in Branch : tx[b] # "none" => \E i \in DOMAIN s : s[i] = b

\* A branch that is not left ringing.
Quiet(b) == Cancellable(b) => final[b] # None \/ b \in cancelSent

\* A response that may go up: what BestForwarded and LosersCancelled ask of it.
Due(a) ==
  /\ req.invite /\ Success(a.code) => \A b \in Branch : Quiet(b)
  /\ ~Success(a.code) =>
       \/ a.code \in {483, 500, 504}
       \/ \A b \in Branch : tx[b] # "none" =>
            final[b] # None /\ Rank(final[b]) <= Rank(a.code)

\* As long as no branch ends before fork is over and the caller waits: the group
\* and every copy of it that checkGroupDone works on is complete, deliverFinal has
\* quieted what it no longer has before it, and a response on its way up is due.
CoverInv ==
  req.passes = 1 /\ ~early =>
    /\ run # Idle => /\ upstream = None
                     /\ \A b \in Branch : pc[b] \in {"none", "wait"}
                     /\ \A d \in Deadline : pc[d] = "none"
    /\ upstream = None =>
         /\ Covers(group)
         /\ \A b \in Branch : pc[b] = "scan" => Covers(todo[b])
         /\ \A b \in Branch : pc[b] = "cancel" /\ req.invite =>
              \A x \in Branch : Quiet(x) \/ \E i \in DOMAIN todo[b] : todo[b][i] = x
         /\ \A w \in Worker : pc[w] = "respond" => Due(reply[w])
    /\ upstream # None => Due(upstream)

IInv == PlaceInv /\ ListInv /\ LiveInv /\ CoverInv

-----------------------------------------------------------------------------
(* What lasts *)

\* Who changes the transactions, the final responses and the rest.
Change ==
  /\ tx' = tx \/ forkBranch \/ \E b \in Branch : Network(b)
  /\ final' = final \/ \E b \in Branch : runBranchEvent(b) \/ runBranchDeadline(b)
  /\ cancelSent \subseteq cancelSent'
  /\ req' = req
  /\ run' = run \/ run.pc # "idle"
  /\ early => early'
  /\ withdrawn => withdrawn'
  /\ upstream # None => upstream' = upstream

LEMMA Changes ==
  ASSUME TypeOK, [Next]_vars
  PROVE  Change
<1> USE DEF Change
<1>1. CASE handleInitialFails
  BY <1>1 DEF handleInitialFails, Respond
<1>2. CASE forkStart
  BY <1>2 DEF forkStart, Respond
<1>3. CASE forkBranch
  BY <1>3 DEF forkBranch
<1>4. CASE forkSkip
  BY <1>4 DEF forkSkip
<1>5. CASE forkEnd
  BY <1>5 DEF forkEnd
<1>6. CASE handleCancel
  BY <1>6 DEF handleCancel
<1>7. ASSUME NEW b \in Branch, Network(b) PROVE Change
  BY <1>7 DEF Network, receiveProvisional, receiveFinal, timeout
<1>8. ASSUME NEW b \in Branch, runBranchEvent(b) PROVE Change
  BY <1>8, Zenon DEF runBranchEvent
<1>9. ASSUME NEW b \in Branch, runBranchDeadline(b) PROVE Change
  BY <1>9, Zenon DEF runBranchDeadline
<1>10. ASSUME NEW b \in Branch, runBranchAbort(b) PROVE Change
  BY <1>10 DEF runBranchAbort
<1>11. ASSUME NEW b \in Branch, checkGroupDone(b) PROVE Change
  BY <1>11 DEF checkGroupDone
<1>12. ASSUME NEW b \in Branch, checkGroupScan(b) PROVE Change
  BY <1>12 DEF checkGroupScan
<1>13. ASSUME NEW b \in Branch, deliverFinal(b) PROVE Change
  BY <1>13 DEF deliverFinal
<1>14. ASSUME NEW b \in Branch, deliverCancel(b) PROVE Change
  BY <1>14 DEF deliverCancel
<1>15. ASSUME NEW b \in Branch, deliverRecord(b) PROVE Change
  BY <1>15 DEF deliverRecord
<1>16. ASSUME NEW d \in Deadline, timerCFire(d) PROVE Change
  BY <1>16 DEF timerCFire
<1>17. ASSUME NEW d \in Deadline, timerCCancel(d) PROVE Change
  BY <1>17 DEF timerCCancel
<1>18. ASSUME NEW w \in Worker, forward(w) PROVE Change
  BY <1>18 DEF forward, Respond
<1>19. ASSUME NEW w \in Worker, cleanupGroup(w) PROVE Change
  BY <1>19 DEF cleanupGroup
<1>20. CASE UNCHANGED vars
  BY <1>20 DEF vars
<1> HIDE DEF Change
<1> QED
  BY <1>1, <1>2, <1>3, <1>4, <1>5, <1>6, <1>7, <1>8, <1>9, <1>10, <1>11, <1>12, <1>13, <1>14, <1>15, <1>16, <1>17, <1>18, <1>19, <1>20, Workers
     DEF Next, Fork, runBranch, timerC

\* A branch that was made stays made, only fork makes one, and a
\* transaction of an INVITE that has ended does not start to ring again.
LEMMA TxLasts ==
  ASSUME TypeOK, BranchInv, [Next]_vars, NEW x \in Branch
  PROVE  /\ tx[x] # "none" => tx'[x] # "none"
         /\ ~forkBranch => (tx'[x] # "none" => tx[x] # "none")
         /\ run = Idle /\ req.invite => (Cancellable(x)' => Cancellable(x))
<1>1. CASE tx' = tx
  BY <1>1 DEF Cancellable
<1>2. CASE forkBranch
  <2>1. run # Idle /\ NextBranch \in Branch
    BY <1>2, Forking DEF forkBranch
  <2> QED
    BY <1>2, <2>1 DEF forkBranch, TypeOK
<1>3. ASSUME NEW b \in Branch, Network(b)
      PROVE  /\ tx[x] # "none" => tx'[x] # "none"
             /\ tx'[x] # "none" => tx[x] # "none"
             /\ req.invite => (Cancellable(x)' => Cancellable(x))
  <2>1. req.invite => tx[b] # "trying"
    BY DEF BranchInv, BranchOK
  <2>2. CASE receiveProvisional(b)
    BY <2>1, <2>2 DEF receiveProvisional, TypeOK, Cancellable
  <2>3. CASE timeout(b)
    BY <2>3 DEF timeout, TypeOK, Cancellable
  <2>4. ASSUME NEW c \in Code, receiveFinal(b, c)
        PROVE  /\ tx[b] # "none"
               /\ UNCHANGED tx \/ tx' = [tx EXCEPT ![b] = "completed"]
    <3>1. tx = [tx EXCEPT ![b] = tx[b]]
      BY DEF TypeOK
    <3> QED
      BY <2>4, <3>1 DEF receiveFinal
  <2> QED
    BY <1>3, <2>2, <2>3, <2>4 DEF Network, TypeOK, Cancellable
<1> QED
  BY <1>1, <1>2, <1>3, Changes DEF Change

\* A branch ends once.
LEMMA FinalLasts ==
  ASSUME TypeOK, BranchInv, [Next]_vars, NEW x \in Branch, final[x] # None
  PROVE  final'[x] = final[x]
<1>1. pc[x] # "wait"
  BY DEF BranchInv, BranchOK
<1>2. ASSUME NEW b \in Branch, runBranchEvent(b) \/ runBranchDeadline(b) PROVE final'[x] = final[x]
  BY <1>1, <1>2 DEF runBranchEvent, runBranchDeadline, TypeOK
<1> QED
  BY <1>2, Changes DEF Change

-----------------------------------------------------------------------------
(* The branches that are listed *)

\* What a goroutine may copy.
LEMMA ListFrame ==
  ASSUME TypeOK, ListInv, NEW w \in Worker,
         \A x \in Branch : pc[x] # "none" => pc'[x] # "none",
         group' \in {group, <<>>},
         \A x \in Worker : x # w => todo'[x] = todo[x],
         \/ todo'[w] \in {todo[w], group, <<>>}
         \/ todo[w] # <<>> /\ todo'[w] = Tail(todo[w])
  PROVE  ListInv'
<1>1. \A i \in DOMAIN group' : pc'[group'[i]] # "none"
  BY DEF ListInv, TypeOK
<1>2. ASSUME NEW x \in Worker, NEW i \in DOMAIN todo'[x] PROVE pc'[todo'[x][i]] # "none"
  <2>1. todo[x] \in Seq(Branch) /\ group \in Seq(Branch)
    BY DEF TypeOK
  <2>2. ASSUME NEW j \in DOMAIN todo[x] PROVE pc'[todo[x][j]] # "none"
    BY <2>1 DEF ListInv
  <2>3. ASSUME NEW j \in DOMAIN group PROVE pc'[group[j]] # "none"
    BY <2>1 DEF ListInv
  <2>4. CASE todo'[x] \in {todo[x], group, <<>>}
    BY <1>2, <2>2, <2>3, <2>4
  <2>5. CASE todo[x] # <<>> /\ todo'[x] = Tail(todo[x])
    <3>1. i + 1 \in DOMAIN todo[x] /\ todo'[x][i] = todo[x][i + 1]
      BY <1>2, <2>1, <2>5
    <3> QED
      BY <2>2, <3>1
  <2> QED
    BY <2>4, <2>5
<1> QED
  BY <1>1, <1>2 DEF ListInv

\* Every action keeps ListInv.
LEMMA ListStep ==
  ASSUME TypeOK, RunInv, BranchInv, ListInv, [Next]_vars
  PROVE  ListInv'
<1>1. ASSUME NEW x \in Branch, pc[x] # "none" PROVE pc'[x] # "none"
  BY <1>1, TxLasts, BranchStep DEF BranchInv, BranchOK
<1>2. ASSUME UNCHANGED todo, group' \in {group, <<>>} PROVE ListInv'
  <2>1. <<1, TimerC>> \in Worker
    BY DEF Deadline, Worker
  <2> QED
    BY <1>1, <1>2, <2>1, ListFrame
<1>3. CASE Fork /\ ~forkBranch
  BY <1>2, <1>3 DEF Fork, handleInitialFails, forkStart, ListReset, forkSkip, forkEnd
<1>4. CASE forkBranch
  <2>1. NextBranch \in Branch /\ group \in Seq(Branch)
    BY <1>4, Forking DEF forkBranch, TypeOK
  <2>2. pc'[NextBranch] = "wait"
    BY <1>4, <2>1, Workers DEF forkBranch, TypeOK
  <2>3. ASSUME NEW i \in DOMAIN group' PROVE pc'[group'[i]] # "none"
    <3>1. group' = Append(group, NextBranch)
      BY <1>4 DEF forkBranch
    <3>2. CASE i \in DOMAIN group
      BY <1>1, <2>1, <3>1, <3>2 DEF ListInv
    <3>3. CASE i \notin DOMAIN group
      BY <2>1, <2>2, <3>1, <3>3
    <3> QED
      BY <3>2, <3>3
  <2>4. ASSUME NEW w \in Worker, NEW i \in DOMAIN todo'[w] PROVE pc'[todo'[w][i]] # "none"
    BY <1>1, <1>4 DEF forkBranch, ListInv, TypeOK
  <2> QED
    BY <2>3, <2>4 DEF ListInv
<1>5. CASE handleCancel
  BY <1>2, <1>5 DEF handleCancel
<1>6. ASSUME NEW b \in Branch, Network(b) PROVE ListInv'
  BY <1>2, <1>6 DEF Network, receiveProvisional, receiveFinal, timeout
<1>7. ASSUME NEW w \in Worker, Alone(w), group' \in {group, <<>>},
             \/ todo'[w] \in {todo[w], group, <<>>}
             \/ todo[w] # <<>> /\ todo'[w] = Tail(todo[w])
      PROVE  ListInv'
  BY <1>1, <1>7, ListFrame DEF Alone
<1>8. ASSUME NEW b \in Branch, runBranch(b) PROVE ListInv'
  <2>1. Alone(b) /\ b \in Worker
    BY <1>8, GoroutineAlone, Workers
  <2>2. /\ group' \in {group, <<>>}
        /\ \/ todo'[b] \in {todo[b], group, <<>>}
           \/ todo[b] # <<>> /\ todo'[b] = Tail(todo[b])
    <3> USE <2>1 DEF TypeOK
    <3>1. CASE runBranchEvent(b) \/ runBranchDeadline(b) \/ runBranchAbort(b) \/ deliverRecord(b)
      BY <3>1 DEF runBranchEvent, runBranchDeadline, runBranchAbort, deliverRecord
    <3>2. CASE checkGroupDone(b)
      BY <3>2 DEF checkGroupDone
    <3>3. CASE checkGroupScan(b)
      BY <3>3 DEF checkGroupScan
    <3>4. CASE deliverFinal(b)
      BY <3>4 DEF deliverFinal
    <3>5. CASE deliverCancel(b)
      BY <3>5 DEF deliverCancel
    <3>6. CASE forward(b) \/ cleanupGroup(b)
      BY <3>6 DEF forward, cleanupGroup
    <3> QED
      BY <1>8, <3>1, <3>2, <3>3, <3>4, <3>5, <3>6 DEF runBranch
  <2> QED
    BY <1>7, <2>1, <2>2
<1>9. ASSUME NEW d \in Deadline, timerC(d) PROVE ListInv'
  <2>1. Alone(d) /\ d \in Worker
    BY <1>9, GoroutineAlone, Workers
  <2>2. /\ group' \in {group, <<>>}
        /\ \/ todo'[d] \in {todo[d], group, <<>>}
           \/ todo[d] # <<>> /\ todo'[d] = Tail(todo[d])
    <3> USE <2>1 DEF TypeOK
    <3>1. CASE timerCFire(d)
      BY <3>1 DEF timerCFire
    <3>2. CASE timerCCancel(d)
      BY <3>2 DEF timerCCancel, BranchInv, DeadlineOK
    <3>3. CASE forward(d) \/ cleanupGroup(d)
      BY <3>3 DEF forward, cleanupGroup
    <3> QED
      BY <1>9, <3>1, <3>2, <3>3 DEF timerC
  <2> QED
    BY <1>7, <2>1, <2>2
<1>10. CASE UNCHANGED vars
  BY <1>2, <1>10 DEF vars
<1> QED
  BY <1>3, <1>4, <1>5, <1>6, <1>8, <1>9, <1>10 DEF Next

-----------------------------------------------------------------------------
(* Somebody is at work *)

\* Every action keeps LiveInv.
LEMMA LiveStep ==
  ASSUME TypeOK, RunInv, BranchInv, ListInv, LiveInv, [Next]_vars
  PROVE  LiveInv'
<1> DEFINE Claimed == \E b \in Branch : pc[b] \in {"cancel", "respond"}
           Left    == \E b \in Branch : pc[b] = "done"
           Working == \E b \in Branch : pc[b] \notin {"none", "done"}
<1> SUFFICES ASSUME upstream' = None, ~withdrawn'
             PROVE  (cancelled' => Claimed') /\ (Left' => Working')
  BY DEF LiveInv
<1>1. upstream = None /\ (cancelled => Claimed) /\ (Left => Working)
  BY Changes DEF Change, LiveInv
<1>2. ASSUME \A b \in Branch : pc'[b] = pc[b], cancelled' => cancelled
      PROVE  (cancelled' => Claimed') /\ (Left' => Working')
  BY <1>1, <1>2
<1>3. CASE handleInitialFails \/ forkStart \/ forkSkip
  BY <1>2, <1>3 DEF handleInitialFails, forkStart, forkSkip
<1>4. CASE forkBranch
  <2>1. NextBranch \in Branch
    BY <1>4, Forking DEF forkBranch
  <2>2. \A x \in Branch : pc'[x] = IF x = NextBranch THEN "wait" ELSE pc[x]
    BY <1>4, <2>1, Workers DEF forkBranch, TypeOK
  <2>3. pc[NextBranch] = "none"
    <3>1. run.next \in run.next..Len(Targets) /\ run # Idle
      BY <1>4, Forking, TargetsDomain DEF forkBranch
    <3> QED
      BY <2>1, <3>1 DEF RunInv, Ahead, NextBranch
  <2>4. cancelled' = cancelled
    BY <1>4 DEF forkBranch
  <2> QED
    BY <1>1, <2>1, <2>2, <2>3, <2>4
<1>5. CASE forkEnd
  BY <1>2, <1>5, TimerStarts DEF forkEnd
<1>6. CASE handleCancel
  BY <1>6 DEF handleCancel
<1>7. ASSUME NEW b \in Branch, Network(b) PROVE (cancelled' => Claimed') /\ (Left' => Working')
  BY <1>2, <1>7 DEF Network, receiveProvisional, receiveFinal, timeout
<1>8. ASSUME NEW b \in Branch, runBranch(b) PROVE (cancelled' => Claimed') /\ (Left' => Working')
  <2>1. \A x \in Branch : x # b => pc'[x] = pc[x]
    BY <1>8, GoroutineAlone, Workers DEF Alone
  <2>2. CASE runBranchEvent(b)
    <3>1. pc[b] = "wait" /\ pc'[b] \in {"deliver", "check"} /\ cancelled' = cancelled
      BY <2>2, Workers DEF runBranchEvent, AfterEvent, Goto, TypeOK
    <3> QED
      BY <1>1, <2>1, <3>1
  <2>3. CASE runBranchDeadline(b)
    <3>1. pc[b] = "wait" /\ pc'[b] = "abort" /\ cancelled' = cancelled
      BY <2>3, Workers DEF runBranchDeadline, Goto, TypeOK
    <3> QED
      BY <1>1, <2>1, <3>1
  <2>4. CASE runBranchAbort(b)
    <3>1. pc[b] = "abort" /\ pc'[b] = "check" /\ cancelled' = cancelled
      BY <2>4, Workers DEF runBranchAbort, Goto, TypeOK
    <3> QED
      BY <1>1, <2>1, <3>1
  <2>5. CASE checkGroupDone(b)
    <3>1. /\ pc[b] = "check" /\ pc'[b] = (IF cancelled THEN "done" ELSE "scan")
          /\ cancelled' = cancelled
      BY <2>5, Workers DEF checkGroupDone, Goto, TypeOK
    <3> QED
      BY <1>1, <2>1, <3>1
  <2>6. CASE checkGroupScan(b)
    <3>1. pc[b] = "scan" /\ pc'[b] \in {"respond", "done"} /\ cancelled' = cancelled
      BY <2>6, Workers DEF checkGroupScan, Goto, TypeOK
    <3>2. ASSUME pc'[b] = "done" PROVE \E x \in Branch : pc[x] = "wait"
      <4>1. PICK i \in DOMAIN todo[b] : final[todo[b][i]] = None
        BY <2>6, <3>2, Workers DEF checkGroupScan, Goto, TypeOK
      <4>2. todo[b][i] \in Branch
        BY <4>1, Workers DEF TypeOK
      <4>3. pc[todo[b][i]] \in {"none", "wait"}
        BY <4>1, <4>2 DEF BranchInv, BranchOK
      <4>4. pc[todo[b][i]] # "none"
        BY Workers DEF ListInv
      <4> QED
        BY <4>2, <4>3, <4>4
    <3> QED
      BY <1>1, <2>1, <3>1, <3>2
  <2>7. CASE deliverFinal(b)
    <3>1. pc[b] = "deliver" /\ pc'[b] = (IF cancelled THEN "done" ELSE "cancel")
      BY <2>7, Workers DEF deliverFinal, Goto, TypeOK
    <3> QED
      BY <1>1, <2>1, <3>1
  <2>8. CASE deliverCancel(b)
    BY <1>2, <2>8 DEF deliverCancel
  <2>9. CASE deliverRecord(b)
    <3>1. pc'[b] = "respond"
      BY <2>9, Workers DEF deliverRecord, Goto, TypeOK
    <3> QED
      BY <1>1, <2>1, <3>1
  <2>10. CASE forward(b)
    <3>1. reply[b] \in Answer
      BY <2>10, Workers DEF forward, BranchInv, WorkerOK, TypeOK
    <3> QED
      BY <2>10, <3>1, RespondOnce DEF forward
  <2>11. CASE cleanupGroup(b)
    BY <1>1, <2>11, Workers DEF cleanupGroup, BranchInv, WorkerOK
  <2> QED
    BY <1>8, <2>2, <2>3, <2>4, <2>5, <2>6, <2>7, <2>8, <2>9, <2>10, <2>11 DEF runBranch
<1>9. ASSUME NEW d \in Deadline, timerC(d) PROVE (cancelled' => Claimed') /\ (Left' => Working')
  <2>1. \A x \in Branch : pc'[x] = pc[x]
    BY <1>9, GoroutineAlone, Workers DEF Alone
  <2>2. cancelled' => cancelled
    BY <1>9, Zenon DEF timerC, timerCFire, timerCCancel, forward, cleanupGroup
  <2> QED
    BY <1>2, <2>1, <2>2
<1>10. CASE UNCHANGED vars
  BY <1>2, <1>10 DEF vars
<1> QED
  BY <1>3, <1>4, <1>5, <1>6, <1>7, <1>8, <1>9, <1>10 DEF Next, Fork

-----------------------------------------------------------------------------
(* The caller is given the best response *)

\* A branch that is quiet stays so once fork is over.
LEMMA QuietLasts ==
  ASSUME TypeOK, BranchInv, [Next]_vars, run = Idle, req.invite, NEW x \in Branch, Quiet(x)
  PROVE  Quiet(x)'
<1>1. Cancellable(x)' => Cancellable(x)
  BY TxLasts
<1>2. x \in cancelSent => x \in cancelSent'
  BY Changes DEF Change
<1>3. final[x] # None => final'[x] # None
  BY FinalLasts
<1> QED
  BY <1>1, <1>2, <1>3 DEF Quiet

\* A response that is due stays so once fork is over.
LEMMA DueLasts ==
  ASSUME TypeOK, BranchInv, [Next]_vars, run = Idle, NEW a, Due(a)
  PROVE  Due(a)'
<1>1. req' = req
  BY Changes DEF Change
<1>2. ~forkBranch
  BY DEF forkBranch, Idle
<1>3. ASSUME req.invite, Success(a.code), NEW b \in Branch PROVE Quiet(b)'
  BY <1>3, QuietLasts DEF Due
<1>4. ASSUME ~Success(a.code), a.code \notin {483, 500, 504}, NEW b \in Branch, tx'[b] # "none"
      PROVE  final'[b] # None /\ Rank(final'[b]) <= Rank(a.code)
  <2>1. tx[b] # "none"
    BY <1>2, <1>4, TxLasts
  <2>2. final[b] # None /\ Rank(final[b]) <= Rank(a.code)
    BY <1>4, <2>1 DEF Due
  <2> QED
    BY <2>2, FinalLasts
<1> QED
  BY <1>1, <1>3, <1>4 DEF Due

\* The proxy's own failures are always due.
LEMMA OwnDue ==
  ASSUME NEW c \in {483, 500, 504}, NEW a, a = Reply(c, None)
  PROVE  Due(a) /\ Due(a)'
<1>1. a.code = c /\ ~Success(c)
  BY DEF Reply, Success
<1> QED
  BY <1>1 DEF Due

\* The goroutines wait while fork is at work.
LEMMA CoverForks ==
  ASSUME TypeOK, RunInv, BranchInv, CoverInv, [Next]_vars,
         req.passes = 1, ~early, ~early', run' # Idle
  PROVE  /\ upstream' = None
         /\ \A b \in Branch : pc'[b] \in {"none", "wait"}
         /\ \A d \in Deadline : pc'[d] = "none"
<1> DEFINE Goal == /\ upstream' = None
                   /\ \A b \in Branch : pc'[b] \in {"none", "wait"}
                   /\ \A d \in Deadline : pc'[d] = "none"
<1>1. run # Idle
  BY Changes DEF Change, Idle
<1>2. /\ upstream = None
      /\ \A b \in Branch : pc[b] \in {"none", "wait"}
      /\ \A d \in Deadline : pc[d] = "none"
  BY <1>1 DEF CoverInv
<1>3. AfterPass(run.pass) = Idle
  <2>1. run.pass \in 1..2
    BY <1>1 DEF TypeOK
  <2> QED
    BY <2>1 DEF AfterPass
<1>4. CASE handleInitialFails \/ forkEnd
  BY <1>3, <1>4 DEF handleInitialFails, forkEnd
<1>5. CASE forkStart
  BY <1>2, <1>3, <1>5 DEF forkStart
<1>6. CASE forkBranch
  <2>1. NextBranch \in Branch
    BY <1>6, Forking DEF forkBranch
  <2>2. upstream' = upstream /\ \A x \in Worker : pc'[x] = IF x = NextBranch THEN "wait" ELSE pc[x]
    BY <1>6, <2>1, Workers DEF forkBranch, TypeOK
  <2> QED
    BY <1>2, <2>1, <2>2, Workers
<1>7. CASE forkSkip \/ handleCancel
  BY <1>2, <1>7 DEF forkSkip, handleCancel
<1>8. ASSUME NEW b \in Branch, Network(b) PROVE Goal
  BY <1>2, <1>8 DEF Network, receiveProvisional, receiveFinal, timeout
<1>9. ASSUME NEW b \in Branch, runBranch(b) PROVE FALSE
  <2>1. CASE runBranchEvent(b) \/ runBranchDeadline(b)
    BY <1>1, <2>1, Zenon DEF runBranchEvent, runBranchDeadline
  <2>2. CASE ~(runBranchEvent(b) \/ runBranchDeadline(b))
    <3>1. pc[b] \notin {"none", "wait"}
      BY <1>9, <2>2, Zenon DEF runBranch, runBranchAbort, checkGroupDone, checkGroupScan,
         deliverFinal, deliverCancel, deliverRecord, forward, cleanupGroup
    <3> QED
      BY <1>2, <3>1
  <2> QED
    BY <2>1, <2>2
<1>10. ASSUME NEW d \in Deadline, timerC(d) PROVE FALSE
  BY <1>2, <1>10, Zenon DEF timerC, timerCFire, timerCCancel, forward, cleanupGroup
<1>11. CASE UNCHANGED vars
  BY <1>2, <1>11 DEF vars
<1> HIDE DEF Goal
<1>12. Goal
  <2> USE DEF Goal
  <2> QED
    BY <1>4, <1>5, <1>6, <1>7, <1>8, <1>9, <1>10, <1>11 DEF Next, Fork
<1> QED
  BY <1>12 DEF Goal

\* What others do leaves a goroutine where it is, or starts it.
LEMMA Untouched ==
  ASSUME TypeOK, [Next]_vars, NEW w \in Worker,
         ~(w \in Branch /\ runBranch(w)), ~(w \in Deadline /\ timerC(w))
  PROVE  pc'[w] \in {pc[w], "wait"} /\ todo'[w] = todo[w] /\ reply'[w] = reply[w]
<1> DEFINE Goal == pc'[w] \in {pc[w], "wait"} /\ todo'[w] = todo[w] /\ reply'[w] = reply[w]
<1>1. CASE handleInitialFails \/ forkStart \/ forkSkip \/ handleCancel
  BY <1>1 DEF handleInitialFails, forkStart, forkSkip, handleCancel
<1>2. CASE forkBranch
  BY <1>2 DEF forkBranch, TypeOK
<1>3. CASE forkEnd
  BY <1>3, TimerStarts, SMTT(30) DEF forkEnd
<1>4. ASSUME NEW b \in Branch, Network(b) PROVE Goal
  BY <1>4 DEF Network, receiveProvisional, receiveFinal, timeout
<1>5. ASSUME NEW b \in Branch, runBranch(b) PROVE Goal
  BY <1>5, GoroutineAlone, Workers DEF Alone
<1>6. ASSUME NEW d \in Deadline, timerC(d) PROVE Goal
  BY <1>6, GoroutineAlone, Workers DEF Alone
<1>7. CASE UNCHANGED vars
  BY <1>7 DEF vars
<1> QED
  BY <1>1, <1>2, <1>3, <1>4, <1>5, <1>6, <1>7 DEF Next, Fork

\* Where runBranch gets to.
LEMMA Arrives ==
  ASSUME TypeOK, NEW b \in Branch, runBranch(b)
  PROVE  \/ pc'[b] \in {"deliver", "check", "abort", "done", "cleanup"}
         \/ checkGroupDone(b) /\ pc'[b] = "scan"
         \/ checkGroupScan(b) /\ pc'[b] = "respond"
         \/ deliverFinal(b) /\ pc'[b] = "cancel"
         \/ deliverCancel(b) /\ pc'[b] = "cancel"
         \/ deliverRecord(b) /\ pc'[b] = "respond"
<1> USE Workers DEF Goto, TypeOK
<1>1. CASE runBranchEvent(b)
  BY <1>1 DEF runBranchEvent, AfterEvent
<1>2. CASE runBranchDeadline(b)
  BY <1>2 DEF runBranchDeadline
<1>3. CASE runBranchAbort(b)
  BY <1>3 DEF runBranchAbort
<1>4. CASE checkGroupDone(b)
  BY <1>4 DEF checkGroupDone
<1>5. CASE checkGroupScan(b)
  BY <1>5 DEF checkGroupScan
<1>6. CASE deliverFinal(b)
  BY <1>6 DEF deliverFinal
<1>7. CASE deliverCancel(b)
  BY <1>7 DEF deliverCancel
<1>8. CASE deliverRecord(b)
  BY <1>8 DEF deliverRecord
<1>9. CASE forward(b)
  BY <1>9 DEF forward
<1>10. CASE cleanupGroup(b)
  BY <1>10 DEF cleanupGroup
<1> QED
  BY <1>1, <1>2, <1>3, <1>4, <1>5, <1>6, <1>7, <1>8, <1>9, <1>10, SMTT(30) DEF runBranch

\* A sequence goes on having all the branches.
LEMMA CoversLasts ==
  ASSUME TypeOK, BranchInv, [Next]_vars, ~forkBranch, NEW s, Covers(s)
  PROVE  Covers(s)'
  BY TxLasts DEF Covers

\* The group is complete until the caller is answered.
LEMMA CoverGroup ==
  ASSUME TypeOK, RunInv, BranchInv, CoverInv, [Next]_vars,
         req.passes = 1, ~early, upstream = None, upstream' = None
  PROVE  Covers(group)'
<1>1. Covers(group)
  BY DEF CoverInv
<1>2. ASSUME group' = group, ~forkBranch PROVE Covers(group)'
  BY <1>1, <1>2, TxLasts DEF Covers
<1>3. CASE forkStart
  <2>1. run # Idle /\ run.pass = 1 /\ run.next = 1
    <3>1. run # Idle /\ run.pass \in 1..2 /\ run.pass <= req.passes
      BY <1>3, Forking DEF forkStart, RunInv
    <3> QED
      BY <1>3, <3>1 DEF forkStart, RunInv
  <2>2. ASSUME NEW b \in Branch PROVE tx'[b] = "none"
    <3>1. b[1] \in 1..2 /\ \E i \in 1..Len(Targets) : b[2] = Targets[i]
      BY TargetsDomain DEF Branch, Target
    <3>2. Ahead(b)
      BY <2>1, <3>1 DEF Ahead
    <3> QED
      BY <1>3, <3>2 DEF forkStart, RunInv, BranchInv, BranchOK
  <2> QED
    BY <2>2 DEF Covers
<1>4. CASE forkBranch
  <2>1. NextBranch \in Branch /\ group \in Seq(Branch) /\ group' = Append(group, NextBranch)
    BY <1>4, Forking DEF forkBranch, TypeOK
  <2>2. ASSUME NEW b \in Branch, tx'[b] # "none" PROVE \E i \in DOMAIN group' : group'[i] = b
    <3>1. CASE b = NextBranch
      <4>1. Len(group) + 1 \in DOMAIN group' /\ group'[Len(group) + 1] = b
        BY <2>1, <3>1
      <4> QED
        BY <4>1
    <3>2. CASE b # NextBranch
      <4>1. tx[b] # "none"
        BY <1>4, <2>1, <2>2, <3>2 DEF forkBranch, TypeOK
      <4>2. PICK i \in DOMAIN group : group[i] = b
        BY <1>1, <4>1 DEF Covers
      <4>3. i \in DOMAIN group' /\ group'[i] = b
        BY <2>1, <4>2
      <4> QED
        BY <4>3
    <3> QED
      BY <3>1, <3>2
  <2> QED
    BY <2>2 DEF Covers
<1>5. CASE handleInitialFails \/ forkSkip \/ forkEnd \/ handleCancel
  BY <1>2, <1>4, <1>5 DEF handleInitialFails, forkSkip, forkEnd, handleCancel
<1>6. ASSUME NEW b \in Branch, Network(b) PROVE group' = group
  BY <1>6 DEF Network, receiveProvisional, receiveFinal, timeout
<1>7. ASSUME NEW b \in Branch, runBranch(b) PROVE group' = group
  <2>1. ~cleanupGroup(b)
    BY Workers, Zenon DEF cleanupGroup, BranchInv, WorkerOK
  <2> QED
    BY <1>7, <2>1, ZenonT(30) DEF runBranch, runBranchEvent, runBranchDeadline, runBranchAbort,
       checkGroupDone, checkGroupScan, deliverFinal, deliverCancel, deliverRecord, forward
<1>8. ASSUME NEW d \in Deadline, timerC(d) PROVE group' = group
  <2>1. ~cleanupGroup(d)
    BY Workers DEF cleanupGroup, BranchInv, WorkerOK
  <2> QED
    BY <1>8, <2>1, ZenonT(30) DEF timerC, timerCFire, timerCCancel, forward
<1>9. CASE UNCHANGED vars
  BY <1>2, <1>4, <1>9 DEF vars
<1> QED
  BY <1>2, <1>3, <1>4, <1>5, <1>6, <1>7, <1>8, <1>9 DEF Next, Fork

\* A goroutine at work means that fork is over.
LEMMA Settled ==
  ASSUME CoverInv, req.passes = 1, ~early, NEW w \in Worker, pc[w] \notin {"none", "wait"}
  PROVE  run = Idle
  BY DEF CoverInv, Worker

\* A copy that checkGroupDone works on is complete.
LEMMA CoverScan ==
  ASSUME TypeOK, RunInv, BranchInv, CoverInv, [Next]_vars,
         req.passes = 1, ~early, upstream = None, upstream' = None,
         NEW b \in Branch, pc'[b] = "scan"
  PROVE  Covers(todo[b])'
<1>1. CASE runBranch(b)
  <2>1. checkGroupDone(b)
    BY <1>1, Arrives
  <2>2. todo'[b] = group /\ group' = group
    BY <2>1, Workers DEF checkGroupDone, Goto, TypeOK
  <2>3. Covers(group)'
    BY CoverGroup
  <2> QED
    BY <2>2, <2>3 DEF Covers
<1>2. CASE ~runBranch(b)
  <2>1. pc[b] = "scan" /\ todo'[b] = todo[b]
    BY <1>2, Untouched, Workers
  <2>2. Covers(todo[b]) /\ run = Idle
    BY <2>1, Settled, Workers, SMTT(30) DEF CoverInv
  <2>3. ~forkBranch
    BY <2>2 DEF forkBranch, Idle
  <2> QED
    BY <2>1, <2>2, <2>3, TxLasts DEF Covers
<1> QED
  BY <1>1, <1>2

\* What deliverFinal no longer has before it is quiet.
LEMMA CoverCancel ==
  ASSUME TypeOK, RunInv, BranchInv, CoverInv, [Next]_vars,
         req.passes = 1, ~early, upstream = None, upstream' = None, req.invite,
         NEW b \in Branch, pc'[b] = "cancel", NEW x \in Branch
  PROVE  Quiet(x)' \/ \E i \in DOMAIN todo'[b] : todo'[b][i] = x
<1>1. CASE runBranch(b) /\ deliverFinal(b)
  <2>1. todo'[b] = group /\ UNCHANGED <<tx, final, cancelSent>>
    BY <1>1, Workers DEF deliverFinal, Goto, TypeOK
  <2>2. CASE tx[x] # "none"
    BY <2>1, <2>2, SMTT(30) DEF CoverInv, Covers
  <2>3. CASE tx[x] = "none"
    BY <2>1, <2>3 DEF Quiet, Cancellable
  <2> QED
    BY <2>2, <2>3, SMTT(30)
<1>2. CASE runBranch(b) /\ deliverCancel(b)
  <2>1. /\ pc[b] = "cancel" /\ todo[b] # <<>> /\ todo[b] \in Seq(Branch)
        /\ todo'[b] = Tail(todo[b])
        /\ UNCHANGED <<tx, final>>
        /\ cancelSent' = cancelSent \cup CancelOther(b, Head(todo[b]))
    BY <1>2, Workers, SMTT(30) DEF deliverCancel, TypeOK
  <2>2. CASE x = Head(todo[b])
    <3>1. final[b] # None
      BY <2>1 DEF BranchInv, BranchOK
    <3> QED
      BY <2>1, <2>2, <3>1, SMTT(30) DEF CancelOther, Quiet, Cancellable
  <2>3. CASE x # Head(todo[b]) /\ Quiet(x)
    BY <2>1, <2>3 DEF Quiet, Cancellable
  <2>4. CASE x # Head(todo[b]) /\ ~Quiet(x)
    <3>1. PICK i \in DOMAIN todo[b] : todo[b][i] = x
      BY <2>1, <2>4 DEF CoverInv
    <3>2. i - 1 \in DOMAIN todo'[b] /\ todo'[b][i - 1] = x
      BY <2>1, <2>4, <3>1, SMTT(30)
    <3> QED
      BY <3>2
  <2> QED
    BY <2>2, <2>3, <2>4
<1>3. CASE ~runBranch(b)
  <2>1. pc[b] = "cancel" /\ todo'[b] = todo[b]
    BY <1>3, Untouched, Workers
  <2>2. run = Idle
    BY <2>1, Settled, Workers
  <2>3. Quiet(x) \/ \E i \in DOMAIN todo[b] : todo[b][i] = x
    BY <2>1 DEF CoverInv
  <2> QED
    BY <2>1, <2>2, <2>3, QuietLasts
<1> QED
  BY <1>1, <1>2, <1>3, Arrives, SMTT(30)

\* A response on its way up is due.
LEMMA CoverRespond ==
  ASSUME TypeOK, RunInv, BranchInv, CoverInv, [Next]_vars,
         req.passes = 1, ~early, upstream = None, upstream' = None,
         NEW w \in Worker, pc'[w] = "respond"
  PROVE  Due(reply[w])'
<1>1. PICK a : a = reply'[w]
  OBVIOUS
<1> SUFFICES Due(a)'
  BY <1>1, SMTT(30) DEF Due
<1>2. CASE w \in Deadline
  <2>1. reply'[w] = Reply(504, None)
    BY <1>2, BranchStep DEF BranchInv, DeadlineOK, WorkerOK
  <2> QED
    BY <1>1, <2>1, OwnDue
<1>3. CASE w \in Branch /\ runBranch(w) /\ checkGroupScan(w)
  <2>1. CASE reply'[w] = Reply(500, None)
    BY <1>1, <2>1, OwnDue
  <2>2. ASSUME NEW x \in Branch, reply'[w] = Reply(final[x], x),
               \A j \in DOMAIN todo[w] :
                 final[todo[w][j]] # None /\ Rank(final[todo[w][j]]) <= Rank(final[x])
        PROVE  Due(a)'
    <3>1. a.code = final[x]
      BY <1>1, <2>2 DEF Reply
    <3>2. Covers(todo[w])
      BY <1>3, SMTT(30) DEF CoverInv, checkGroupScan
    <3>3. ASSUME NEW y \in Branch, tx[y] # "none"
          PROVE  final[y] # None /\ Rank(final[y]) <= Rank(a.code)
      BY <2>2, <3>1, <3>2, <3>3, SMTT(30) DEF Covers
    <3>4. UNCHANGED <<req, tx, final, cancelSent>>
      BY <1>3, ZenonT(30) DEF checkGroupScan
    <3>5. \A y \in Branch : Quiet(y)'
      BY <3>3, <3>4 DEF Quiet, Cancellable
    <3> QED
      BY <3>3, <3>4, <3>5 DEF Due
  <2> QED
    BY <1>3, <2>1, <2>2, ScanReply, SMTT(30)
<1>4. CASE w \in Branch /\ runBranch(w) /\ deliverRecord(w)
  <2>1. /\ pc[w] = "cancel" /\ todo[w] = <<>> /\ reply'[w] = Reply(final[w], w)
        /\ UNCHANGED <<req, tx, final, cancelSent>>
    BY <1>4 DEF deliverRecord, TypeOK
  <2>2. Success(a.code)
    <3>1. a.code = final[w]
      BY <1>1, <2>1 DEF Reply
    <3>2. Success(final[w])
      BY <1>4, <2>1 DEF BranchInv, BranchOK
    <3> QED
      BY <3>1, <3>2
  <2>3. ASSUME req.invite, NEW x \in Branch PROVE Quiet(x)'
    <3>1. Quiet(x) \/ \E i \in DOMAIN todo[w] : todo[w][i] = x
      BY <1>4, <2>1, <2>3, Zenon DEF CoverInv
    <3>2. DOMAIN todo[w] = {}
      BY <2>1
    <3> QED
      BY <2>1, <3>1, <3>2, Zenon DEF Quiet, Cancellable
  <2> QED
    BY <2>1, <2>2, <2>3 DEF Due
<1>5. CASE w \in Branch /\ ~runBranch(w)
  <2>1. pc[w] = "respond" /\ reply'[w] = reply[w]
    BY <1>5, Untouched, Workers, SMTT(30)
  <2>2. run = Idle /\ Due(reply[w])
    BY <2>1, Settled, ZenonT(30) DEF CoverInv
  <2>3. Due(a)
    BY <1>1, <2>1, <2>2, SMTT(30)
  <2> QED
    BY <2>2, <2>3, DueLasts
<1> QED
  BY <1>2, <1>3, <1>4, <1>5, Arrives DEF Worker

\* The response that went up was due, and stays so.
LEMMA CoverUp ==
  ASSUME TypeOK, RunInv, BranchInv, CoverInv, [Next]_vars,
         req.passes = 1, ~early, upstream' # None
  PROVE  Due(upstream)'
<1>1. PICK a : a = upstream'
  OBVIOUS
<1> SUFFICES Due(a)'
  BY <1>1 DEF Due
<1>2. CASE upstream # None
  <2>1. upstream' = upstream
    BY <1>2, Changes DEF Change
  <2>2. run = Idle /\ Due(upstream)
    BY <1>2 DEF CoverInv
  <2>3. Due(a)
    BY <1>1, <2>1, <2>2
  <2> QED
    BY <2>2, <2>3, DueLasts
<1>3. CASE upstream = None
  <2>1. CASE handleInitialFails
    BY <1>1, <1>3, <2>1, OwnDue DEF handleInitialFails, Respond
  <2>2. CASE forkStart
    BY <1>1, <1>3, <2>2, OwnDue DEF forkStart, Respond
  <2>3. ASSUME NEW w \in Worker, forward(w) PROVE Due(a)'
    <3>1. /\ pc[w] = "respond" /\ upstream' = reply[w]
          /\ UNCHANGED <<req, tx, final, cancelSent>>
      BY <1>3, <2>3 DEF forward, Respond
    <3>2. Due(reply[w])
      BY <1>3, <3>1 DEF CoverInv
    <3>3. Due(a)
      BY <1>1, <3>1, <3>2
    <3>4. run = Idle
      BY <3>1, Settled
    <3> QED
      BY <3>3, <3>4, DueLasts
  <2>4. CASE upstream' = upstream
    BY <1>3, <2>4
  <2>5. \/ handleInitialFails \/ forkStart \/ \E w \in Worker : forward(w)
        \/ upstream' = upstream
    BY Workers, Zenon DEF Next, vars, Fork, forkBranch, forkSkip, forkEnd, handleCancel, Network,
       receiveProvisional, receiveFinal, timeout, runBranch, runBranchEvent,
       runBranchDeadline, runBranchAbort, checkGroupDone, checkGroupScan, deliverFinal,
       deliverCancel, deliverRecord, cleanupGroup, timerC, timerCFire, timerCCancel
  <2> QED
    BY <2>1, <2>2, <2>3, <2>4, <2>5
<1> QED
  BY <1>2, <1>3

\* Every action keeps CoverInv.
LEMMA CoverStep ==
  ASSUME TypeOK, RunInv, BranchInv, CoverInv, [Next]_vars
  PROVE  CoverInv'
<1> SUFFICES ASSUME req'.passes = 1, ~early'
             PROVE  /\ run' # Idle => /\ upstream' = None
                                      /\ \A b \in Branch : pc'[b] \in {"none", "wait"}
                                      /\ \A d \in Deadline : pc'[d] = "none"
                    /\ upstream' = None =>
                         /\ Covers(group)'
                         /\ \A b \in Branch : pc'[b] = "scan" => Covers(todo[b])'
                         /\ \A b \in Branch : pc'[b] = "cancel" /\ req'.invite =>
                              \A x \in Branch :
                                Quiet(x)' \/ \E i \in DOMAIN todo'[b] : todo'[b][i] = x
                         /\ \A w \in Worker : pc'[w] = "respond" => Due(reply[w])'
                    /\ upstream' # None => Due(upstream)'
  BY SMTT(30) DEF CoverInv
<1>1. req' = req /\ ~early /\ (upstream' = None => upstream = None)
  BY Changes DEF Change
<1> QED
  BY <1>1, CoverForks, CoverGroup, CoverScan, CoverCancel, CoverRespond, CoverUp

-----------------------------------------------------------------------------
(* The theorems *)

\* IInv holds initially.
LEMMA InitInv == ASSUME Init PROVE IInv
<1>1. PlaceInv
  BY InitPlace
<1>2. ListInv
  BY DEF Init, ListInv
<1>3. LiveInv
  BY Workers DEF Init, LiveInv
<1>4. CoverInv
  BY Workers DEF Init, CoverInv, Covers
<1> QED
  BY <1>1, <1>2, <1>3, <1>4 DEF IInv

\* IInv is inductive.
LEMMA StepInv == ASSUME IInv, [Next]_vars PROVE IInv'
  BY StepPlace, ListStep, LiveStep, CoverStep DEF IInv, PlaceInv

LEMMA Invariance == Spec => []IInv
  BY InitInv, StepInv, PTL DEF Spec

\* Once fork is over and every runBranch has returned, the caller has its response,
\* unless it cancelled: no order of the goroutines loses the last one's answer.
THEOREM LastAnswers == Spec => []LastBranchAnswers
<1>1. IInv => LastBranchAnswers
  BY DEF IInv, LiveInv, LastBranchAnswers
<1> QED
  BY <1>1, Invariance, PTL

\* checkGroupDone forwards a failure of the callees when every branch has ended, and
\* no branch has a higher rank.
THEOREM BestIsForwarded == Spec => []BestForwarded
<1>1. IInv => BestForwarded
  BY DEF IInv, CoverInv, Due, BestForwarded
<1> QED
  BY <1>1, Invariance, PTL

\* deliverFinal has cancelled the branches that ring before it forwards a success.
THEOREM LosersAreCancelled == Spec => []LosersCancelled
<1>1. IInv => LosersCancelled
  BY SMTT(30) DEF IInv, PlaceInv, TypeOK, Kind, CoverInv, Due, Quiet, LosersCancelled
<1> QED
  BY <1>1, Invariance, PTL
=============================================================================
