--------------------------- MODULE ProxyForkTypes ---------------------------
(* What the places of the goroutines of ProxyFork say about the branches, for *)
(* any targets and any codes: the invariants TypeOK, RunInv and BranchInv.    *)
EXTENDS ProxyFork, WellFoundedInduction, TLAPS

-----------------------------------------------------------------------------
(* The inductive invariant *)

\* The branches that fork has yet to make.
Ahead(b) ==
  /\ run # Idle
  /\ \/ b[1] > run.pass
     \/ b[1] = run.pass /\ \E i \in run.next..Len(Targets) : b[2] = Targets[i]

\* The Run goroutine makes each branch once, and no more than there are targets.
RunInv ==
  /\ \A b \in Branch : Ahead(b) => pc[b] = "none"
  /\ run # Idle => run.pass <= req.passes
  /\ run # Idle /\ run.pc = "initial" => run.next = 1
  /\ run # Idle /\ run.pc = "fork" => Len(group) < run.next

\* What the place of a goroutine says about its branch and its response.
BranchOK(b) ==
  /\ pc[b] = "none" <=> tx[b] = "none"
  /\ pc[b] \in {"none", "wait"} <=> final[b] = None
  /\ pc[b] \in {"deliver", "cancel"} => Success(final[b])
  /\ req.invite => tx[b] # "trying"

DeadlineOK(d) ==
  /\ pc[d] \in {"none", "wait", "cancel", "respond", "cleanup", "done"}
  /\ pc[d] = "cancel" => todo[d] # <<>>
  /\ reply[d] \in {None, Reply(504, None)}

WorkerOK(w) ==
  /\ pc[w] = "respond" => reply[w] # None
  /\ pc[w] = "cleanup" => upstream # None

BranchInv ==
  /\ \A b \in Branch : BranchOK(b)
  /\ \A d \in Deadline : DeadlineOK(d)
  /\ \A w \in Worker : WorkerOK(w)

\* The three of them are inductive.
PlaceInv == TypeOK /\ RunInv /\ BranchInv

-----------------------------------------------------------------------------
(* Types *)

\* Where the Run goroutine may be.
Place == {Idle} \cup [pc : {"initial", "fork"}, pass : 1..2, next : 1..Len(Targets) + 1]

\* Where a goroutine may be.
Label == {"none", "wait", "abort", "check", "scan", "deliver", "cancel", "respond",
          "cleanup", "done"}

\* The assumption, taken apart for the provers.
LEMMA Constants ==
  /\ Request \subseteq Kind
  /\ Targets \in Seq(Target)
  /\ \A i, j \in DOMAIN Targets : Targets[i] = Targets[j] => i = j
  /\ Code \subseteq 200..699
  BY ProxyForkAssumption, ZenonT(30)

\* No branch, no response and no code is None.
LEMMA NoneIsNone == None \notin Branch /\ None \notin Answer /\ None \notin 0..699
  BY ProxyForkAssumption, ZenonT(30)

\* The targets are counted from 1.
LEMMA TargetsDomain == Len(Targets) \in Nat /\ DOMAIN Targets = 1..Len(Targets)
<1>1. Targets \in Seq(Target)
  BY Constants
<1> QED
  BY <1>1

\* A branch and a Timer C callback are different goroutines.
LEMMA Workers ==
  /\ Branch \subseteq Worker
  /\ Deadline \subseteq Worker
  /\ \A b \in Branch : b \notin Deadline
  BY ProxyForkAssumption DEF Branch, Deadline, Worker

\* Where the Run goroutine goes after a pass.
LEMMA AfterPassType ==
  ASSUME req \in Kind, NEW p \in 1..2
  PROVE  AfterPass(p) \in Place
<1>1. Len(Targets) \in Nat
  BY TargetsDomain
<1>2. req.passes \in 1..2
  BY DEF Kind
<1>3. CASE p < req.passes
  <2>1. p + 1 \in 1..2 /\ 1 \in 1..Len(Targets) + 1
    BY <1>1, <1>2, <1>3
  <2> QED
    BY <1>3, <2>1 DEF AfterPass, Place
<1>4. CASE ~(p < req.passes)
  BY <1>4 DEF AfterPass, Place
<1> QED
  BY <1>3, <1>4

\* Where the Run goroutine is while it forks, and what it is going to make.
LEMMA Forking ==
  ASSUME TypeOK, run.pc # "idle"
  PROVE  /\ run # Idle
         /\ run.pass \in 1..2
         /\ run.next \in 1..Len(Targets) + 1
         /\ run = [pc |-> run.pc, pass |-> run.pass, next |-> run.next]
         /\ run.next <= Len(Targets) => NextBranch \in Branch
<1>1. run # Idle /\ run \in [pc : {"initial", "fork"}, pass : 1..2, next : 1..Len(Targets) + 1]
  BY DEF TypeOK, Idle
<1>2. Len(Targets) \in Nat /\ DOMAIN Targets = 1..Len(Targets)
  BY TargetsDomain
<1>3. run.next <= Len(Targets) => Targets[run.next] \in Target
  BY <1>1, <1>2 DEF Target
<1> QED
  BY <1>1, <1>3 DEF NextBranch, Branch

\* A final response keeps its type.
LEMMA RespondType ==
  ASSUME TypeOK, NEW a \in Answer, Respond(a)
  PROVE  upstream' \in Answer \cup {None}
  BY DEF TypeOK, Respond

\* A goroutine that moves on.
LEMMA GotoType ==
  ASSUME TypeOK, NEW w \in Worker, NEW l \in Label, Goto(w, l)
  PROVE  pc' \in [Worker -> Label]
  BY DEF TypeOK, Goto, Label

\* A goroutine that copies a list of branches.
LEMMA TodoType ==
  ASSUME TypeOK, NEW w \in Worker, NEW s \in Seq(Branch), todo' = [todo EXCEPT ![w] = s]
  PROVE  todo' \in [Worker -> Seq(Branch)]
  BY DEF TypeOK

\* The proxy's own responses.
LEMMA OwnReplies ==
  Reply(483, None) \in Answer /\ Reply(500, None) \in Answer /\ Reply(504, None) \in Answer
  BY DEF Reply, Answer

\* The codes a branch may end with.
LEMMA CodeType == ASSUME NEW c \in Code \cup {504} PROVE c \in 200..699
  BY Constants

LEMMA CodeNone == ASSUME NEW c \in Code \cup {504} PROVE c # None
<1>1. c \in 0..699
  BY CodeType
<1> QED
  BY <1>1, NoneIsNone, ZenonT(30)

\* Ranks are numbers below 1001, and 1000 is that of a success.
LEMMA RankType ==
  ASSUME NEW c \in 200..699
  PROVE  Rank(c) \in Nat /\ Rank(c) <= 1000
<1>1. CASE Success(c)
  BY <1>1 DEF Rank
<1>2. CASE ~Success(c) /\ \E i \in DOMAIN Prefs : Prefs[i] = c
  <2> DEFINE k == CHOOSE i \in DOMAIN Prefs : Prefs[i] = c
  <2>1. k \in DOMAIN Prefs
    BY <1>2, Zenon
  <2>2. Rank(c) = 901 - k
    BY <1>2, ZenonT(30) DEF Rank
  <2> HIDE DEF k
  <2>3. DOMAIN Prefs = 1..13
    BY DEF Prefs
  <2>4. k \in 1..13
    BY <2>1, <2>3
  <2> QED
    BY <2>2, <2>4
<1>3. CASE ~Success(c) /\ ~\E i \in DOMAIN Prefs : Prefs[i] = c
  BY <1>3 DEF Rank
<1> QED
  BY <1>1, <1>2, <1>3

\* A set of natural numbers that is not empty has a least element.
LEMMA Least ==
  ASSUME NEW T \in SUBSET Nat, T # {}
  PROVE  \E x \in T : \A y \in T : x <= y
<1>1. PICK x \in T : \A y \in T : ~(<<y, x>> \in OpToRel(<, Nat))
  BY NatLessThanWellFounded, WFMin
<1>2. \A y \in T : y < x => <<y, x>> \in OpToRel(<, Nat)
  BY DEF OpToRel
<1>3. \A y \in T : ~(y < x)
  BY <1>1, <1>2, Zenon
<1> QED
  BY <1>3

\* Numbers that are bounded, and the first of the largest of them.
Bounded(D, r, max) ==
  D \in SUBSET Nat /\ D # {} /\ r \in [D -> Nat] /\ \A i \in D : r[i] <= max
HasFirst(D, r) == \E i \in D : \A j \in D : r[j] <= r[i] /\ (j < i => r[j] < r[i])

\* Of numbers that are bounded, one is the first of the largest.
LEMMA FirstLargest ==
  ASSUME NEW D, NEW r, NEW max \in Nat, Bounded(D, r, max)
  PROVE  HasFirst(D, r)
<1>1. D \in SUBSET Nat /\ D # {}
  BY DEF Bounded
<1>2. ASSUME NEW i \in D PROVE r[i] \in Nat /\ r[i] <= max
  BY DEF Bounded
<1> DEFINE T == {n \in Nat : \E i \in D : n = max - r[i]}
<1>3. ASSUME NEW i \in D PROVE max - r[i] \in T
  <2>1. max - r[i] \in Nat
    BY <1>2
  <2> QED
    BY <2>1, Zenon
<1>4. T \in SUBSET Nat /\ T # {}
  <2>1. PICK i \in D : TRUE
    BY <1>1, Zenon
  <2>2. T # {}
    BY <1>3, <2>1
  <2> QED
    BY <2>2
<1>5. PICK x \in T : \A y \in T : x <= y
  BY <1>4, Least
<1>6. PICK k \in D : x = max - r[k]
  BY <1>5
<1>7. ASSUME NEW j \in D PROVE r[j] <= r[k]
  <2>1. max - r[k] <= max - r[j]
    BY <1>3, <1>5, <1>6
  <2>2. r[j] \in Nat /\ r[k] \in Nat
    BY <1>2
  <2> QED
    BY <2>1, <2>2
<1> HIDE DEF T
<1> DEFINE F == {i \in D : r[i] = r[k]}
<1>8. F \in SUBSET Nat /\ F # {}
  BY <1>1, ZenonT(30)
<1>9. PICK i \in F : \A y \in F : i <= y
  BY <1>8, Least, ZenonT(30)
<1>10. i \in D /\ r[i] = r[k]
  BY <1>9
<1>11. ASSUME NEW j \in D PROVE r[j] <= r[i] /\ (j < i => r[j] < r[i])
  <2>1. j \in F => i <= j
    BY <1>9
  <2>2. i \in Nat /\ j \in Nat
    BY <1>1, <1>10
  <2>3. j < i => r[j] # r[k]
    BY <2>1, <2>2
  <2>4. r[j] <= r[k] /\ r[j] \in Nat /\ r[k] \in Nat
    BY <1>2, <1>7
  <2> QED
    BY <1>10, <2>3, <2>4
<1> HIDE DEF F
<1> QED
  BY <1>10, <1>11, Zenon DEF HasFirst

\* pickBestResponse finds a branch, and none of the sequence has a higher rank.
LEMMA PickBest ==
  ASSUME TypeOK, NEW s \in Seq(Branch), s # <<>>,
         \A i \in DOMAIN s : final[s[i]] # None
  PROVE  /\ pickBestResponse(s) \in DOMAIN s
         /\ \A j \in DOMAIN s : Rank(final[s[j]]) <= Rank(final[s[pickBestResponse(s)]])
<1> DEFINE r == [i \in DOMAIN s |-> Rank(final[s[i]])]
<1>0. PICK max \in Nat : max = 1000
  OBVIOUS
<1>1. DOMAIN s \in SUBSET Nat /\ DOMAIN s # {}
  OBVIOUS
<1>2. ASSUME NEW i \in DOMAIN s PROVE Rank(final[s[i]]) \in Nat /\ Rank(final[s[i]]) <= max
  <2>1. final[s[i]] \in Code \cup {504}
    BY DEF TypeOK
  <2>2. final[s[i]] \in 200..699
    BY <2>1, CodeType, ZenonT(30)
  <2> QED
    BY <1>0, <2>2, RankType, ZenonT(30)
<1>3. r \in [DOMAIN s -> Nat] /\ \A i \in DOMAIN s : r[i] <= max
  BY <1>2
<1>4. \E i \in DOMAIN s : \A j \in DOMAIN s : r[j] <= r[i] /\ (j < i => r[j] < r[i])
  <2> HIDE DEF r
  <2>1. Bounded(DOMAIN s, r, max)
    BY <1>1, <1>3 DEF Bounded
  <2>2. HasFirst(DOMAIN s, r)
    BY <2>1, FirstLargest, Zenon
  <2> QED
    BY <2>2 DEF HasFirst
<1>5. \E i \in DOMAIN s :
        \A j \in DOMAIN s : /\ Rank(final[s[j]]) <= Rank(final[s[i]])
                            /\ j < i => Rank(final[s[j]]) < Rank(final[s[i]])
  BY <1>4, Zenon
<1> QED
  BY <1>5, Zenon DEF pickBestResponse

-----------------------------------------------------------------------------
(* Type correctness *)

USE DEF groupVars, branchVars, workVars

\* The response checkGroupDone settles on: 500 for a group that is gone, or that of
\* a branch of the copy; all of the copy has ended and none of it ranks higher.
LEMMA ScanReply ==
  ASSUME TypeOK, NEW b \in Branch, checkGroupScan(b), pc'[b] = "respond"
  PROVE  \/ reply'[b] = Reply(500, None) /\ reply'[b] \in Answer
         \/ \E x \in Branch :
              /\ final[x] # None
              /\ reply'[b] = Reply(final[x], x) /\ reply'[b] \in Answer
              /\ \A j \in DOMAIN todo[b] :
                   final[todo[b][j]] # None /\ Rank(final[todo[b][j]]) <= Rank(final[x])
<1> DEFINE s == todo[b]
<1>1. s \in Seq(Branch)
  BY Workers DEF TypeOK
<1>2. ~\E i \in DOMAIN s : final[s[i]] = None
  BY Workers DEF checkGroupScan, Goto, TypeOK
<1>3. CASE s = <<>>
  BY <1>2, <1>3, Workers, OwnReplies DEF checkGroupScan, TypeOK
<1>4. CASE s # <<>>
  <2> DEFINE k == pickBestResponse(s)
  <2>1. k \in DOMAIN s /\ \A j \in DOMAIN s : Rank(final[s[j]]) <= Rank(final[s[k]])
    BY <1>1, <1>2, <1>4, PickBest
  <2>2. s[k] \in Branch /\ final[s[k]] # None
    BY <1>1, <1>2, <2>1
  <2>3. reply' = [reply EXCEPT ![b] = Reply(final[s[k]], s[k])]
    BY <1>2, <1>4 DEF checkGroupScan
  <2>4. reply'[b] = Reply(final[s[k]], s[k])
    BY <2>3, Workers DEF TypeOK
  <2>5. Reply(final[s[k]], s[k]) \in Answer
    BY <2>2 DEF TypeOK, Reply, Answer
  <2> HIDE DEF k
  <2> QED
    BY <1>2, <2>1, <2>2, <2>4, <2>5
<1> QED
  BY <1>3, <1>4

\* Every action keeps the types; a group grows to the number of targets at most.
LEMMA TypeStep ==
  ASSUME TypeOK, RunInv, BranchInv, [Next]_vars
  PROVE  TypeOK'
<1>1. CASE handleInitialFails
  <2>1. run.pc # "idle" /\ Reply(500, None) \in Answer
    BY <1>1 DEF handleInitialFails, Reply, Answer
  <2>2. run' \in Place
    BY <1>1, <2>1, Forking, AfterPassType DEF handleInitialFails, TypeOK
  <2>3. upstream' \in Answer \cup {None}
    BY <1>1, <2>1, RespondType DEF handleInitialFails
  <2> QED
    BY <1>1, <2>2, <2>3 DEF handleInitialFails, TypeOK, Place
<1>2. CASE forkStart
  <2>1. run.pc # "idle" /\ Reply(483, None) \in Answer
    BY <1>2 DEF forkStart, Reply, Answer
  <2>2. [run EXCEPT !.pc = "fork"] \in Place
    BY <2>1, Forking DEF Place
  <2>3. run' \in Place
    <3>1. AfterPass(run.pass) \in Place
      BY <2>1, Forking, AfterPassType DEF TypeOK
    <3> QED
      BY <1>2, <2>2, <3>1 DEF forkStart
  <2>4. upstream' \in Answer \cup {None}
    BY <1>2, <2>1, RespondType DEF forkStart, TypeOK
  <2>5. group' \in Seq(Branch) /\ Len(group') <= Len(Targets)
    BY <1>2, TargetsDomain DEF forkStart, ListReset
  <2> QED
    BY <1>2, <2>3, <2>4, <2>5, Zenon DEF forkStart, TypeOK, Place
<1>3. CASE forkBranch
  <2>1. run.pc # "idle" /\ run.next <= Len(Targets) /\ NextBranch \in Branch
    BY <1>3, Forking DEF forkBranch
  <2>2. run' \in Place
    BY <1>3, <2>1, Forking, TargetsDomain DEF forkBranch, Place, TypeOK
  <2>3. group' \in Seq(Branch) /\ Len(group') = Len(group) + 1
    BY <1>3, <2>1 DEF forkBranch, TypeOK
  <2>4. Len(group') <= Len(Targets)
    <3>1. Len(group) < run.next
      BY <1>3, <2>1, Forking DEF forkBranch, RunInv
    <3>2. Len(group) \in Nat /\ run.next \in Nat /\ Len(Targets) \in Nat
      BY <2>1, Forking, TargetsDomain DEF TypeOK
    <3> QED
      BY <2>1, <2>3, <3>1, <3>2
  <2>5. tx' \in [Branch -> {"none", "calling", "trying", "proceeding", "completed"}]
    BY <1>3, <2>1 DEF forkBranch, TypeOK
  <2>6. pc' \in [Worker -> Label]
    BY <1>3, <2>1, Workers DEF forkBranch, TypeOK, Label
  <2> QED
    BY <1>3, <2>2, <2>3, <2>4, <2>5, <2>6 DEF forkBranch, TypeOK, Place, Label
<1>4. CASE forkSkip
  <2>1. run.pc # "idle" /\ run.next <= Len(Targets)
    BY <1>4 DEF forkSkip
  <2>2. run' \in Place
    BY <1>4, <2>1, Forking, TargetsDomain DEF forkSkip, Place
  <2> QED
    BY <1>4, <2>2 DEF forkSkip, TypeOK, Place
<1>5. CASE forkEnd
  <2>1. run.pc # "idle"
    BY <1>5 DEF forkEnd
  <2>2. run' \in Place
    BY <1>5, <2>1, Forking, AfterPassType DEF forkEnd, TypeOK
  <2>3. <<run.pass, TimerC>> \in Worker
    BY <2>1, Forking DEF Deadline, Worker
  <2>4. pc' \in [Worker -> Label]
    BY <1>5, <2>3 DEF forkEnd, TypeOK, Label
  <2> QED
    BY <1>5, <2>2, <2>4 DEF forkEnd, TypeOK, Place, Label
<1>6. CASE handleCancel
  <2>1. cancelSent' \in SUBSET Branch
    BY <1>6 DEF handleCancel, TypeOK
  <2> QED
    BY <1>6, <2>1 DEF handleCancel, TypeOK
<1>7. ASSUME NEW b \in Branch, Network(b) PROVE TypeOK'
  <2>1. CASE receiveProvisional(b)
    BY <2>1 DEF receiveProvisional, TypeOK
  <2>2. CASE timeout(b)
    BY <2>2 DEF timeout, TypeOK
  <2>3. ASSUME NEW c \in Code, receiveFinal(b, c) PROVE TypeOK'
    BY <2>3 DEF receiveFinal, TypeOK
  <2> QED
    BY <1>7, <2>1, <2>2, <2>3 DEF Network
<1>8. ASSUME NEW b \in Branch, runBranchEvent(b) PROVE TypeOK'
  <2>1. AfterEvent(event[b]) \in Label
    BY DEF AfterEvent, Label
  <2>2. pc' \in [Worker -> Label]
    BY <1>8, <2>1, GotoType, Workers DEF runBranchEvent
  <2>3. final' \in [Branch -> Code \cup {None, 504}]
    BY <1>8 DEF runBranchEvent, TypeOK
  <2>4. event' \in [Branch -> Code \cup {None, 0}]
    BY <1>8 DEF runBranchEvent, TypeOK
  <2>5. early' \in BOOLEAN
    BY <1>8 DEF runBranchEvent, TypeOK
  <2> QED
    BY <1>8, <2>2, <2>3, <2>4, <2>5 DEF runBranchEvent, TypeOK, Label
<1>9. ASSUME NEW b \in Branch, runBranchDeadline(b) PROVE TypeOK'
  <2>1. pc' \in [Worker -> Label]
    BY <1>9, GotoType, Workers DEF runBranchDeadline, Label
  <2>2. early' \in BOOLEAN
    BY <1>9 DEF runBranchDeadline, TypeOK
  <2> QED
    BY <1>9, <2>1, <2>2 DEF runBranchDeadline, TypeOK, Label
<1>10. ASSUME NEW b \in Branch, runBranchAbort(b) PROVE TypeOK'
  <2>1. pc' \in [Worker -> Label]
    BY <1>10, GotoType, Workers DEF runBranchAbort, Label
  <2> QED
    BY <1>10, <2>1 DEF runBranchAbort, TypeOK, Label
<1>11. ASSUME NEW b \in Branch, checkGroupDone(b) PROVE TypeOK'
  <2>1. pc' \in [Worker -> Label]
    BY <1>11, GotoType, Workers DEF checkGroupDone, Label
  <2>2. todo' \in [Worker -> Seq(Branch)]
    <3>1. CASE cancelled
      BY <1>11, <3>1 DEF checkGroupDone, TypeOK
    <3>2. CASE ~cancelled
      BY <1>11, <3>2, TodoType, Workers, Zenon DEF checkGroupDone, TypeOK
    <3> QED
      BY <3>1, <3>2
  <2> QED
    BY <1>11, <2>1, <2>2 DEF checkGroupDone, TypeOK, Label
<1>12. ASSUME NEW b \in Branch, checkGroupScan(b) PROVE TypeOK'
  <2>1. pc' \in [Worker -> Label]
    BY <1>12, GotoType, Workers DEF checkGroupScan, Label
  <2>2. todo' \in [Worker -> Seq(Branch)]
    BY <1>12, Workers DEF checkGroupScan, TypeOK
  <2>3. reply' \in [Worker -> Answer \cup {None}]
    <3> DEFINE s == todo[b]
    <3>1. s \in Seq(Branch)
      BY Workers DEF TypeOK
    <3>2. CASE \E i \in DOMAIN s : final[s[i]] = None
      BY <1>12, <3>2 DEF checkGroupScan, TypeOK
    <3>3. CASE s = <<>>
      <4>1. Reply(500, None) \in Answer
        BY DEF Reply, Answer
      <4>2. reply' = [reply EXCEPT ![b] = Reply(500, None)]
        BY <1>12, <3>3 DEF checkGroupScan
      <4> QED
        BY <4>1, <4>2, Workers DEF TypeOK
    <3>4. CASE s # <<>> /\ ~\E i \in DOMAIN s : final[s[i]] = None
      <4> DEFINE x == s[pickBestResponse(s)]
      <4>1. pickBestResponse(s) \in DOMAIN s
        BY <3>1, <3>4, PickBest
      <4>2. x \in Branch /\ final[x] # None
        BY <3>1, <3>4, <4>1
      <4>3. final[x] \in Code \cup {504}
        BY <4>2 DEF TypeOK
      <4>4. Reply(final[x], x) \in Answer
        BY <4>2, <4>3 DEF Reply, Answer
      <4>5. reply' = [reply EXCEPT ![b] = Reply(final[x], x)]
        BY <1>12, <3>4 DEF checkGroupScan
      <4> QED
        BY <4>4, <4>5, Workers DEF TypeOK
    <3> QED
      BY <3>2, <3>3, <3>4
  <2> QED
    BY <1>12, <2>1, <2>2, <2>3, SMTT(60) DEF checkGroupScan, TypeOK, Label
<1>13. ASSUME NEW b \in Branch, deliverFinal(b) PROVE TypeOK'
  <2>1. pc' \in [Worker -> Label]
    BY <1>13, GotoType, Workers DEF deliverFinal, Label
  <2>2. todo' \in [Worker -> Seq(Branch)]
    <3>1. CASE cancelled
      BY <1>13, <3>1 DEF deliverFinal, TypeOK
    <3>2. CASE ~cancelled
      BY <1>13, <3>2, TodoType, Workers, Zenon DEF deliverFinal, TypeOK
    <3> QED
      BY <3>1, <3>2
  <2>3. cancelled' \in BOOLEAN
    BY <1>13, Zenon DEF deliverFinal, TypeOK
  <2> QED
    BY <1>13, <2>1, <2>2, <2>3 DEF deliverFinal, TypeOK, Label
<1>14. ASSUME NEW b \in Branch, deliverCancel(b) PROVE TypeOK'
  <2>1. todo[b] \in Seq(Branch) /\ todo[b] # <<>>
    BY <1>14, Workers DEF deliverCancel, TypeOK
  <2>2. Head(todo[b]) \in Branch /\ Tail(todo[b]) \in Seq(Branch)
    BY <2>1
  <2>3. todo' \in [Worker -> Seq(Branch)]
    BY <1>14, <2>2, Workers DEF deliverCancel, TypeOK
  <2>4. cancelSent' \in SUBSET Branch
    BY <1>14, <2>2 DEF deliverCancel, CancelOther, TypeOK
  <2> QED
    BY <1>14, <2>3, <2>4 DEF deliverCancel, TypeOK
<1>15. ASSUME NEW b \in Branch, deliverRecord(b) PROVE TypeOK'
  <2>1. pc' \in [Worker -> Label]
    BY <1>15, GotoType, Workers DEF deliverRecord, Label
  <2>2. final[b] \in Code \cup {504}
    <3>1. final[b] # None
      BY <1>15 DEF deliverRecord, BranchInv, BranchOK
    <3> QED
      BY <3>1 DEF TypeOK
  <2>3. Reply(final[b], b) \in Answer
    BY <2>2 DEF Reply, Answer
  <2>4. reply' \in [Worker -> Answer \cup {None}]
    BY <1>15, <2>3, Workers DEF deliverRecord, TypeOK
  <2> QED
    BY <1>15, <2>1, <2>4 DEF deliverRecord, TypeOK, Label
<1>16. ASSUME NEW d \in Deadline, timerCFire(d) PROVE TypeOK'
  <2>1. pc' \in [Worker -> Label]
    BY <1>16, GotoType, Workers DEF timerCFire, Label
  <2>2. todo' \in [Worker -> Seq(Branch)]
    <3>1. CASE cancelled \/ group = <<>>
      BY <1>16, <3>1 DEF timerCFire, TypeOK
    <3>2. CASE ~(cancelled \/ group = <<>>)
      BY <1>16, <3>2, TodoType, Workers, Zenon DEF timerCFire, TypeOK
    <3> QED
      BY <3>1, <3>2
  <2> QED
    BY <1>16, <2>1, <2>2 DEF timerCFire, TypeOK, Label
<1>17. ASSUME NEW d \in Deadline, timerCCancel(d) PROVE TypeOK'
  <2>1. todo[d] \in Seq(Branch) /\ todo[d] # <<>>
    BY <1>17, Workers DEF timerCCancel, TypeOK, BranchInv, DeadlineOK
  <2>2. Head(todo[d]) \in Branch /\ Tail(todo[d]) \in Seq(Branch)
    BY <2>1
  <2>3. todo' \in [Worker -> Seq(Branch)]
    BY <1>17, <2>2, Workers DEF timerCCancel, TypeOK
  <2>4. cancelSent' \in SUBSET Branch
    BY <1>17, <2>2 DEF timerCCancel, CancelOther, TypeOK
  <2>5. Reply(504, None) \in Answer
    BY DEF Reply, Answer
  <2>6. reply' \in [Worker -> Answer \cup {None}]
    BY <1>17, <2>5, Workers DEF timerCCancel, TypeOK
  <2>7. pc' \in [Worker -> Label]
    BY <1>17, GotoType, Workers DEF timerCCancel, Label
  <2> QED
    BY <1>17, <2>3, <2>4, <2>6, <2>7 DEF timerCCancel, TypeOK, Label
<1>18. ASSUME NEW w \in Worker, forward(w) PROVE TypeOK'
  <2>1. reply[w] \in Answer
    BY <1>18 DEF forward, BranchInv, WorkerOK, TypeOK
  <2>2. upstream' \in Answer \cup {None}
    BY <1>18, <2>1, RespondType DEF forward
  <2>3. pc' \in [Worker -> Label]
    BY <1>18, GotoType DEF forward, Label
  <2> QED
    BY <1>18, <2>2, <2>3, Zenon DEF forward, TypeOK, Label
<1>19. ASSUME NEW w \in Worker, cleanupGroup(w) PROVE TypeOK'
  <2>1. pc' \in [Worker -> Label]
    BY <1>19, GotoType DEF cleanupGroup, Label
  <2>2. group' \in Seq(Branch) /\ Len(group') <= Len(Targets)
    BY <1>19, TargetsDomain DEF cleanupGroup
  <2> QED
    BY <1>19, <2>1, <2>2, Zenon DEF cleanupGroup, TypeOK, Label
<1>20. CASE UNCHANGED vars
  BY <1>20 DEF vars, TypeOK
<1> QED
  BY <1>1, <1>2, <1>3, <1>4, <1>5, <1>6, <1>7, <1>8, <1>9, <1>10, <1>11, <1>12, <1>13,
     <1>14, <1>15, <1>16, <1>17, <1>18, <1>19, <1>20, Workers
     DEF Next, Fork, runBranch, timerC

-----------------------------------------------------------------------------
(* The Run goroutine *)

\* What the other goroutines do leaves the branches that are ahead alone.
LEMMA RunFrame ==
  ASSUME TypeOK, RunInv, UNCHANGED <<req, run>>, group' \in {group, <<>>},
         \A b \in Branch : pc[b] = "none" => pc'[b] = "none"
  PROVE  RunInv'
<1>1. ASSUME NEW b \in Branch, Ahead(b)' PROVE pc'[b] = "none"
  BY <1>1 DEF RunInv, Ahead
<1>2. ASSUME run # Idle, run.pc = "fork" PROVE Len(group') < run.next
  <2>1. run.next \in Nat /\ run.next > 0
    BY <1>2, Forking, TargetsDomain
  <2> QED
    BY <1>2, <2>1 DEF RunInv
<1> QED
  BY <1>1, <1>2 DEF RunInv

\* The pass that follows makes other branches.
LEMMA RunPass ==
  ASSUME TypeOK, RunInv, run.pc # "idle", run' = AfterPass(run.pass), req' = req,
         \A b \in Branch : pc[b] = "none" => pc'[b] = "none"
  PROVE  RunInv'
<1>1. run # Idle /\ run.pass \in 1..2 /\ req.passes \in 1..2
  BY Forking, SMTT(60) DEF TypeOK, Kind
<1>2. CASE run.pass < req.passes
  <2>1. run' = [pc |-> "initial", pass |-> run.pass + 1, next |-> 1]
    BY <1>2 DEF AfterPass
  <2>2. ASSUME NEW b \in Branch, Ahead(b)' PROVE pc'[b] = "none"
    <3>1. b[1] \in 1..2
      BY DEF Branch
    <3>2. b[1] > run.pass
      BY <1>1, <2>1, <2>2, <3>1 DEF Ahead
    <3> QED
      BY <1>1, <3>2 DEF Ahead, RunInv
  <2> QED
    BY <1>1, <1>2, <2>1, <2>2, SMTT(60) DEF RunInv
<1>3. CASE ~(run.pass < req.passes)
  BY <1>3 DEF AfterPass, RunInv, Ahead
<1> QED
  BY <1>2, <1>3

\* Every action keeps RunInv.
LEMMA RunStep ==
  ASSUME TypeOK, RunInv, BranchInv, [Next]_vars
  PROVE  RunInv'
<1>1. CASE handleInitialFails
  BY <1>1, RunPass DEF handleInitialFails
<1>2. CASE forkStart
  <2>1. run.pc # "idle" /\ run # Idle /\ run.next = 1
    BY <1>2, Forking DEF forkStart, RunInv
  <2>2. CASE req.hops
    <3>1. run' = [pc |-> "fork", pass |-> run.pass, next |-> 1]
      BY <1>2, <2>1, <2>2, Forking DEF forkStart
    <3>2. ASSUME NEW b \in Branch, Ahead(b)' PROVE pc'[b] = "none"
      BY <1>2, <2>1, <3>1, <3>2 DEF forkStart, Ahead, RunInv
    <3>3. group' = <<>> /\ req' = req
      BY <1>2 DEF forkStart, ListReset
    <3> QED
      BY <2>1, <3>1, <3>2, <3>3 DEF RunInv
  <2>3. CASE ~req.hops
    BY <1>2, <2>1, <2>3, RunPass DEF forkStart
  <2> QED
    BY <2>2, <2>3
<1>3. CASE forkBranch
  <2>1. run.pc = "fork" /\ run.next <= Len(Targets) /\ NextBranch \in Branch /\ run # Idle
    BY <1>3, Forking DEF forkBranch
  <2>2. run.next \in 1..Len(Targets) /\ DOMAIN Targets = 1..Len(Targets) /\ Len(Targets) \in Nat
    BY <2>1, Forking, TargetsDomain
  <2>3. run' = [pc |-> "fork", pass |-> run.pass, next |-> run.next + 1]
    BY <1>3, <2>1, Forking DEF forkBranch
  <2>4. ASSUME NEW b \in Branch, Ahead(b)' PROVE Ahead(b) /\ b # NextBranch
    <3>1. b[1] \in 1..2 /\ run.pass \in 1..2
      BY <2>1, Forking DEF Branch
    <3>2. CASE b[1] > run.pass
      BY <2>1, <3>1, <3>2 DEF Ahead, NextBranch
    <3>3. CASE b[1] = run.pass /\ \E i \in run.next + 1..Len(Targets) : b[2] = Targets[i]
      <4>1. PICK i \in run.next + 1..Len(Targets) : b[2] = Targets[i]
        BY <3>3
      <4>2. i \in DOMAIN Targets /\ run.next \in DOMAIN Targets /\ i # run.next
        BY <2>2
      <4>3. Targets[i] # Targets[run.next]
        BY <4>2, Constants
      <4>4. b # NextBranch
        BY <4>1, <4>3 DEF NextBranch
      <4>5. i \in run.next..Len(Targets)
        BY <2>2
      <4> QED
        BY <2>1, <3>3, <4>1, <4>4, <4>5 DEF Ahead
    <3> QED
      BY <2>3, <2>4, <3>2, <3>3 DEF Ahead
  <2>5. ASSUME NEW b \in Branch, Ahead(b)' PROVE pc'[b] = "none"
    <3>1. pc[b] = "none" /\ b # NextBranch
      BY <2>4, <2>5 DEF RunInv
    <3> QED
      BY <1>3, <3>1, Workers DEF forkBranch, TypeOK
  <2>6. Len(group') < run.next + 1
    <3>1. Len(group') = Len(group) + 1 /\ Len(group) \in Nat
      BY <1>3, <2>1 DEF forkBranch, TypeOK
    <3>2. Len(group) < run.next
      BY <2>1 DEF RunInv
    <3> QED
      BY <2>2, <3>1, <3>2
  <2>7. req' = req /\ run.pass <= req.passes
    BY <1>3, <2>1 DEF forkBranch, RunInv
  <2> QED
    BY <2>3, <2>5, <2>6, <2>7 DEF RunInv
<1>4. CASE forkSkip
  <2>1. run.pc = "fork" /\ run.next <= Len(Targets) /\ run # Idle
    BY <1>4, Forking DEF forkSkip
  <2>2. run.next \in 1..Len(Targets) /\ Len(Targets) \in Nat
    BY <2>1, Forking, TargetsDomain
  <2>3. run' = [pc |-> "fork", pass |-> run.pass, next |-> run.next + 1]
    BY <1>4, <2>1, Forking DEF forkSkip
  <2>4. ASSUME NEW b \in Branch, Ahead(b)' PROVE pc'[b] = "none"
    <3>1. Ahead(b)
      BY <2>1, <2>2, <2>3, <2>4 DEF Ahead
    <3> QED
      BY <1>4, <3>1 DEF forkSkip, RunInv
  <2>5. Len(group') < run.next + 1
    <3>1. group' = group /\ Len(group) \in Nat /\ Len(group) < run.next
      BY <1>4, <2>1 DEF forkSkip, TypeOK, RunInv
    <3> QED
      BY <2>2, <3>1
  <2>6. req' = req /\ run.pass <= req.passes
    BY <1>4, <2>1 DEF forkSkip, RunInv
  <2> QED
    BY <2>3, <2>4, <2>5, <2>6 DEF RunInv
<1>5. CASE forkEnd
  <2>1. ASSUME NEW b \in Branch, pc[b] = "none" PROVE pc'[b] = "none"
    <3>1. b # <<run.pass, TimerC>>
      BY Workers, ProxyForkAssumption DEF Branch
    <3> QED
      BY <1>5, <2>1, <3>1, Workers DEF forkEnd, TypeOK
  <2> QED
    BY <1>5, <2>1, RunPass DEF forkEnd
<1>6. CASE handleCancel
  BY <1>6, RunFrame DEF handleCancel
<1>7. ASSUME NEW b \in Branch, Network(b) PROVE RunInv'
  <2>1. UNCHANGED <<req, run, group, pc>>
    BY <1>7 DEF Network, receiveProvisional, receiveFinal, timeout
  <2> QED
    BY <2>1, RunFrame
<1>8. ASSUME NEW w \in Worker, NEW l \in Label, pc[w] # "none", Goto(w, l),
             UNCHANGED <<req, run>>, group' \in {group, <<>>}
      PROVE  RunInv'
  <2>1. ASSUME NEW b \in Branch, pc[b] = "none" PROVE pc'[b] = "none"
    BY <1>8, <2>1, Workers DEF Goto, TypeOK
  <2> QED
    BY <1>8, <2>1, RunFrame
<1>9. ASSUME NEW b \in Branch, runBranch(b) PROVE RunInv'
  <2> USE <1>8, Workers DEF Label
  <2>1. CASE runBranchEvent(b)
    BY <2>1 DEF runBranchEvent, AfterEvent
  <2>2. CASE runBranchDeadline(b)
    BY <2>2 DEF runBranchDeadline
  <2>3. CASE runBranchAbort(b)
    BY <2>3 DEF runBranchAbort
  <2>4. CASE checkGroupDone(b)
    BY <2>4 DEF checkGroupDone
  <2>5. CASE checkGroupScan(b)
    BY <2>5 DEF checkGroupScan
  <2>6. CASE deliverFinal(b)
    BY <2>6 DEF deliverFinal
  <2>7. CASE deliverCancel(b)
    BY <2>7, RunFrame DEF deliverCancel
  <2>8. CASE deliverRecord(b)
    BY <2>8 DEF deliverRecord
  <2>9. CASE forward(b)
    BY <2>9 DEF forward
  <2>10. CASE cleanupGroup(b)
    BY <2>10 DEF cleanupGroup
  <2> QED
    BY <1>9, <2>1, <2>2, <2>3, <2>4, <2>5, <2>6, <2>7, <2>8, <2>9, <2>10, SMTT(60) DEF runBranch
<1>10. ASSUME NEW d \in Deadline, timerC(d) PROVE RunInv'
  <2> USE <1>8, Workers DEF Label
  <2>1. CASE timerCFire(d)
    BY <2>1 DEF timerCFire
  <2>2. CASE timerCCancel(d)
    BY <2>2 DEF timerCCancel
  <2>3. CASE forward(d)
    BY <2>3 DEF forward
  <2>4. CASE cleanupGroup(d)
    BY <2>4 DEF cleanupGroup
  <2> QED
    BY <1>10, <2>1, <2>2, <2>3, <2>4 DEF timerC
<1>11. CASE UNCHANGED vars
  BY <1>11, RunFrame DEF vars
<1> QED
  BY <1>1, <1>2, <1>3, <1>4, <1>5, <1>6, <1>7, <1>9, <1>10, <1>11 DEF Next, Fork

-----------------------------------------------------------------------------
(* The goroutines and their branches *)

\* A goroutine that is left alone is where it was.
LEMMA BranchFrame ==
  ASSUME NEW b \in Branch, BranchOK(b), req' = req,
         pc'[b] = pc[b], tx'[b] = tx[b], final'[b] = final[b]
  PROVE  BranchOK(b)'
  BY DEF BranchOK

LEMMA DeadlineFrame ==
  ASSUME NEW d \in Deadline, DeadlineOK(d),
         pc'[d] = pc[d], todo'[d] = todo[d], reply'[d] = reply[d]
  PROVE  DeadlineOK(d)'
  BY DEF DeadlineOK

LEMMA WorkerFrame ==
  ASSUME NEW w \in Worker, WorkerOK(w), upstream # None => upstream' # None,
         pc'[w] = pc[w], reply'[w] = reply[w]
  PROVE  WorkerOK(w)'
  BY DEF WorkerOK

\* The first final response stays.
LEMMA RespondOnce ==
  ASSUME NEW a \in Answer, Respond(a)
  PROVE  upstream' # None /\ (upstream # None => upstream' = upstream)
  BY NoneIsNone DEF Respond

\* The end of fork sets Timer C and leaves the goroutines of the branches alone.
LEMMA TimerStarts ==
  ASSUME TypeOK, forkEnd
  PROVE  /\ \A x \in Branch : pc'[x] = pc[x]
         /\ \A x \in Worker : pc'[x] \in {pc[x], "wait"}
<1> DEFINE t == <<run.pass, TimerC>>
<1>1. t \in Deadline
  BY Forking DEF forkEnd, Deadline
<1>2. pc' = [pc EXCEPT ![t] = "wait"]
  BY DEF forkEnd
<1> HIDE DEF t
<1> QED
  BY <1>1, <1>2, Workers DEF TypeOK

\* Only the goroutine w moves.
Alone(w) ==
  \A x \in Worker : x # w => pc'[x] = pc[x] /\ todo'[x] = todo[x] /\ reply'[x] = reply[x]

\* The branch of a goroutine that moves is the only one to look at.
LEMMA BranchMoves ==
  ASSUME TypeOK, BranchInv, NEW b \in Branch, Alone(b), UNCHANGED <<req, tx>>,
         \A x \in Branch : x # b => final'[x] = final[x],
         upstream # None => upstream' # None,
         BranchOK(b)', WorkerOK(b)'
  PROVE  BranchInv'
<1> USE Workers
<1>1. ASSUME NEW x \in Branch, x # b PROVE BranchOK(x)'
  BY <1>1, SMTT(60) DEF Alone, BranchInv, BranchOK
<1>2. ASSUME NEW x \in Deadline PROVE DeadlineOK(x)'
  <2>1. DeadlineOK(x)
    BY <1>2 DEF BranchInv
  <2>2. pc'[x] = pc[x] /\ todo'[x] = todo[x] /\ reply'[x] = reply[x]
    BY <1>2 DEF Alone
  <2> QED
    BY <2>1, <2>2 DEF DeadlineOK
<1>3. ASSUME NEW x \in Worker, x # b PROVE WorkerOK(x)'
  <2>1. WorkerOK(x)
    BY <1>3 DEF BranchInv
  <2>2. pc'[x] = pc[x] /\ todo'[x] = todo[x] /\ reply'[x] = reply[x]
    BY <1>3 DEF Alone
  <2> QED
    BY <2>1, <2>2 DEF WorkerOK
<1> QED
  BY <1>1, <1>2, <1>3, SMTT(60) DEF BranchInv

\* And so is the Timer C callback that moves.
LEMMA DeadlineMoves ==
  ASSUME TypeOK, BranchInv, NEW d \in Deadline, Alone(d), UNCHANGED <<req, tx, final>>,
         upstream # None => upstream' # None,
         DeadlineOK(d)', WorkerOK(d)'
  PROVE  BranchInv'
<1> USE Workers
<1>1. ASSUME NEW x \in Branch PROVE BranchOK(x)'
  BY <1>1 DEF Alone, BranchInv, BranchOK
<1>2. ASSUME NEW x \in Deadline, x # d PROVE DeadlineOK(x)'
  <2>1. DeadlineOK(x)
    BY <1>2 DEF BranchInv
  <2>2. pc'[x] = pc[x] /\ todo'[x] = todo[x] /\ reply'[x] = reply[x]
    BY <1>2 DEF Alone
  <2> QED
    BY <2>1, <2>2 DEF DeadlineOK
<1>3. ASSUME NEW x \in Worker, x # d PROVE WorkerOK(x)'
  <2>1. WorkerOK(x)
    BY <1>3 DEF BranchInv
  <2>2. pc'[x] = pc[x] /\ todo'[x] = todo[x] /\ reply'[x] = reply[x]
    BY <1>3 DEF Alone
  <2> QED
    BY <2>1, <2>2 DEF WorkerOK
<1> QED
  BY <1>1, <1>2, <1>3 DEF BranchInv

\* What the goroutine w does, as a change of its own entries.
LEMMA Moves ==
  ASSUME TypeOK, NEW w \in Worker,
         pc' = pc \/ \E l : Goto(w, l),
         todo' = todo \/ \E s : todo' = [todo EXCEPT ![w] = s],
         reply' = reply \/ \E r : reply' = [reply EXCEPT ![w] = r]
  PROVE  Alone(w)
<1> SUFFICES ASSUME NEW x \in Worker, x # w
             PROVE  pc'[x] = pc[x] /\ todo'[x] = todo[x] /\ reply'[x] = reply[x]
  BY DEF Alone
<1>1. pc'[x] = pc[x]
  BY DEF Goto, TypeOK
<1>2. todo'[x] = todo[x]
  BY DEF TypeOK
<1>3. reply'[x] = reply[x]
  BY DEF TypeOK
<1> QED
  BY <1>1, <1>2, <1>3

\* A goroutine of runBranch, or a Timer C callback, moves alone.
LEMMA GoroutineAlone ==
  ASSUME TypeOK, NEW w \in Worker,
         (w \in Branch /\ runBranch(w)) \/ (w \in Deadline /\ timerC(w))
  PROVE  Alone(w)
<1>1. CASE runBranchEvent(w)
  BY <1>1, Moves DEF runBranchEvent
<1>2. CASE runBranchDeadline(w)
  BY <1>2, Moves DEF runBranchDeadline
<1>3. CASE runBranchAbort(w)
  BY <1>3, Moves DEF runBranchAbort
<1>4. CASE checkGroupDone(w)
  BY <1>4, Moves DEF checkGroupDone
<1>5. CASE checkGroupScan(w)
  BY <1>5, Moves, Zenon DEF checkGroupScan
<1>6. CASE deliverFinal(w)
  BY <1>6, Moves DEF deliverFinal
<1>7. CASE deliverCancel(w)
  BY <1>7, Moves, Zenon DEF deliverCancel
<1>8. CASE deliverRecord(w)
  BY <1>8, Moves, Zenon DEF deliverRecord
<1>9. CASE timerCFire(w)
  BY <1>9, Moves DEF timerCFire
<1>10. CASE timerCCancel(w)
  <2>1. \E l : Goto(w, l)
    BY <1>10, ZenonT(30) DEF timerCCancel
  <2>2. \E s : todo' = [todo EXCEPT ![w] = s]
    BY <1>10, ZenonT(30) DEF timerCCancel
  <2>3. \E r : reply' = [reply EXCEPT ![w] = r]
    BY <1>10, ZenonT(30) DEF timerCCancel
  <2> QED
    BY <2>1, <2>2, <2>3, Moves, Zenon
<1>11. CASE forward(w)
  BY <1>11, Moves, Zenon DEF forward
<1>12. CASE cleanupGroup(w)
  BY <1>12, Moves DEF cleanupGroup
<1> QED
  BY <1>1, <1>2, <1>3, <1>4, <1>5, <1>6, <1>7, <1>8, <1>9, <1>10, <1>11, <1>12
     DEF runBranch, timerC

\* Every action keeps BranchInv.
LEMMA BranchStep ==
  ASSUME TypeOK, RunInv, BranchInv, [Next]_vars
  PROVE  BranchInv'
<1> USE Workers
<1>1. ASSUME UNCHANGED <<req, tx, final, pc, todo, reply>>, upstream # None => upstream' # None
      PROVE  BranchInv'
  BY <1>1, BranchFrame, DeadlineFrame, WorkerFrame, SMTT(60) DEF BranchInv
<1>2. CASE handleInitialFails
  BY <1>1, <1>2, RespondOnce, OwnReplies DEF handleInitialFails
<1>3. CASE forkStart
  BY <1>1, <1>3, RespondOnce, OwnReplies DEF forkStart
<1>4. CASE forkBranch
  <2>1. NextBranch \in Branch /\ pc[NextBranch] = "none"
    <3>1. NextBranch \in Branch /\ run # Idle
      BY <1>4, Forking DEF forkBranch
    <3>2. run.next \in run.next..Len(Targets)
      BY <1>4, Forking, TargetsDomain DEF forkBranch
    <3> QED
      BY <3>1, <3>2 DEF RunInv, Ahead, NextBranch
  <2>2. ASSUME NEW x \in Branch PROVE BranchOK(x)'
    <3>1. CASE x = NextBranch
      BY <1>4, <2>1, <3>1 DEF forkBranch, BranchInv, BranchOK, TypeOK
    <3>2. CASE x # NextBranch
      BY <1>4, <2>1, <3>2, BranchFrame DEF forkBranch, BranchInv, TypeOK
    <3> QED
      BY <3>1, <3>2
  <2>3. ASSUME NEW x \in Deadline PROVE DeadlineOK(x)'
    BY <1>4, <2>1, DeadlineFrame DEF forkBranch, BranchInv, TypeOK
  <2>4. ASSUME NEW x \in Worker PROVE WorkerOK(x)'
    BY <1>4, <2>1 DEF forkBranch, BranchInv, WorkerOK, TypeOK
  <2> QED
    BY <2>2, <2>3, <2>4 DEF BranchInv
<1>5. CASE forkSkip
  BY <1>1, <1>5 DEF forkSkip
<1>6. CASE forkEnd
  <2> DEFINE t == <<run.pass, TimerC>>
  <2>1. t \in Deadline
    BY <1>6, Forking DEF forkEnd, Deadline
  <2> HIDE DEF t
  <2>2. pc' = [pc EXCEPT ![t] = "wait"]
    BY <1>6 DEF forkEnd, t
  <2>3. ASSUME NEW x \in Branch PROVE BranchOK(x)'
    <3>1. pc'[x] = pc[x]
      BY <2>1, <2>2 DEF TypeOK
    <3>2. req' = req /\ tx' = tx /\ final' = final /\ BranchOK(x)
      BY <1>6 DEF forkEnd, BranchInv
    <3> QED
      BY <3>1, <3>2, BranchFrame
  <2>4. ASSUME NEW x \in Deadline PROVE DeadlineOK(x)'
    BY <1>6, <2>1, <2>2 DEF forkEnd, BranchInv, DeadlineOK, TypeOK
  <2>5. ASSUME NEW x \in Worker PROVE WorkerOK(x)'
    BY <1>6, <2>1, <2>2 DEF forkEnd, BranchInv, WorkerOK, TypeOK
  <2> QED
    BY <2>3, <2>4, <2>5 DEF BranchInv
<1>7. CASE handleCancel
  BY <1>1, <1>7 DEF handleCancel
<1>8. ASSUME NEW b \in Branch, Network(b) PROVE BranchInv'
  <2>1. /\ UNCHANGED <<req, final, pc, todo, reply, upstream>>
        /\ tx[b] # "none"
        /\ \/ UNCHANGED tx
           \/ tx' = [tx EXCEPT ![b] = "proceeding"]
           \/ tx' = [tx EXCEPT ![b] = "completed"]
    <3>1. ASSUME NEW c \in Code, receiveFinal(b, c)
          PROVE  UNCHANGED tx \/ tx' = [tx EXCEPT ![b] = "completed"]
      BY <3>1 DEF receiveFinal, TypeOK
    <3> QED
      BY <1>8, <3>1 DEF Network, receiveProvisional, receiveFinal, timeout
  <2>2. ASSUME NEW x \in Branch PROVE BranchOK(x)'
    BY <2>1 DEF BranchInv, BranchOK, TypeOK
  <2>3. ASSUME NEW x \in Deadline PROVE DeadlineOK(x)'
    <3>1. DeadlineOK(x) /\ x \in Worker
      BY DEF BranchInv
    <3> QED
      BY <2>1, <3>1 DEF DeadlineOK
  <2>4. ASSUME NEW x \in Worker PROVE WorkerOK(x)'
    <3>1. WorkerOK(x)
      BY DEF BranchInv
    <3> QED
      BY <2>1, <3>1 DEF WorkerOK
  <2> QED
    BY <2>2, <2>3, <2>4 DEF BranchInv
<1>9. ASSUME NEW b \in Branch, runBranchEvent(b) PROVE BranchInv'
  <2>1. Alone(b)
    BY <1>9, GoroutineAlone DEF runBranch
  <2>4. final'[b] = (IF event[b] = 0 THEN 504 ELSE event[b]) /\ event[b] \in Code \cup {0}
    BY <1>9 DEF runBranchEvent, TypeOK
  <2>5. pc'[b] = AfterEvent(event[b])
    BY <1>9 DEF runBranchEvent, Goto, TypeOK
  <2>6. final'[b] # None
    BY <2>4, CodeNone, SMTT(60)
  <2>2. BranchOK(b)'
    BY <1>9, <2>4, <2>5, <2>6, SMTT(60) DEF runBranchEvent, BranchInv, BranchOK, AfterEvent, Success
  <2>3. WorkerOK(b)'
    BY <2>5 DEF WorkerOK, AfterEvent
  <2> QED
    BY <1>9, <2>1, <2>2, <2>3, BranchMoves DEF runBranchEvent, TypeOK
<1>10. ASSUME NEW b \in Branch, runBranchDeadline(b) PROVE BranchInv'
  <2>1. Alone(b)
    BY <1>10, GoroutineAlone DEF runBranch
  <2>4. pc'[b] = "abort" /\ final'[b] = 504 /\ 504 # None
    BY <1>10, CodeNone DEF runBranchDeadline, Goto, TypeOK
  <2>2. BranchOK(b)'
    BY <1>10, <2>4, Zenon DEF runBranchDeadline, BranchInv, BranchOK
  <2>3. WorkerOK(b)'
    BY <2>4 DEF WorkerOK
  <2> QED
    BY <1>10, <2>1, <2>2, <2>3, BranchMoves DEF runBranchDeadline, TypeOK
<1>11. ASSUME NEW b \in Branch, runBranchAbort(b) PROVE BranchInv'
  <2>1. Alone(b)
    BY <1>11, GoroutineAlone DEF runBranch
  <2>2. BranchOK(b)'
    BY <1>11 DEF runBranchAbort, Goto, BranchInv, BranchOK, TypeOK
  <2>3. WorkerOK(b)'
    BY <1>11 DEF runBranchAbort, Goto, BranchInv, WorkerOK, TypeOK
  <2> QED
    BY <1>11, <2>1, <2>2, <2>3, BranchMoves DEF runBranchAbort, TypeOK
<1>12. ASSUME NEW b \in Branch, checkGroupDone(b) PROVE BranchInv'
  <2>1. Alone(b)
    BY <1>12, GoroutineAlone DEF runBranch
  <2>4. pc'[b] \in {"scan", "done"}
    BY <1>12 DEF checkGroupDone, Goto, TypeOK
  <2>2. BranchOK(b)'
    BY <1>12, <2>4, SMTT(60) DEF checkGroupDone, BranchInv, BranchOK
  <2>3. WorkerOK(b)'
    BY <2>4 DEF WorkerOK
  <2> QED
    BY <1>12, <2>1, <2>2, <2>3, BranchMoves, SMTT(60) DEF checkGroupDone, TypeOK
<1>13. ASSUME NEW b \in Branch, checkGroupScan(b) PROVE BranchInv'
  <2>1. Alone(b)
    BY <1>13, GoroutineAlone DEF runBranch
  <2>4. pc'[b] \in {"respond", "done"}
    BY <1>13 DEF checkGroupScan, Goto, TypeOK
  <2>5. pc'[b] = "respond" => reply'[b] \in Answer
    BY <1>13, ScanReply, SMTT(60)
  <2>2. BranchOK(b)'
    BY <1>13, <2>4, SMTT(60) DEF checkGroupScan, BranchInv, BranchOK
  <2>3. WorkerOK(b)'
    BY <2>4, <2>5, NoneIsNone DEF WorkerOK
  <2> QED
    BY <1>13, <2>1, <2>2, <2>3, BranchMoves, SMTT(60) DEF checkGroupScan, TypeOK
<1>14. ASSUME NEW b \in Branch, deliverFinal(b) PROVE BranchInv'
  <2>1. Alone(b)
    BY <1>14, GoroutineAlone DEF runBranch
  <2>4. pc'[b] \in {"cancel", "done"}
    BY <1>14 DEF deliverFinal, Goto, TypeOK
  <2>2. BranchOK(b)'
    BY <1>14, <2>4, SMTT(60) DEF deliverFinal, BranchInv, BranchOK
  <2>3. WorkerOK(b)'
    BY <2>4 DEF WorkerOK
  <2> QED
    BY <1>14, <2>1, <2>2, <2>3, BranchMoves DEF deliverFinal, TypeOK
<1>15. ASSUME NEW b \in Branch, deliverCancel(b) PROVE BranchInv'
  <2>1. Alone(b)
    BY <1>15, GoroutineAlone DEF runBranch
  <2>2. BranchOK(b)'
    BY <1>15 DEF deliverCancel, Goto, BranchInv, BranchOK, TypeOK
  <2>3. WorkerOK(b)'
    BY <1>15, SMTT(60) DEF deliverCancel, Goto, BranchInv, WorkerOK, TypeOK
  <2> QED
    BY <1>15, <2>1, <2>2, <2>3, BranchMoves DEF deliverCancel, TypeOK
<1>16. ASSUME NEW b \in Branch, deliverRecord(b) PROVE BranchInv'
  <2>1. Alone(b)
    BY <1>16, GoroutineAlone DEF runBranch
  <2>4. pc'[b] = "respond" /\ reply'[b] = Reply(final[b], b)
    BY <1>16 DEF deliverRecord, Goto, TypeOK
  <2>5. Reply(final[b], b) \in Answer
    <3>1. final[b] # None
      BY <1>16, SMTT(60) DEF deliverRecord, BranchInv, BranchOK
    <3>2. final[b] \in Code \cup {504}
      BY <3>1, SMTT(60) DEF TypeOK
    <3> QED
      BY <3>2 DEF Reply, Answer
  <2>2. BranchOK(b)'
    BY <1>16, <2>4, SMTT(60) DEF deliverRecord, BranchInv, BranchOK
  <2>3. WorkerOK(b)'
    BY <2>4, <2>5, NoneIsNone DEF WorkerOK
  <2> QED
    BY <1>16, <2>1, <2>2, <2>3, BranchMoves DEF deliverRecord, TypeOK
<1>17. ASSUME NEW d \in Deadline, timerCFire(d) PROVE BranchInv'
  <2>1. Alone(d)
    BY <1>17, GoroutineAlone DEF timerC
  <2>2. /\ pc'[d] \in {"cancel", "done"}
        /\ pc'[d] = "cancel" => todo'[d] # <<>>
        /\ reply'[d] = reply[d]
    BY <1>17, SMTT(60) DEF timerCFire, Goto, TypeOK
  <2>3. DeadlineOK(d)' /\ WorkerOK(d)'
    BY <2>2, SMTT(60) DEF BranchInv, DeadlineOK, WorkerOK
  <2> QED
    BY <1>17, <2>1, <2>3, DeadlineMoves DEF timerCFire
<1>18. ASSUME NEW d \in Deadline, timerCCancel(d) PROVE BranchInv'
  <2>1. Alone(d)
    BY <1>18, GoroutineAlone DEF timerC
  <2>2. /\ pc'[d] \in {"cancel", "respond", "done"}
        /\ pc'[d] = "cancel" => todo'[d] # <<>>
        /\ pc'[d] = "respond" => reply'[d] # None
    BY <1>18 DEF timerCCancel, Goto, TypeOK
  <2>3. reply'[d] \in {None, Reply(504, None)}
    BY <1>18, SMTT(60) DEF timerCCancel, TypeOK, BranchInv, DeadlineOK
  <2>4. DeadlineOK(d)' /\ WorkerOK(d)'
    BY <2>2, <2>3 DEF DeadlineOK, WorkerOK
  <2> QED
    BY <1>18, <2>1, <2>4, DeadlineMoves, SMTT(60) DEF timerCCancel
<1>19. ASSUME NEW w \in Worker, forward(w) PROVE BranchInv'
  <2>0. upstream' # None /\ (upstream # None => upstream' = upstream)
    <3>1. reply[w] \in Answer
      BY <1>19, SMTT(60) DEF forward, BranchInv, WorkerOK, TypeOK
    <3> QED
      BY <1>19, <3>1, RespondOnce, Zenon DEF forward
  <2>1. ASSUME NEW x \in Branch PROVE BranchOK(x)'
    BY <1>19, SMTT(60) DEF forward, Goto, BranchInv, BranchOK, TypeOK
  <2>2. ASSUME NEW x \in Deadline PROVE DeadlineOK(x)'
    BY <1>19 DEF forward, Goto, BranchInv, DeadlineOK, TypeOK
  <2>3. ASSUME NEW x \in Worker PROVE WorkerOK(x)'
    BY <1>19, <2>0 DEF forward, Goto, BranchInv, WorkerOK, TypeOK
  <2> QED
    BY <2>1, <2>2, <2>3 DEF BranchInv
<1>20. ASSUME NEW w \in Worker, cleanupGroup(w) PROVE BranchInv'
  <2>1. ASSUME NEW x \in Branch PROVE BranchOK(x)'
    BY <1>20 DEF cleanupGroup, Goto, BranchInv, BranchOK, TypeOK
  <2>2. ASSUME NEW x \in Deadline PROVE DeadlineOK(x)'
    BY <1>20 DEF cleanupGroup, Goto, BranchInv, DeadlineOK, TypeOK
  <2>3. ASSUME NEW x \in Worker PROVE WorkerOK(x)'
    BY <1>20 DEF cleanupGroup, Goto, BranchInv, WorkerOK, TypeOK
  <2> QED
    BY <2>1, <2>2, <2>3 DEF BranchInv
<1>21. CASE UNCHANGED vars
  BY <1>1, <1>21 DEF vars
<1> QED
  BY <1>2, <1>3, <1>4, <1>5, <1>6, <1>7, <1>8, <1>9, <1>10, <1>11, <1>12, <1>13, <1>14, <1>15, <1>16, <1>17, <1>18, <1>19, <1>20, <1>21
     DEF Next, Fork, runBranch, timerC

-----------------------------------------------------------------------------
(* The theorem *)

\* PlaceInv holds initially.
LEMMA InitPlace == ASSUME Init PROVE PlaceInv
<1>1. 1 \in 1..Len(Targets) + 1 /\ Len(Targets) \in Nat
  BY TargetsDomain
<1>2. TypeOK
  <2>1. group \in Seq(Branch) /\ Len(group) <= Len(Targets)
    BY <1>1 DEF Init
  <2>2. todo \in [Worker -> Seq(Branch)]
    BY DEF Init
  <2>3. run \in Place /\ req \in Kind
    BY <1>1, Constants DEF Init, Place
  <2>4. /\ tx \in [Branch -> {"none", "calling", "trying", "proceeding", "completed"}]
        /\ event \in [Branch -> Code \cup {None, 0}]
        /\ final \in [Branch -> Code \cup {None, 504}]
        /\ pc \in [Worker -> Label]
        /\ reply \in [Worker -> Answer \cup {None}]
    BY SMTT(60) DEF Init, Label
  <2> QED
    BY <2>1, <2>2, <2>3, <2>4, Zenon DEF Init, TypeOK, Place, Label
<1>3. RunInv
  BY <1>2, Constants, Workers, SMTT(60) DEF Init, RunInv, Kind, Idle
<1>4. BranchInv
  BY Workers DEF Init, BranchInv, BranchOK, DeadlineOK, WorkerOK
<1> QED
  BY <1>2, <1>3, <1>4 DEF PlaceInv

\* PlaceInv is inductive.
LEMMA StepPlace == ASSUME PlaceInv, [Next]_vars PROVE PlaceInv'
  BY TypeStep, RunStep, BranchStep DEF PlaceInv

\* Every variable keeps its type, and a group has no more branches than there are
\* targets, whatever the second pass of handleInitial does to it.
THEOREM TypeCorrect == Spec => []TypeOK
<1>1. PlaceInv => TypeOK
  BY DEF PlaceInv
<1> QED
  BY <1>1, InitPlace, StepPlace, PTL DEF Spec
=============================================================================
