------------------------------ MODULE ProxyFork ------------------------------
(***************************************************************************)
(* How the proxy forks one request (proxy.go) and answers its caller.      *)
(*                                                                         *)
(* Goroutines:                                                             *)
(*   - TxManager.Run, which runs handleRequest (and so all of fork) before *)
(*     it takes the next packet: a response or a CANCEL comes after fork;  *)
(*   - runBranch, one for each branch;                                     *)
(*   - the Timer C callback, one for each call of fork.                    *)
(* A step is what one of them does under p.mu or under one branchState.mu. *)
(*                                                                         *)
(* handleRequest calls handleInitial twice for MESSAGE, OPTIONS, INFO,     *)
(* NOTIFY and UPDATE; a branch is named by the pass and the target.        *)
(*                                                                         *)
(* Of the client transactions (module ClientTx) this module keeps what the *)
(* proxy sees: the state, which decides whether Cancel sends something, and*)
(* the first final event.  Of the server transaction (module ServerTx) it keeps that the   *)
(* first final response is the one that counts.                            *)
(***************************************************************************)
EXTENDS Integers, Sequences

CONSTANTS
  Request,  \* the kinds of requests considered
  Targets,  \* what ResolveTargets returns: a sequence of URIs
  Code,     \* the final status codes a callee may answer with
  TimerC,   \* names the Timer C callback among the goroutines of a pass
  None

Target == {Targets[i] : i \in DOMAIN Targets}

\* Is it an INVITE, how often handleInitial is called, are there hops left?
Kind == {r \in [invite : BOOLEAN, passes : 1..2, hops : BOOLEAN] : r.invite => r.passes = 1}

Branch   == (1..2) \X Target
Deadline == (1..2) \X {TimerC}
Worker   == Branch \cup Deadline

Success(c) == c \in 200..299

\* A final response on its way up, and the branch it comes from, if any.
Reply(c, b) == [code |-> c, leg |-> b]
Answer      == [code : Code \cup {483, 500, 504}, leg : Branch \cup {None}]

ASSUME ProxyForkAssumption ==
  /\ Request \subseteq Kind
  /\ Targets \in Seq(Target)
  /\ Len(Targets) > 0
  /\ \A i, j \in DOMAIN Targets : Targets[i] = Targets[j] => i = j
  /\ Code \subseteq 200..699
  /\ TimerC \notin Target
  /\ None \notin Branch \cup Answer \cup 0..699

VARIABLES
  req,        \* the request
  run,        \* what the Run goroutine is doing: pass, targets left to fork to
  group,      \* p.branches[groupKey]: the branches listed, in order
  present,    \* p.branches has the group
  cancelled,  \* p.cancelled[groupKey]
  tx,         \* state of the branch's ClientTx
  event,      \* its first final event
  final,      \* branchState.final; None while isFinal is false
  pc,         \* where each goroutine is
  todo,       \* the branches it has copied from the group, not yet looked at
  reply,      \* the response it is going to forward
  upstream,   \* the final response of the server transaction
  dialog,     \* p.dialogs[Call-ID]: the branch it leads to
  withdrawn,  \* history: a CANCEL has reached the group
  early,      \* history: a branch ended before fork was over
  cancelSent  \* history: the branches a CANCEL was sent to

groupVars  == <<group, present, cancelled>>
branchVars == <<tx, event, final, cancelSent>>
workVars   == <<pc, todo, reply>>
vars == <<req, run, groupVars, branchVars, workVars, upstream, dialog, withdrawn, early>>

Idle == [pc |-> "idle"]

TypeOK ==
  /\ req \in Kind
  /\ run \in {Idle} \cup [pc : {"initial", "fork"}, pass : 1..2, next : 1..Len(Targets) + 1]
  /\ group \in Seq(Branch) /\ Len(group) <= Len(Targets)
  /\ present \in BOOLEAN
  /\ cancelled \in BOOLEAN
  /\ tx \in [Branch -> {"none", "calling", "trying", "proceeding", "completed"}]
  /\ event \in [Branch -> Code \cup {None, 0}]
  /\ final \in [Branch -> Code \cup {None, 504}]
  /\ pc \in [Worker -> {"none", "wait", "abort", "check", "scan", "deliver", "cancel",
                        "respond", "cleanup", "done"}]
  /\ todo \in [Worker -> Seq(Branch)]
  /\ reply \in [Worker -> Answer \cup {None}]
  /\ upstream \in Answer \cup {None}
  /\ dialog \in Branch \cup {None}
  /\ withdrawn \in BOOLEAN
  /\ early \in BOOLEAN
  /\ cancelSent \in SUBSET Branch

Init ==
  /\ req \in Request
  /\ run = [pc |-> "initial", pass |-> 1, next |-> 1]
  /\ group = <<>>
  /\ present = FALSE
  /\ cancelled = FALSE
  /\ tx = [b \in Branch |-> "none"]
  /\ event = [b \in Branch |-> None]
  /\ final = [b \in Branch |-> None]
  /\ pc = [w \in Worker |-> "none"]
  /\ todo = [w \in Worker |-> <<>>]
  /\ reply = [w \in Worker |-> None]
  /\ upstream = None
  /\ dialog = None
  /\ withdrawn = FALSE
  /\ early = FALSE
  /\ cancelSent = {}

\* ServerTx.Respond with a final response: the first one counts.
Respond(a) == upstream' = IF upstream = None THEN a ELSE upstream

\* ClientTx.Cancel sends a CANCEL in the states Calling and Proceeding.
Cancellable(b) == tx[b] \in {"calling", "proceeding"}

-----------------------------------------------------------------------------
(* handleRequest, handleInitial and fork, on the Run goroutine *)

\* What follows a pass: another one, or the next packet.
AfterPass(p) == IF p < req.passes THEN [pc |-> "initial", pass |-> p + 1, next |-> 1]
                ELSE Idle

\* No callback, an error from it, or no target.
handleInitialFails ==
  /\ run.pc = "initial"
  /\ Respond(Reply(500, None))
  /\ run' = AfterPass(run.pass)
  /\ UNCHANGED <<req, groupVars, branchVars, workVars, dialog, withdrawn, early>>

\* Mutant: the second pass adds to the branches of the first.
ListKept == group

ListReset == <<>>

\* fork starts a fresh group, which a request out of hops leaves behind.
forkStart ==
  /\ run.pc = "initial"
  /\ group' = ListReset
  /\ present' = TRUE
  /\ cancelled' = FALSE
  /\ IF req.hops
     THEN run' = [run EXCEPT !.pc = "fork"] /\ UNCHANGED upstream
     ELSE run' = AfterPass(run.pass) /\ Respond(Reply(483, None))
  /\ UNCHANGED <<req, branchVars, workVars, dialog, withdrawn, early>>

\* The branch the loop of fork is about to make.
NextBranch == <<run.pass, Targets[run.next]>>

\* Request succeeds; the branch is listed and its goroutine started.
forkBranch ==
  /\ run.pc = "fork"
  /\ run.next <= Len(Targets)
  /\ tx' = [tx EXCEPT ![NextBranch] = IF req.invite THEN "calling" ELSE "trying"]
  /\ group' = Append(group, NextBranch)
  /\ present' = TRUE
  /\ pc' = [pc EXCEPT ![NextBranch] = "wait"]
  /\ run' = [run EXCEPT !.next = @ + 1]
  /\ UNCHANGED <<req, cancelled, event, final, cancelSent, todo, reply, upstream, dialog,
                 withdrawn, early>>

\* Request fails; the target is passed over.
forkSkip ==
  /\ run.pc = "fork"
  /\ run.next <= Len(Targets)
  /\ run' = [run EXCEPT !.next = @ + 1]
  /\ UNCHANGED <<req, groupVars, branchVars, workVars, upstream, dialog, withdrawn, early>>

\* Timer C is set.
forkEnd ==
  /\ run.pc = "fork"
  /\ run.next > Len(Targets)
  /\ pc' = [pc EXCEPT ![<<run.pass, TimerC>>] = "wait"]
  /\ run' = AfterPass(run.pass)
  /\ UNCHANGED <<req, groupVars, branchVars, todo, reply, upstream, dialog, withdrawn, early>>

\* The whole of handleCancel holds p.mu.  It reads isFinal without the mutex of
\* the branch: what it does not see to be final it cancels.
handleCancel ==
  /\ run = Idle
  /\ req.invite
  /\ present
  /\ cancelled' = TRUE
  /\ withdrawn' = TRUE
  /\ LET listed == {group[i] : i \in DOMAIN group}
     IN  \E seen \in SUBSET {b \in listed : final[b] # None} :
           cancelSent' = cancelSent \cup {b \in listed \ seen : Cancellable(b)}
  /\ UNCHANGED <<req, run, group, present, tx, event, final, workVars, upstream, dialog, early>>

-----------------------------------------------------------------------------
(* The client transaction of a branch: see module ClientTx *)

\* A provisional response.
receiveProvisional(b) ==
  /\ run = Idle
  /\ tx[b] \in {"calling", "trying"}
  /\ event[b] = None
  /\ tx' = [tx EXCEPT ![b] = "proceeding"]
  /\ UNCHANGED <<req, run, groupVars, event, final, cancelSent, workVars, upstream, dialog,
                 withdrawn, early>>

\* A final response, delivered as an event.  A success leaves the state of a
\* transaction other than an INVITE's as it is.
receiveFinal(b, c) ==
  /\ run = Idle
  /\ tx[b] # "none"
  /\ event[b] = None
  /\ tx' = [tx EXCEPT ![b] = IF req.invite \/ ~Success(c) THEN "completed" ELSE @]
  /\ event' = [event EXCEPT ![b] = c]
  /\ UNCHANGED <<req, run, groupVars, final, cancelSent, workVars, upstream, dialog,
                 withdrawn, early>>

\* Timer F: the event 0 stands for ErrTimeout.  The state stays, and Cancel still
\* sends.  An INVITE that was answered provisionally does not time out, except
\* when that came during the last retransmission, which makes no difference to
\* Cancel.
timeout(b) ==
  /\ tx[b] # "none"
  /\ event[b] = None
  /\ req.invite => tx[b] = "calling"
  /\ event' = [event EXCEPT ![b] = 0]
  /\ UNCHANGED <<req, run, groupVars, tx, final, cancelSent, workVars, upstream, dialog,
                 withdrawn, early>>

-----------------------------------------------------------------------------
(* runBranch *)

Goto(w, l) == pc' = [pc EXCEPT ![w] = l]

\* Mutant: a branch that times out does not look at its group.
CheckUnlessTimeout(c) == IF c = 0 THEN "done" ELSE IF Success(c) THEN "deliver" ELSE "check"

AfterEvent(c) == IF Success(c) THEN "deliver" ELSE "check"

\* markFinal, with 504 for a timeout; then deliverFinal or checkGroupDone.
runBranchEvent(b) ==
  /\ pc[b] = "wait"
  /\ event[b] # None
  /\ final' = [final EXCEPT ![b] = IF event[b] = 0 THEN 504 ELSE event[b]]
  /\ Goto(b, AfterEvent(event[b]))
  /\ early' = (early \/ run # Idle)
  /\ UNCHANGED <<req, run, groupVars, tx, event, cancelSent, todo, reply, upstream, dialog,
                 withdrawn>>

\* The deadline, which is as long as Timer C: markFinal, then Cancel.
runBranchDeadline(b) ==
  /\ pc[b] = "wait"
  /\ final' = [final EXCEPT ![b] = 504]
  /\ Goto(b, "abort")
  /\ early' = (early \/ run # Idle)
  /\ UNCHANGED <<req, run, groupVars, tx, event, cancelSent, todo, reply, upstream, dialog,
                 withdrawn>>

runBranchAbort(b) ==
  /\ pc[b] = "abort"
  /\ cancelSent' = cancelSent \cup {x \in {b} : Cancellable(x)}
  /\ Goto(b, "check")
  /\ UNCHANGED <<req, run, groupVars, tx, event, final, todo, reply, upstream, dialog,
                 withdrawn, early>>

-----------------------------------------------------------------------------
(* checkGroupDone *)

checkGroupDone(b) ==
  /\ pc[b] = "check"
  /\ IF cancelled
     THEN Goto(b, "done") /\ UNCHANGED todo
     ELSE Goto(b, "scan") /\ todo' = [todo EXCEPT ![b] = group]
  /\ UNCHANGED <<req, run, groupVars, branchVars, reply, upstream, dialog, withdrawn, early>>

Prefs == <<491, 600, 603, 486, 404, 403, 401, 407, 415, 503, 500, 502, 504>>

Rank(c) ==
  IF Success(c) THEN 1000
  ELSE IF \E i \in DOMAIN Prefs : Prefs[i] = c
       THEN 901 - (CHOOSE i \in DOMAIN Prefs : Prefs[i] = c)
       ELSE c

\* Mutant: the lowest rank wins.
pickWorstResponse(s) ==
  CHOOSE i \in DOMAIN s : \A j \in DOMAIN s : Rank(final[s[i]]) <= Rank(final[s[j]])

\* The first branch of the highest rank.
pickBestResponse(s) ==
  CHOOSE i \in DOMAIN s :
    \A j \in DOMAIN s : /\ Rank(final[s[j]]) <= Rank(final[s[i]])
                        /\ j < i => Rank(final[s[j]]) < Rank(final[s[i]])

\* The branches it copied are looked at one by one; as none of them ceases to be
\* final, all of them are at the moment the last is.
checkGroupScan(b) ==
  LET s == todo[b]
  IN  /\ pc[b] = "scan"
      /\ IF \E i \in DOMAIN s : final[s[i]] = None
         THEN Goto(b, "done") /\ UNCHANGED reply
         ELSE /\ reply' = [reply EXCEPT ![b] =
                             IF s = <<>> THEN Reply(500, None)
                             ELSE LET x == s[pickBestResponse(s)] IN Reply(final[x], x)]
              /\ Goto(b, "respond")
      /\ todo' = [todo EXCEPT ![b] = <<>>]
      /\ UNCHANGED <<req, run, groupVars, branchVars, upstream, dialog, withdrawn, early>>

-----------------------------------------------------------------------------
(* deliverFinal *)

\* The first one to get here while the group lasts claims it.
deliverFinal(b) ==
  /\ pc[b] = "deliver"
  /\ IF cancelled
     THEN Goto(b, "done") /\ UNCHANGED <<cancelled, todo>>
     ELSE /\ cancelled' = TRUE
          /\ todo' = [todo EXCEPT ![b] = group]
          /\ Goto(b, "cancel")
  /\ UNCHANGED <<req, run, group, present, branchVars, reply, upstream, dialog, withdrawn, early>>

\* Mutant: only the branches that were answered provisionally are cancelled.
CancelProceeding(w, x) == IF x # w /\ final[x] = None /\ tx[x] = "proceeding" THEN {x} ELSE {}

\* What the goroutine sends when it comes to a branch of its copy.
CancelOther(w, x) == IF x # w /\ final[x] = None /\ Cancellable(x) THEN {x} ELSE {}

deliverCancel(b) ==
  /\ pc[b] = "cancel"
  /\ todo[b] # <<>>
  /\ cancelSent' = cancelSent \cup CancelOther(b, Head(todo[b]))
  /\ todo' = [todo EXCEPT ![b] = Tail(@)]
  /\ UNCHANGED <<req, run, groupVars, tx, event, final, pc, reply, upstream, dialog,
                 withdrawn, early>>

\* The dialog leads to the Contact of the branch's response.
deliverRecord(b) ==
  /\ pc[b] = "cancel"
  /\ todo[b] = <<>>
  /\ dialog' = b
  /\ reply' = [reply EXCEPT ![b] = Reply(final[b], b)]
  /\ Goto(b, "respond")
  /\ UNCHANGED <<req, run, groupVars, branchVars, todo, upstream, withdrawn, early>>

-----------------------------------------------------------------------------
(* Timer C *)

timerCFire(d) ==
  /\ pc[d] = "wait"
  /\ IF cancelled \/ group = <<>>
     THEN Goto(d, "done") /\ UNCHANGED todo
     ELSE Goto(d, "cancel") /\ todo' = [todo EXCEPT ![d] = group]
  /\ UNCHANGED <<req, run, groupVars, branchVars, reply, upstream, dialog, withdrawn, early>>

\* A branch that is not final is cancelled, and 504 is due.
timerCCancel(d) ==
  LET x   == Head(todo[d])
      due == IF final[x] = None THEN Reply(504, None) ELSE reply[d]
  IN  /\ pc[d] = "cancel"
      /\ cancelSent' = cancelSent \cup CancelOther(d, x)
      /\ reply' = [reply EXCEPT ![d] = due]
      /\ todo' = [todo EXCEPT ![d] = Tail(@)]
      /\ Goto(d, IF todo'[d] # <<>> THEN "cancel"
                 ELSE IF due = None THEN "done" ELSE "respond")
      /\ UNCHANGED <<req, run, groupVars, tx, event, final, upstream, dialog, withdrawn, early>>

-----------------------------------------------------------------------------
(* The end of checkGroupDone, deliverFinal and the Timer C callback *)

forward(w) ==
  /\ pc[w] = "respond"
  /\ Respond(reply[w])
  /\ reply' = [reply EXCEPT ![w] = None]
  /\ Goto(w, "cleanup")
  /\ UNCHANGED <<req, run, groupVars, branchVars, todo, dialog, withdrawn, early>>

cleanupGroup(w) ==
  /\ pc[w] = "cleanup"
  /\ group' = <<>>
  /\ present' = FALSE
  /\ cancelled' = FALSE
  /\ Goto(w, "done")
  /\ UNCHANGED <<req, run, branchVars, todo, reply, upstream, dialog, withdrawn, early>>

-----------------------------------------------------------------------------
Fork == handleInitialFails \/ forkStart \/ forkBranch \/ forkSkip \/ forkEnd

Network(b) == receiveProvisional(b) \/ timeout(b) \/ \E c \in Code : receiveFinal(b, c)

runBranch(b) ==
  \/ runBranchEvent(b) \/ runBranchDeadline(b) \/ runBranchAbort(b)
  \/ checkGroupDone(b) \/ checkGroupScan(b)
  \/ deliverFinal(b) \/ deliverCancel(b) \/ deliverRecord(b)
  \/ forward(b) \/ cleanupGroup(b)

timerC(d) ==
  timerCFire(d) \/ timerCCancel(d) \/ forward(d) \/ cleanupGroup(d)

Next ==
  \/ Fork
  \/ handleCancel
  \/ \E b \in Branch : Network(b) \/ runBranch(b)
  \/ \E d \in Deadline : timerC(d)

Spec == Init /\ [][Next]_vars

\* The scheduler runs every goroutine that can go on, and the timers fire.  The
\* callees and the caller owe nothing.
Fairness ==
  /\ WF_vars(Fork)
  /\ \A b \in Branch : WF_vars(runBranch(b))
  /\ \A d \in Deadline : WF_vars(timerC(d))

FairSpec == Spec /\ Fairness

-----------------------------------------------------------------------------
(* Properties *)

\* When the callees' own failure goes up, every branch has ended and none ended
\* better: no success is lost to it, whatever Timer C and the CANCEL do
\* meanwhile.  (483, 500 and 504 are the proxy's own.)  A branch that ends while
\* fork is at work is the exception: checkGroupDone then copies a group that is
\* not complete.
BestForwarded ==
  req.passes = 1 /\ ~early /\ upstream # None /\ ~Success(upstream.code)
    => \/ upstream.code \in {483, 500, 504}
       \/ \A b \in Branch : tx[b] # "none" =>
            final[b] # None /\ Rank(final[b]) <= Rank(upstream.code)

\* When a success goes up, no branch of the INVITE is left ringing: each has
\* ended, for the proxy or for its transaction, or a CANCEL was sent to it.  The
\* exception is the same.
LosersCancelled ==
  req.invite /\ ~early /\ upstream # None /\ Success(upstream.code)
    => \A b \in Branch : Cancellable(b) => final[b] # None \/ b \in cancelSent

\* The last branch to end has the caller answered: once fork is over and every
\* runBranch has returned, the caller has its response, unless it cancelled.
\* Timer C is not needed for that, and does not get in the way of it.
LastBranchAnswers ==
  run = Idle /\ (\E b \in Branch : pc[b] = "done")
             /\ (\A b \in Branch : pc[b] \in {"none", "done"})
    => upstream # None \/ withdrawn

\* Every request that reached a callee is answered, unless the caller cancels.
Answered ==
  (run = Idle /\ \E b \in Branch : tx[b] # "none") ~> (upstream # None \/ withdrawn)

\* The dialog leads to the callee whose success the caller was given: "the first
\* 2xx wins and the other branches are cancelled" (docs/sequences.md:60).
DialogIsWinner ==
  dialog # None /\ upstream # None /\ Success(upstream.code) => dialog = upstream.leg

\* The caller that cancels is answered: the callee's 487 goes "deliverFinal /
\* checkGroupDone, then upstream" (docs/sequences.md:169).
CancelAnswered == withdrawn ~> upstream # None
=============================================================================
