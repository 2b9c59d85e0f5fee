---------------------------- MODULE ProxyDialog -----------------------------
(* Requests within a dialog at the proxy (proxy.go), for one Call-ID.  Fork *)
(* (module ProxyFork) records the dialog with the caller's source and the   *)
(* callee's Contact, which the 2xx may lack.  The Run goroutine handles one *)
(* request at a time; forwardAndCollect runs in a goroutine for each pass.  *)
EXTENDS Naturals, FiniteSets

CONSTANTS Req,            \* requests within the dialog
          Caller, Callee, Other,   \* hosts
          MaxDialogs,     \* dialogs made one after the other
          None

Method == {"ACK", "BYE", "INVITE", "INFO"}

ASSUME ProxyDialogAssumption ==
  /\ IsFiniteSet(Req) /\ MaxDialogs \in Nat
  /\ None \notin Req \cup {Caller, Callee, Other} \cup Method

Pass == 1..2

VARIABLES
  dialog,     \* p.dialogs[Call-ID]: [leg, nr], or None; leg None: no Contact
  made,       \* how many dialogs were recorded
  method,     \* method[r], None before the request arrives
  src,        \* src[r]: the host it came from
  run,        \* what the Run goroutine handles: the request, the pass, and the
              \* dialog that handleInDialog has found for it
  pc,         \* pc[r][n]: the goroutine of pass n
  answer,     \* answer[r]: the final response of its server transaction
  early,      \* the requests that forwardAndCollect had a provisional one for
  got,        \* got[r]: the host that the request was forwarded to
  byes,       \* byes[d]: the BYEs let through for dialog number d
  crashed     \* the Run goroutine has panicked: the program is over

vars == <<dialog, made, method, src, run, pc, answer, early, got, byes, crashed>>

Idle == [req |-> None, pass |-> 0, dlg |-> None]

Init ==
  /\ dialog = None
  /\ made = 0
  /\ method = [r \in Req |-> None]
  /\ src = [r \in Req |-> None]
  /\ run = Idle
  /\ pc = [r \in Req |-> [n \in Pass |-> "none"]]
  /\ answer = [r \in Req |-> None]
  /\ early = {}
  /\ got = [r \in Req |-> None]
  /\ byes = [d \in 1..MaxDialogs |-> {}]
  /\ crashed = FALSE

\* ServerTx.Respond with a final response: the first one counts.
Respond(r, code) ==
  answer' = IF answer[r] = None THEN [answer EXCEPT ![r] = code] ELSE answer

\* deliverFinal records the dialog of a 2xx, in the place of any other.
Record(leg) ==
  /\ made < MaxDialogs /\ ~crashed
  /\ made' = made + 1
  /\ dialog' = [leg |-> leg, nr |-> made + 1]
  /\ UNCHANGED <<method, src, run, pc, answer, early, got, byes, crashed>>

-----------------------------------------------------------------------------
(* handleRequest.                                                           *)

Recv(r, m, h) ==
  /\ run = Idle /\ ~crashed
  /\ method[r] = None
  /\ method' = [method EXCEPT ![r] = m]
  /\ src' = [src EXCEPT ![r] = h]
  /\ run' = [req |-> r, pass |-> 1, dlg |-> None]
  /\ UNCHANGED <<dialog, made, pc, answer, early, got, byes, crashed>>

\* handleInitial is called twice for INFO and its like.
Passed == run' = IF method[run.req] = "INFO" /\ run.pass = 1
                 THEN [req |-> run.req, pass |-> 2, dlg |-> None] ELSE Idle

dialogSourceAllowed(h) == h = Caller \/ h = dialog.leg

\* Mutant: the source is not looked at.
AckDropsLess(r) == dialog = None

\* handleAck returns early.
AckDrops(r) == dialog = None \/ ~dialogSourceAllowed(src[r])

\* handleAck: an ACK out of hops is dropped too, otherwise TransportFor(nil)
\* panics.
handleAck(r) ==
  /\ run.req = r /\ method[r] = "ACK"
  /\ run' = Idle
  /\ \/ UNCHANGED <<got, crashed>>
     \/ /\ ~AckDrops(r)
        /\ got' = [got EXCEPT ![r] = dialog.leg]
        /\ crashed' = (dialog.leg = None)
  /\ UNCHANGED <<dialog, made, method, src, pc, answer, early, byes>>

\* ResolveTargets fails (handleInitial), or handleInDialog refuses: 481 without
\* a dialog or a leg, 403 for the source, 483 or 500 from prepareBranch.
RefuseCode(r) ==
  CASE dialog = None -> 481
    [] dialog # None /\ dialog.leg = None -> 481
    [] OTHER -> 403

Refuses(r) ==
  dialog # None => dialog.leg = None \/ ~dialogSourceAllowed(src[r])

Refuse(r) ==
  /\ run.req = r /\ run.dlg = None /\ method[r] # "ACK"
  /\ \/ method[r] # "BYE" /\ Respond(r, 500)
     \/ Refuses(r) /\ Respond(r, RefuseCode(r))
     \/ ~Refuses(r) /\ \E code \in {483, 500} : Respond(r, code)
  /\ Passed
  /\ UNCHANGED <<dialog, made, method, src, pc, early, got, byes, crashed>>

\* Mutant: BYE leaves the dialog.
DeletedNot(r) == dialog

\* The dialog after request r was let through.
Deleted(r) == IF method[r] = "BYE" THEN None ELSE dialog

\* handleInDialog: getDialog, after which p.mu is free, and the checks.
handleInDialog(r) ==
  /\ run.req = r /\ run.dlg = None /\ method[r] # "ACK"
  /\ ~Refuses(r)
  /\ run' = [run EXCEPT !.dlg = dialog]
  /\ UNCHANGED <<dialog, made, method, src, pc, answer, early, got, byes, crashed>>

\* The rest of it: a BYE deletes what is recorded for the Call-ID by now, then the
\* request is forwarded to the callee's leg, whoever sent it.
handleInDialogForward(r) ==
  /\ run.req = r /\ run.dlg # None
  /\ dialog' = Deleted(r)
  /\ byes' = IF method[r] = "BYE" THEN [byes EXCEPT ![run.dlg.nr] = @ \cup {r}] ELSE byes
  /\ got' = [got EXCEPT ![r] = run.dlg.leg]
  /\ pc' = [pc EXCEPT ![r][run.pass] = "collect"]
  /\ Passed
  /\ UNCHANGED <<made, method, src, answer, early, crashed>>

-----------------------------------------------------------------------------
(* forwardAndCollect: the first event, whatever it is, ends it.              *)

\* Mutant: a goroutine that had an error does not answer.
CollectErrorSilent(r, n) ==
  /\ pc[r][n] = "collect" /\ ~crashed
  /\ pc' = [pc EXCEPT ![r][n] = "done"]
  /\ UNCHANGED <<dialog, made, method, src, run, answer, early, got, byes, crashed>>

\* The send fails, the transaction does, or sixty seconds pass.
CollectError(r, n) ==
  /\ pc[r][n] = "collect" /\ ~crashed
  /\ pc' = [pc EXCEPT ![r][n] = "done"]
  /\ Respond(r, 500)
  /\ UNCHANGED <<dialog, made, method, src, run, early, got, byes, crashed>>

\* A provisional response is passed on, and no other event is read.
CollectProvisional(r, n) ==
  /\ pc[r][n] = "collect" /\ ~crashed
  /\ pc' = [pc EXCEPT ![r][n] = "done"]
  /\ early' = early \cup {r}
  /\ UNCHANGED <<dialog, made, method, src, run, answer, got, byes, crashed>>

CollectFinal(r, n) ==
  /\ pc[r][n] = "collect" /\ ~crashed
  /\ pc' = [pc EXCEPT ![r][n] = "done"]
  /\ Respond(r, 200)
  /\ UNCHANGED <<dialog, made, method, src, run, early, got, byes, crashed>>

-----------------------------------------------------------------------------

Collect(r, n) == CollectError(r, n) \/ CollectProvisional(r, n) \/ CollectFinal(r, n)

Handle(r) ==
  handleAck(r) \/ Refuse(r) \/ handleInDialog(r) \/ handleInDialogForward(r)

Next ==
  \/ \E leg \in {Callee, None} : Record(leg)
  \/ \E r \in Req :
       \/ \E m \in Method, h \in {Caller, Callee, Other} : Recv(r, m, h)
       \/ Handle(r)
       \/ \E n \in Pass : Collect(r, n)

Spec == Init /\ [][Next]_vars

\* The goroutines run; the wait of forwardAndCollect is limited.
FairSpec ==
  /\ Spec
  /\ \A r \in Req : WF_vars(Handle(r)) /\ \A n \in Pass : WF_vars(Collect(r, n))

-----------------------------------------------------------------------------

\* When both ends hang up at once one BYE is let through: of the BYEs that find
\* a dialog at most one is forwarded, and only to the callee's leg, though the
\* dialog may be replaced between the lookup and the deletion.
OneByeThrough ==
  \A d \in 1..MaxDialogs :
    /\ \A q, r \in byes[d] : q = r
    /\ \A r \in byes[d] : got[r] = Callee

\* "The dialog is deleted after the BYE was forwarded successfully"
\* (docs/sequences.md:142): a BYE whose forwarding failed leaves the dialog it
\* found, and can be tried again.
FailedByeLeavesDialog ==
  \A d \in 1..MaxDialogs : \A r \in byes[d] :
    answer[r] = 500 /\ made = d => dialog # None

\* The Run goroutine panics only over an ACK, from the caller, for a dialog
\* whose 2xx had no Contact.
CrashNeedsNoContact ==
  crashed => dialog # None /\ dialog.leg = None
             /\ \E r \in Req : method[r] = "ACK" /\ src[r] = Caller

\* A request is answered, if the proxy lives, unless the first thing the callee
\* sent was a provisional response: forwardAndCollect does not wait for the
\* final one.
AnsweredUnlessEarly ==
  \A r \in Req :
    method[r] \notin {None, "ACK"} ~> answer[r] # None \/ r \in early \/ crashed
=============================================================================
