-------------------------- MODULE ProxyDialogProofs -------------------------
(* Proofs that OneByeThrough and CrashNeedsNoContact are invariants of      *)
(* ProxyDialog, for any number of requests and of dialogs.                  *)
EXTENDS ProxyDialog, TLAPS

\* The types of the variables the proofs are about.
Types ==
  /\ dialog \in [leg: {Callee, None}, nr: 1..MaxDialogs] \cup {None}
  /\ made \in 0..MaxDialogs
  /\ method \in [Req -> Method \cup {None}]
  /\ src \in [Req -> {Caller, Callee, Other, None}]
  /\ got \in [Req -> {Callee, None}]
  /\ byes \in [1..MaxDialogs -> SUBSET Req]
  /\ crashed \in BOOLEAN

\* The Run goroutine is described by a record.
Shaped == run = [req |-> run.req, pass |-> run.pass, dlg |-> run.dlg]

\* Dialogs are numbered in the order they are recorded, and byes holds BYEs.
Numbered ==
  /\ dialog # None => dialog.nr <= made
  /\ \A d \in 1..MaxDialogs :
       /\ byes[d] # {} => d <= made
       /\ \A r \in byes[d] : method[r] = "BYE"

\* After a BYE was let through only a later dialog can be recorded.
Later == \A d \in 1..MaxDialogs : byes[d] # {} /\ dialog # None => dialog.nr > d

\* The dialog that handleInDialog has found leads to the callee, and no BYE was
\* let through for it: the Run goroutine handles one request at a time.
Holding ==
  run.dlg # None =>
    /\ run.dlg \in [leg: {Callee}, nr: 1..MaxDialogs]
    /\ run.dlg.nr <= made
    /\ byes[run.dlg.nr] = {}
    /\ \A d \in 1..MaxDialogs : byes[d] # {} => run.dlg.nr > d

\* A panic is the last thing the Run goroutine does.
CrashedIsIdle == crashed => run = Idle

\* A request that has arrived came from somewhere.
Arrived == /\ \A r \in Req : method[r] # None => src[r] # None
           /\ run.req \in Req => method[run.req] # None

\* The inductive invariant.
IInv ==
  /\ Types /\ Shaped /\ Numbered /\ Later /\ Holding /\ CrashedIsIdle /\ Arrived
  /\ OneByeThrough /\ CrashNeedsNoContact

\* Initially no dialog is recorded.
LEMMA InitInv == Init => IInv
<1> SUFFICES ASSUME Init PROVE IInv
  OBVIOUS
<1> USE ProxyDialogAssumption DEF Init
<1>1. Types
  <2>1. made \in 0..MaxDialogs /\ dialog = None
    OBVIOUS
  <2>2. /\ method \in [Req -> Method \cup {None}]
        /\ src \in [Req -> {Caller, Callee, Other, None}]
        /\ got \in [Req -> {Callee, None}]
    OBVIOUS
  <2>3. byes \in [1..MaxDialogs -> SUBSET Req]
    OBVIOUS
  <2> QED
    BY <2>1, <2>2, <2>3, ZenonT(30) DEF Types
<1>2. Numbered /\ Later /\ Holding /\ OneByeThrough /\ Shaped
  BY DEF Numbered, Later, Holding, Idle, OneByeThrough, Shaped
<1>3. CrashedIsIdle /\ Arrived /\ CrashNeedsNoContact
  BY DEF CrashedIsIdle, Arrived, CrashNeedsNoContact, Idle
<1> QED
  BY <1>1, <1>2, <1>3 DEF IInv

\* A step that leaves these variables alone keeps the invariant.
LEMMA Kept ==
  IInv /\ UNCHANGED <<dialog, made, method, src, run, got, byes, crashed>> => IInv'
  BY DEF IInv, Types, Shaped, Numbered, Later, Holding, CrashedIsIdle, Arrived, OneByeThrough,
     CrashNeedsNoContact

\* While the Run goroutine has a request the program is alive.
LEMMA Alive == ASSUME IInv, NEW r \in Req, run.req = r PROVE ~crashed
  BY ProxyDialogAssumption DEF IInv, CrashedIsIdle, Idle

\* What the Run goroutine turns to next is the same request or none.
LEMMA PassedReq ==
  ASSUME NEW r \in Req, run.req = r, Passed
  PROVE  run'.req \in {r, None} /\ run'.dlg = None /\ Shaped'
<1>1. CASE method[run.req] = "INFO" /\ run.pass = 1
  BY <1>1 DEF Passed, Shaped
<1>2. CASE ~(method[run.req] = "INFO" /\ run.pass = 1)
  BY <1>2 DEF Passed, Idle, Shaped
<1> QED
  BY <1>1, <1>2

\* A new dialog has a number no BYE was let through for.
LEMMA RecordInv == ASSUME IInv, NEW leg \in {Callee, None}, Record(leg) PROVE IInv'
<1> USE ProxyDialogAssumption DEF Record
<1>1. Types'
  BY DEF IInv, Types
<1>2. Numbered'
  BY DEF IInv, Types, Numbered
<1>3. CrashedIsIdle' /\ Arrived' /\ Later' /\ Holding' /\ Shaped'
  BY DEF IInv, Types, Numbered, CrashedIsIdle, Arrived, Later, Holding, Shaped
<1>4. OneByeThrough'
  BY DEF IInv, Types, Numbered, OneByeThrough
<1>5. CrashNeedsNoContact'
  BY DEF IInv, Types, CrashNeedsNoContact
<1> QED
  BY <1>1, <1>2, <1>3, <1>4, <1>5 DEF IInv

\* A request that arrives was not there before.
LEMMA RecvInv ==
  ASSUME IInv, NEW r \in Req, NEW m \in Method, NEW h \in {Caller, Callee, Other},
         Recv(r, m, h)
  PROVE IInv'
<1> USE ProxyDialogAssumption DEF Recv
<1>1. Types'
  BY DEF IInv, Types
<1>2. Numbered'
  <2>1. \A d \in 1..MaxDialogs : \A q \in byes[d] : q # r /\ q \in Req
    BY DEF IInv, Types, Numbered, Method
  <2> QED
    BY <2>1 DEF IInv, Types, Numbered
<1>3. CrashedIsIdle' /\ OneByeThrough' /\ CrashNeedsNoContact' /\ Later' /\ Holding' /\ Shaped'
  BY DEF IInv, Types, CrashedIsIdle, OneByeThrough, CrashNeedsNoContact, Later, Holding, Shaped
<1>4. Arrived'
  BY DEF IInv, Types, Arrived, Method
<1> QED
  BY <1>1, <1>2, <1>3, <1>4 DEF IInv

\* handleAck panics only for the caller: no source is a missing leg.
LEMMA HandleAckInv == ASSUME IInv, NEW r \in Req, handleAck(r) PROVE IInv'
<1> USE ProxyDialogAssumption DEF handleAck
<1>1. Types'
  BY ZenonT(30) DEF IInv, Types, AckDrops
<1>2. Numbered' /\ CrashedIsIdle' /\ Arrived' /\ Later' /\ Holding' /\ Shaped'
  BY DEF IInv, Types, Numbered, CrashedIsIdle, Arrived, Later, Holding, Shaped, Idle
<1>3. OneByeThrough'
  <2>1. \A d \in 1..MaxDialogs : \A q \in byes[d] : q # r /\ q \in Req
    BY DEF IInv, Types, Numbered
  <2> QED
    BY <2>1 DEF IInv, Types, OneByeThrough
<1>4. CrashNeedsNoContact'
  BY ZenonT(30) DEF IInv, Types, Arrived, CrashNeedsNoContact, AckDrops, dialogSourceAllowed
<1> QED
  BY <1>1, <1>2, <1>3, <1>4 DEF IInv

\* A refusal changes no dialog.
LEMMA RefuseInv == ASSUME IInv, NEW r \in Req, Refuse(r) PROVE IInv'
<1> USE ProxyDialogAssumption DEF Refuse
<1>1. ~crashed /\ run'.req \in {r, None} /\ run'.dlg = None /\ Shaped' /\ method[r] # None
  BY Alive, PassedReq DEF IInv, Arrived
<1>2. Types' /\ Numbered' /\ Later' /\ OneByeThrough' /\ CrashNeedsNoContact'
  BY DEF IInv, Types, Numbered, Later, OneByeThrough, CrashNeedsNoContact
<1>3. CrashedIsIdle' /\ Arrived' /\ Holding'
  BY <1>1 DEF IInv, CrashedIsIdle, Arrived, Holding
<1> QED
  BY <1>1, <1>2, <1>3 DEF IInv

\* handleInDialog finds a dialog no BYE was let through for.
LEMMA HandleInDialogInv == ASSUME IInv, NEW r \in Req, handleInDialog(r) PROVE IInv'
<1> USE ProxyDialogAssumption DEF handleInDialog
<1>1. /\ dialog # None /\ dialog \in [leg: {Callee}, nr: 1..MaxDialogs]
      /\ dialog.nr <= made
  BY DEF IInv, Types, Numbered, Refuses
<1>2. run'.req = run.req /\ run'.dlg = dialog /\ Shaped'
  BY DEF IInv, Shaped
<1>3. Types' /\ Numbered' /\ Later' /\ OneByeThrough' /\ CrashNeedsNoContact'
  BY DEF IInv, Types, Numbered, Later, OneByeThrough, CrashNeedsNoContact
<1>4. CrashedIsIdle' /\ Arrived'
  BY <1>2, Alive DEF IInv, CrashedIsIdle, Arrived
<1>5. byes[dialog.nr] = {}
  BY <1>1 DEF IInv, Types, Later
<1>6. Holding'
  BY <1>1, <1>2, <1>5 DEF IInv, Later, Holding
<1> QED
  BY <1>2, <1>3, <1>4, <1>6 DEF IInv

\* A BYE that is let through takes with it what is recorded by then.
LEMMA ForwardInv == ASSUME IInv, NEW r \in Req, handleInDialogForward(r) PROVE IInv'
<1> USE ProxyDialogAssumption DEF handleInDialogForward
<1>1. ~crashed /\ run'.req \in {r, None} /\ run'.dlg = None /\ Shaped' /\ method[r] # None
  BY Alive, PassedReq DEF IInv, Arrived
<1> DEFINE n == run.dlg.nr
<1>2. run.dlg.leg = Callee /\ n \in 1..MaxDialogs /\ n <= made /\ byes[n] = {}
  BY DEF IInv, Holding
<1>3. Types'
  BY <1>2 DEF IInv, Types, Deleted
<1> HIDE DEF n
<1>4. byes' = IF method[r] = "BYE" THEN [byes EXCEPT ![n] = @ \cup {r}] ELSE byes
  BY DEF n
<1>5. Numbered' /\ Later'
  BY <1>2, <1>4 DEF IInv, Types, Numbered, Later, Deleted
<1>6. CrashedIsIdle' /\ Arrived' /\ CrashNeedsNoContact' /\ Holding'
  BY <1>1 DEF IInv, CrashedIsIdle, Arrived, CrashNeedsNoContact, Holding
<1>7. OneByeThrough'
  <2>1. \A d \in 1..MaxDialogs : byes[d] \subseteq Req
    BY DEF IInv, Types
  <2>2. CASE method[r] = "BYE"
    BY <1>2, <1>4, <2>1, <2>2 DEF IInv, Types, OneByeThrough
  <2>3. CASE method[r] # "BYE"
    <3>1. \A d \in 1..MaxDialogs : \A q \in byes[d] : q # r /\ q \in Req
      BY <2>1, <2>3 DEF IInv, Numbered
    <3> QED
      BY <1>4, <2>3, <3>1 DEF IInv, Types, OneByeThrough
  <2> QED
    BY <2>2, <2>3
<1> QED
  BY <1>1, <1>3, <1>5, <1>6, <1>7 DEF IInv

\* The invariant holds in every reachable state.
THEOREM Invariance == Spec => []IInv
<1>1. ASSUME IInv, [Next]_vars PROVE IInv'
  <2>1. ASSUME NEW leg \in {Callee, None}, Record(leg) PROVE IInv'
    BY <1>1, <2>1, RecordInv
  <2>2. ASSUME NEW r \in Req, NEW m \in Method, NEW h \in {Caller, Callee, Other},
               Recv(r, m, h)
        PROVE IInv'
    BY <1>1, <2>2, RecvInv
  <2>3. ASSUME NEW r \in Req, Handle(r) PROVE IInv'
    BY <1>1, <2>3, HandleAckInv, RefuseInv, HandleInDialogInv, ForwardInv DEF Handle
  <2>4. ASSUME NEW r \in Req, NEW n \in Pass, Collect(r, n) PROVE IInv'
    BY <1>1, <2>4, Kept DEF Collect, CollectError, CollectProvisional, CollectFinal
  <2>5. CASE UNCHANGED vars
    BY <1>1, <2>5, Kept DEF vars
  <2> QED
    BY <1>1, <2>1, <2>2, <2>3, <2>4, <2>5 DEF Next
<1> QED
  BY InitInv, <1>1, PTL DEF Spec

\* Of the BYEs of a dialog one at most is forwarded, and to the callee's leg.
THEOREM OneByeThroughHolds == Spec => []OneByeThrough
<1>1. IInv => OneByeThrough
  BY DEF IInv
<1> QED
  BY Invariance, <1>1, PTL

\* The proxy panics only over the caller's ACK for a 2xx without Contact.
THEOREM CrashNeedsNoContactHolds == Spec => []CrashNeedsNoContact
<1>1. IInv => CrashNeedsNoContact
  BY DEF IInv
<1> QED
  BY Invariance, <1>1, PTL
=============================================================================
