---------------------------- MODULE B2BUAProofs -----------------------------
(* Proofs that TypeOK, ByeOnce, OvertakenOnly, HangupReachesPeer and        *)
(* MediaLostToOther are invariants of B2BUA, that no BYE of a callee is     *)
(* accepted, and that B2BUA implements Bridge, for any number of INVITEs,   *)
(* Call-IDs and requests within a dialog.                                   *)
EXTENDS B2BUA, TLAPS

\* The variables the proofs are about are functions.
Shapes ==
  /\ callID \in [Inv -> Call \cup {None}]
  /\ dlg = [u \in Side |-> [i \in Inv |-> dlg[u][i]]]
  /\ table = [u \in Side |-> table[u]]
  /\ reply = [u \in Side |-> [i \in Inv |-> [s \in Seqs(u) |-> reply[u][i][s]]]]
  /\ run = [u \in Side |-> run[u]]

\* The A leg of an INVITE that has arrived keeps the ID it was made with.
Legs ==
  \A i \in Inv : callID[i] # None =>
    /\ dlg["in"][i] \in DialogType(Call, Tag, Host)
    /\ ID(dlg["in"][i]) = LegKey("in", i)

\* The ingress table has A legs under their IDs.  The egress stores a B leg
\* before the callee has a tag, so under an ID no request of the callee has.
Tables ==
  /\ \A e \in table["in"] : \E i \in Inv : callID[i] # None /\ e = <<LegKey("in", i), i>>
  /\ \A e \in table["out"] : e[1][3] = NoTag

\* A leg whose BYE was accepted is not in the table any more.
Gone ==
  \A i \in Inv : \A s \in Seqs("in") :
    reply["in"][i][s] = "200" => callID[i] # None /\ Found("in", i) = {}

\* The remote number of an A leg is that of its INVITE or of a request that
\* was handled.
Raised ==
  \A i \in Inv : callID[i] # None =>
    LET n == dlg["in"][i].remoteSeq
    IN n = 1 \/ (n \in Seqs("in") /\ reply["in"][i][n] # "none")

\* No request of a callee finds its dialog: its BYEs are all answered with 481.
CalleeNotFound ==
  /\ run["out"] = Idle
  /\ \A i \in Inv : \A s \in Seqs("out") : reply["out"][i][s] \in {"none", "481", "501"}

\* The inductive invariant.
IInv ==
  Shapes /\ Legs /\ Tables /\ Gone /\ Raised /\ CalleeNotFound /\ ByeOnce /\ OvertakenOnly

\* The variables that the invariant speaks of.
core == <<callID, dlg, table, reply, run>>

-----------------------------------------------------------------------------
(* Dialogs.                                                                 *)

\* A request within a dialog raises its remote number and changes nothing else.
LEMMA UpdateFromRequest ==
  ASSUME NEW d \in DialogType(Call, Tag, Host), NEW s \in Nat
  PROVE  /\ updateFromRequest(d, s) \in DialogType(Call, Tag, Host)
         /\ ID(updateFromRequest(d, s)) = ID(d)
         /\ updateFromRequest(d, s).remoteSeq = IF s > d.remoteSeq THEN s ELSE d.remoteSeq
  BY Zenon DEF updateFromRequest, DialogType, ID

\* Terminate changes the state of a dialog only.
LEMMA TerminateDialog ==
  ASSUME NEW d \in DialogType(Call, Tag, Host)
  PROVE  /\ Terminate(d) \in DialogType(Call, Tag, Host)
         /\ ID(Terminate(d)) = ID(d)
         /\ Terminate(d).remoteSeq = d.remoteSeq
  BY Zenon DEF Terminate, SetState, DialogType, DialogState, ID

\* A new A leg.
LEMMA NewALegDialog ==
  ASSUME NEW i \in Inv, NEW c \in Call
  PROVE  /\ NewALeg(i, c) \in DialogType(Call, Tag, Host)
         /\ ID(NewALeg(i, c)) = <<c, i, "peer">>
         /\ NewALeg(i, c).remoteSeq = 1
  BY Zenon DEF NewALeg, NewServerDialog, DialogType, DialogState, ID, Tag, Host

-----------------------------------------------------------------------------

\* A request of the caller finds the A leg of its INVITE or nothing.
LEMMA FoundIn ==
  ASSUME IInv, NEW i \in Inv
  PROVE  /\ Found("in", i) \subseteq {i}
         /\ Found("in", i) # {} => callID[i] # None
  BY DEF IInv, Tables, Found, Get, LegKey

\* A request of the callee finds nothing.
LEMMA FoundOut == ASSUME IInv, NEW i \in Inv PROVE Found("out", i) = {}
  BY B2BUAAssumption DEF IInv, Tables, Found, Get, LegKey

\* One dialog is changed.
LEMMA DlgExcept ==
  ASSUME Shapes, NEW u \in Side, NEW i \in Inv, NEW d,
         dlg' = [dlg EXCEPT ![u][i] = d]
  PROVE  /\ dlg' = [v \in Side |-> [j \in Inv |-> dlg'[v][j]]]
         /\ dlg'[u][i] = d
         /\ \A j \in Inv \ {i} : dlg'[u][j] = dlg[u][j]
         /\ \A v \in Side \ {u} : dlg'[v] = dlg[v]
<1> DEFINE row == [dlg[u] EXCEPT ![i] = d]
<1>1. dlg[u] = [j \in Inv |-> dlg[u][j]]
  BY Zenon DEF Shapes
<1>2. /\ row = [j \in Inv |-> row[j]]
      /\ row[i] = d
      /\ \A j \in Inv \ {i} : row[j] = dlg[u][j]
  BY <1>1, Zenon
<1>3. dlg' = [dlg EXCEPT ![u] = row]
  OBVIOUS
<1> HIDE DEF row
<1>4. dlg'[u] = row /\ \A v \in Side \ {u} : dlg'[v] = dlg[v]
  BY <1>3, Zenon DEF Shapes
<1>5. dlg' = [v \in Side |-> [j \in Inv |-> dlg'[v][j]]]
  <2>1. \A v \in Side : dlg'[v] = [j \in Inv |-> dlg'[v][j]]
    <3>1. \A v \in Side : dlg[v] = [j \in Inv |-> dlg[v][j]]
      BY Zenon DEF Shapes
    <3> QED
      BY <1>2, <1>4, <3>1, Zenon
  <2>2. dlg' = [v \in Side |-> dlg'[v]]
    BY <1>3, Zenon DEF Shapes
  <2> QED
    BY <2>1, <2>2, Zenon
<1> QED
  BY <1>2, <1>4, <1>5, Zenon

\* One request is answered.
LEMMA ReplyExcept ==
  ASSUME Shapes, NEW u \in Side, NEW i \in Inv, NEW s \in Seqs(u), NEW code,
         reply' = [reply EXCEPT ![u][i][s] = code]
  PROVE  reply' = [v \in Side |-> [j \in Inv |-> [t \in Seqs(v) |-> reply'[v][j][t]]]]
<1> DEFINE row == [reply[u][i] EXCEPT ![s] = code]
           rows == [reply[u] EXCEPT ![i] = row]
<1>1. /\ reply[u] = [j \in Inv |-> [t \in Seqs(u) |-> reply[u][j][t]]]
      /\ \A j \in Inv : reply[u][j] = [t \in Seqs(u) |-> reply[u][j][t]]
  BY DEF Shapes
<1>2. row = [t \in Seqs(u) |-> row[t]]
  BY <1>1, Zenon
<1>3. rows = [j \in Inv |-> rows[j]] /\ rows[i] = row
      /\ \A j \in Inv \ {i} : rows[j] = reply[u][j]
  BY <1>1, Zenon
<1>4. reply' = [reply EXCEPT ![u] = rows]
  OBVIOUS
<1> HIDE DEF row, rows
<1>5. \A j \in Inv : rows[j] = [t \in Seqs(u) |-> rows[j][t]]
  BY <1>1, <1>2, <1>3, Zenon
<1>6. rows = [j \in Inv |-> [t \in Seqs(u) |-> rows[j][t]]]
  BY <1>3, <1>5, Zenon
<1>7. \A v \in Side : reply'[v] = [j \in Inv |-> [t \in Seqs(v) |-> reply'[v][j][t]]]
  <2> SUFFICES ASSUME NEW v \in Side
               PROVE  reply'[v] = [j \in Inv |-> [t \in Seqs(v) |-> reply'[v][j][t]]]
    OBVIOUS
  <2>1. reply[v] = [j \in Inv |-> [t \in Seqs(v) |-> reply[v][j][t]]]
    BY Zenon DEF Shapes
  <2>2. reply'[v] = IF v = u THEN rows ELSE reply[v]
    BY <1>4, Zenon DEF Shapes
  <2>3. CASE v = u
    BY <1>6, <2>2, <2>3
  <2>4. CASE v # u
    BY <2>1, <2>2, <2>4
  <2> QED
    BY <2>3, <2>4, Zenon
<1>8. reply' = [v \in Side |-> reply'[v]]
  BY <1>4, Zenon DEF Shapes
<1> QED
  BY <1>7, <1>8, Zenon

\* The answer to a request of the caller.
LEMMA ReplyGiven ==
  ASSUME Shapes, NEW i \in Inv, NEW s \in Seqs("in"), NEW code,
         reply' = [reply EXCEPT !["in"][i][s] = code]
  PROVE  /\ reply'["out"] = reply["out"]
         /\ reply'["in"][i][s] = code
         /\ \A j \in Inv : \A t \in Seqs("in") :
              (j # i \/ t # s) => reply'["in"][j][t] = reply["in"][j][t]
  BY DEF Shapes, Side

\* Initially there is no dialog.
LEMMA InitInv == Init => IInv
<1> SUFFICES ASSUME Init PROVE IInv
  OBVIOUS
<1> USE B2BUAAssumption DEF Init, Side
<1>1. Shapes
  BY Zenon DEF Shapes
<1>2. Legs /\ Tables /\ Raised
  BY Zenon DEF Legs, Tables, Raised
<1>3. Gone /\ CalleeNotFound /\ ByeOnce /\ OvertakenOnly
  BY Zenon DEF Gone, CalleeNotFound, ByeOnce, OvertakenOnly
<1> QED
  BY <1>1, <1>2, <1>3, Zenon DEF IInv

\* A step that leaves these variables alone keeps the invariant.
LEMMA Kept == ASSUME IInv, UNCHANGED core PROVE IInv'
<1>1. Shapes'
  BY ZenonT(30) DEF core, IInv, Shapes
<1>2. Legs'
  BY Zenon DEF core, IInv, Legs, LegKey
<1>3. Tables'
  BY Zenon DEF core, IInv, Tables, LegKey
<1>4. Gone' /\ Raised' /\ CalleeNotFound'
  BY Zenon DEF core, IInv, Gone, Raised, CalleeNotFound, Found, LegKey
<1>5. ByeOnce' /\ OvertakenOnly'
  BY Zenon DEF core, IInv, ByeOnce, OvertakenOnly
<1> QED
  BY <1>1, <1>2, <1>3, <1>4, <1>5, Zenon DEF IInv

\* So does one that changes B legs, takes entries out of the egress table or
\* moves the ingress goroutine on.
LEMMA EgressKept ==
  ASSUME IInv, UNCHANGED <<callID, reply>>,
         dlg' = [u \in Side |-> [i \in Inv |-> dlg'[u][i]]],
         dlg'["in"] = dlg["in"],
         table' = [u \in Side |-> table'[u]],
         table'["in"] = table["in"],
         table'["out"] \subseteq table["out"],
         run' = [u \in Side |-> run'[u]],
         run'["out"] = run["out"]
  PROVE  IInv'
<1>1. Shapes'
  BY ZenonT(30) DEF IInv, Shapes
<1>2. Legs'
  BY Zenon DEF IInv, Legs, LegKey
<1>3. Tables'
  BY Zenon DEF IInv, Tables, LegKey
<1>4. Gone' /\ Raised' /\ CalleeNotFound'
  BY ZenonT(30), ZenonT(30) DEF IInv, Gone, Raised, CalleeNotFound, Found, LegKey
<1>5. ByeOnce' /\ OvertakenOnly'
  BY ZenonT(30) DEF IInv, ByeOnce, OvertakenOnly
<1> QED
  BY <1>1, <1>2, <1>3, <1>4, <1>5, Zenon DEF IInv

\* The dialogs an INVITE makes: an A leg and, if it is passed on, a B leg.
LEMMA InviteDlg ==
  ASSUME Shapes, NEW i \in Inv, NEW c \in Call, NEW w,
         RefuseInvite(i, c, w) \/ BridgeInvite(i, c, w)
  PROVE  /\ dlg' = [u \in Side |-> [j \in Inv |-> dlg'[u][j]]]
         /\ dlg'["in"][i] = NewALeg(i, c)
         /\ \A j \in Inv \ {i} : dlg'["in"][j] = dlg["in"][j]
         /\ \A j \in Inv \ {i} : dlg'["out"][j] = dlg["out"][j]
         /\ \/ RefuseInvite(i, c, w) /\ dlg'["out"][i] = dlg["out"][i]
            \/ BridgeInvite(i, c, w) /\ dlg'["out"][i] = Invite(i)
<1>1. CASE RefuseInvite(i, c, w)
  <2>1. dlg' = [dlg EXCEPT !["in"][i] = NewALeg(i, c)]
    BY <1>1, Zenon DEF RefuseInvite
  <2>2. /\ dlg' = [u \in Side |-> [j \in Inv |-> dlg'[u][j]]]
        /\ dlg'["in"][i] = NewALeg(i, c)
        /\ \A j \in Inv \ {i} : dlg'["in"][j] = dlg["in"][j]
    BY <2>1, DlgExcept, ZenonT(30) DEF Side
  <2>3. dlg'["out"] = dlg["out"]
    BY <2>1, Zenon DEF Shapes, Side
  <2>4. \A j \in Inv : dlg'["out"][j] = dlg["out"][j]
    BY <2>3, Zenon
  <2> QED
    BY <1>1, <2>2, <2>4, Zenon
<1>2. CASE BridgeInvite(i, c, w)
  <2>1. dlg' = [dlg EXCEPT !["in"] = [dlg["in"] EXCEPT ![i] = NewALeg(i, c)],
                           !["out"] = [dlg["out"] EXCEPT ![i] = Invite(i)]]
    BY <1>2, Zenon DEF BridgeInvite, Shapes, Side
  <2>2. /\ dlg' = [u \in Side |-> dlg'[u]]
        /\ dlg'["in"] = [dlg["in"] EXCEPT ![i] = NewALeg(i, c)]
        /\ dlg'["out"] = [dlg["out"] EXCEPT ![i] = Invite(i)]
    BY <2>1, Zenon DEF Shapes, Side
  <2>3. \A u \in Side : dlg[u] = [j \in Inv |-> dlg[u][j]]
    BY Zenon DEF Shapes
  <2>4. \A u \in Side : dlg'[u] = [j \in Inv |-> dlg'[u][j]]
    BY <2>2, <2>3, Zenon DEF Side
  <2> QED
    BY <1>2, <2>2, <2>3, <2>4, ZenonT(30) DEF Side
<1> QED
  BY <1>1, <1>2, Zenon

\* handleInvite: a new A leg under a tag that no other has; what the egress
\* does at the same time is a new B leg, without the callee's tag.
LEMMA InviteInv ==
  ASSUME IInv, NEW i \in Inv, NEW c \in Call, NEW w,
         RefuseInvite(i, c, w) \/ BridgeInvite(i, c, w)
  PROVE  IInv'
<1> USE B2BUAAssumption
<1>1. /\ callID[i] = None
      /\ callID' = [callID EXCEPT ![i] = c]
      /\ UNCHANGED <<reply, run>>
  BY Zenon DEF RefuseInvite, BridgeInvite, RecvInvite
<1>2. c # None /\ callID'[i] = c /\ \A j \in Inv \ {i} : callID'[j] = callID[j]
  BY <1>1, Zenon DEF IInv, Shapes
<1>3. /\ dlg' = [u \in Side |-> [j \in Inv |-> dlg'[u][j]]]
      /\ dlg'["in"][i] = NewALeg(i, c)
      /\ \A j \in Inv \ {i} : dlg'["in"][j] = dlg["in"][j]
  BY InviteDlg, Zenon DEF IInv
<1>4. /\ table' = [u \in Side |-> table'[u]]
      /\ table'["in"] = Add(table["in"], NewALeg(i, c), i)
      /\ \/ table'["out"] = table["out"]
         \/ table'["out"] = Add(table["out"], Invite(i), i)
  BY Zenon DEF RefuseInvite, BridgeInvite, IInv, Shapes, Side
<1>5. Shapes'
  BY <1>1, <1>3, <1>4 DEF IInv, Shapes
<1>6. Legs'
  BY <1>2, <1>3, NewALegDialog DEF IInv, Legs, LegKey
<1>7. Tables'
  <2>1. \A e \in table'["in"] : e \in table["in"] \/ e = <<<<c, i, "peer">>, i>>
    BY <1>4, NewALegDialog, Zenon DEF Add
  <2>2. \A e \in table'["out"] : e \in table["out"] \/ e = <<<<i, i, NoTag>>, i>>
    BY <1>4, Zenon DEF Add, Invite, NewClientDialog, ID
  <2>3. \A j \in Inv : callID[j] # None => LegKey("in", j)' = LegKey("in", j) /\ callID'[j] # None
    BY <1>1, <1>2, Zenon DEF LegKey
  <2>4. LegKey("in", i)' = <<c, i, "peer">>
    BY <1>2, Zenon DEF LegKey
  <2> QED
    BY <1>2, <2>1, <2>2, <2>3, <2>4 DEF IInv, Tables
<1>8. Gone'
  <2>1. SUFFICES ASSUME NEW j \in Inv, NEW s \in Seqs("in"), reply["in"][j][s] = "200"
                 PROVE  callID'[j] # None /\ Found("in", j)' = {}
    BY <1>1, Zenon DEF Gone
  <2>2. j # i /\ callID'[j] = callID[j] /\ callID[j] # None /\ Found("in", j) = {}
    BY <1>1, <1>2, <2>1, Zenon DEF IInv, Gone
  <2>3. \A e \in table'["in"] : e \in table["in"] \/ e[1] = <<c, i, "peer">>
    BY <1>4, NewALegDialog DEF Add
  <2> QED
    BY <2>2, <2>3 DEF Found, Get, LegKey
<1>9. Raised'
  BY <1>1, <1>2, <1>3, NewALegDialog DEF IInv, Raised
<1>10. CalleeNotFound' /\ ByeOnce' /\ OvertakenOnly'
  BY <1>1 DEF IInv, CalleeNotFound, ByeOnce, OvertakenOnly
<1> QED
  BY <1>5, <1>6, <1>7, <1>8, <1>9, <1>10, Zenon DEF IInv

\* A request of the callee changes no dialog and is not accepted.
LEMMA CalleeInv ==
  ASSUME IInv, NEW i \in Inv, NEW s \in Seqs("out"), NEW code \in {"481", "501"},
         dlg' = [dlg EXCEPT !["out"] = Seen("out", i, s)],
         reply' = [reply EXCEPT !["out"][i][s] = code],
         UNCHANGED <<callID, table, run>>
  PROVE  IInv'
<1>1. /\ reply'["in"] = reply["in"]
      /\ \A j \in Inv : \A t \in Seqs("out") :
           reply'["out"][j][t] = IF j = i /\ t = s THEN code ELSE reply["out"][j][t]
  BY DEF IInv, Shapes, Side
<1>2. dlg'["in"] = dlg["in"] /\ dlg' = [u \in Side |-> [j \in Inv |-> dlg'[u][j]]]
  BY ZenonT(30), Zenon DEF IInv, Shapes, Side, Seen
<1>3. Shapes'
  <2>1. "out" \in Side
    BY Zenon DEF Side
  <2>2. reply' = [u \in Side |-> [j \in Inv |-> [t \in Seqs(u) |-> reply'[u][j][t]]]]
    BY <2>1, ReplyExcept, Zenon DEF IInv
  <2> QED
    BY <1>2, <2>2, Zenon DEF IInv, Shapes
<1>4. Legs' /\ Tables'
  BY <1>2, Zenon DEF IInv, Legs, Tables, LegKey
<1>5. Gone' /\ Raised'
  <2>1. Gone'
    BY <1>1, <1>2, ZenonT(30) DEF IInv, Gone, Found, LegKey
  <2>2. Raised'
    BY <1>1, <1>2, ZenonT(30) DEF IInv, Raised
  <2> QED
    BY <2>1, <2>2, Zenon
<1>6. CalleeNotFound'
  BY <1>1 DEF IInv, CalleeNotFound
<1>7. ByeOnce' /\ OvertakenOnly'
  <2>1. \A j \in Inv : \A t \in Seqs("out") : reply'["out"][j][t] \notin {"200", "500"}
    BY <1>6, Zenon DEF CalleeNotFound
  <2> QED
    BY <1>1, <2>1 DEF IInv, ByeOnce, OvertakenOnly, Side
<1> QED
  BY <1>3, <1>4, <1>5, <1>6, <1>7, Zenon DEF IInv

\* A request of the caller with number s, answered with code: findDialog raises
\* the remote number; a 200 needs the entry and removes it, a 500 needs a later
\* number.
LEMMA CallerInv ==
  ASSUME IInv, NEW i \in Inv, NEW s \in Seqs("in"), NEW code,
         code # "none",
         reply["in"][i][s] = "none",
         reply' = [reply EXCEPT !["in"][i][s] = code],
         dlg' = [u \in Side |-> [j \in Inv |-> dlg'[u][j]]],
         \A j \in Inv : j \notin Found("in", i) => dlg'["in"][j] = dlg["in"][j],
         i \in Found("in", i) =>
           /\ dlg'["in"][i] \in DialogType(Call, Tag, Host)
           /\ ID(dlg'["in"][i]) = ID(dlg["in"][i])
           /\ dlg'["in"][i].remoteSeq = updateFromRequest(dlg["in"][i], s).remoteSeq,
         table' = [u \in Side |-> table'[u]],
         table'["in"] \subseteq table["in"],
         table'["out"] = table["out"],
         code = "200" => i \in Found("in", i) /\ table'["in"] = Remove(table["in"], dlg["in"][i]),
         code = "500" => i \in Found("in", i) /\ s < updateFromRequest(dlg["in"][i], s).remoteSeq,
         run' = [u \in Side |-> run'[u]],
         run'["out"] = run["out"],
         UNCHANGED callID
  PROVE  IInv'
<1> USE B2BUAAssumption
<1>0. s \in Nat /\ s >= 2
  BY DEF Seqs, Side
<1>1. /\ reply'["out"] = reply["out"]
      /\ reply'["in"][i][s] = code
      /\ \A j \in Inv : \A t \in Seqs("in") :
           (j # i \/ t # s) => reply'["in"][j][t] = reply["in"][j][t]
  BY ReplyGiven, ZenonT(30) DEF IInv
<1>2. Found("in", i) \subseteq {i} /\ (Found("in", i) # {} => callID[i] # None)
  BY FoundIn, Zenon
<1>3. Shapes'
  <2>1. reply' = [u \in Side |-> [j \in Inv |-> [t \in Seqs(u) |-> reply'[u][j][t]]]]
    <3>1. "in" \in Side
      BY Zenon DEF Side
    <3> QED
      BY <3>1, ReplyExcept, Zenon DEF IInv
  <2> QED
    BY <2>1, Zenon DEF IInv, Shapes
<1>4. Legs'
  <2>1. ASSUME NEW j \in Inv, callID[j] # None
        PROVE  /\ dlg'["in"][j] \in DialogType(Call, Tag, Host)
               /\ ID(dlg'["in"][j]) = LegKey("in", j)
    BY <1>2, <2>1, Zenon DEF IInv, Legs
  <2> QED
    BY <2>1, Zenon DEF Legs, LegKey
<1>5. Tables'
  BY Zenon DEF IInv, Tables, LegKey
<1>6. \A j \in Inv : Found("in", j)' \subseteq Found("in", j)
  BY ZenonT(30) DEF Found, Get, LegKey
<1>7. Gone'
  <2>1. CASE code = "200"
    <3>1. Found("in", i)' = {}
      <4>1. ID(dlg["in"][i]) = LegKey("in", i)
        BY <1>2, <2>1, Zenon DEF IInv, Legs
      <4> QED
        BY <2>1, <4>1, ZenonT(30) DEF Found, Get, LegKey, Remove
    <3> QED
      BY <1>1, <1>2, <1>6, <2>1, <3>1 DEF IInv, Gone
  <2>2. CASE code # "200"
    BY <1>1, <1>6, <2>2 DEF IInv, Gone
  <2> QED
    BY <2>1, <2>2, Zenon
<1>8. ASSUME callID[i] # None
      PROVE  LET d == dlg["in"][i] IN
             /\ d.remoteSeq \in Nat
             /\ updateFromRequest(d, s).remoteSeq =
                  IF s > d.remoteSeq THEN s ELSE d.remoteSeq
             /\ d.remoteSeq = 1 \/ (d.remoteSeq \in Seqs("in")
                                    /\ reply["in"][i][d.remoteSeq] # "none")
  BY <1>0, <1>8, UpdateFromRequest, ZenonT(30) DEF IInv, Legs, Raised, DialogType
<1>9. Raised'
  <2>1. SUFFICES ASSUME NEW j \in Inv, callID[j] # None
                 PROVE  \/ dlg'["in"][j].remoteSeq = 1
                        \/ /\ dlg'["in"][j].remoteSeq \in Seqs("in")
                           /\ reply'["in"][j][dlg'["in"][j].remoteSeq] # "none"
    BY Zenon DEF Raised
  <2>2. CASE j \in Found("in", i)
    BY <1>0, <1>1, <1>2, <1>8, <2>1, <2>2
  <2>3. CASE j \notin Found("in", i)
    BY <1>1, <2>1, <2>3 DEF IInv, Raised
  <2> QED
    BY <2>2, <2>3, Zenon
<1>10. CalleeNotFound'
  BY <1>1, Zenon DEF IInv, CalleeNotFound
<1>11. ByeOnce'
  <2>1. code = "200" => \A t \in Seqs("in") : reply["in"][i][t] # "200"
    BY Zenon DEF IInv, Gone
  <2> QED
    BY <1>1, <2>1 DEF IInv, ByeOnce, Side
<1>12. OvertakenOnly'
  <2>1. code = "500" => \E t \in Seqs("in") : t > s /\ reply["in"][i][t] # "none"
    BY <1>0, <1>2, <1>8
  <2>2. \A j \in Inv : \A t \in Seqs("in") :
          reply["in"][j][t] # "none" => reply'["in"][j][t] # "none"
    BY <1>1, ZenonT(30)
  <2> QED
    BY <1>1, <2>1, <2>2 DEF IInv, OvertakenOnly, Side
<1> QED
  BY <1>3, <1>4, <1>5, <1>7, <1>9, <1>10, <1>11, <1>12, Zenon DEF IInv

\* A request that is not a BYE.
LEMMA RecvInfoInv ==
  ASSUME IInv, NEW u \in Side, NEW i \in Inv, NEW s \in Seqs(u), RecvInfo(u, i, s)
  PROVE  IInv'
<1>1. CASE u = "out"
  BY <1>1, CalleeInv, Zenon DEF RecvInfo
<1>2. CASE u = "in"
  <2> USE <1>2 DEF RecvInfo
  <2>0. s \in Nat
    BY B2BUAAssumption DEF Seqs, Side
  <2>1. /\ dlg' = [v \in Side |-> [j \in Inv |-> dlg'[v][j]]]
        /\ \A j \in Inv : dlg'["in"][j] = Seen("in", i, s)[j]
    BY ZenonT(30), Zenon DEF IInv, Shapes, Side, Seen
  <2>2. \A j \in Inv : j \notin Found("in", i) => dlg'["in"][j] = dlg["in"][j]
    BY <2>1, Zenon DEF Seen
  <2>3. ASSUME i \in Found("in", i)
        PROVE  /\ dlg'["in"][i] \in DialogType(Call, Tag, Host)
               /\ ID(dlg'["in"][i]) = ID(dlg["in"][i])
               /\ dlg'["in"][i].remoteSeq = updateFromRequest(dlg["in"][i], s).remoteSeq
    <3>1. dlg'["in"][i] = updateFromRequest(dlg["in"][i], s)
      BY <2>1, <2>3, Zenon DEF Seen
    <3>2. dlg["in"][i] \in DialogType(Call, Tag, Host)
      BY <2>3, FoundIn, Zenon DEF IInv, Legs
    <3> QED
      BY <2>0, <3>1, <3>2, UpdateFromRequest, ZenonT(30)
  <2>4. /\ table' = [v \in Side |-> table'[v]]
        /\ table'["in"] \subseteq table["in"] /\ table'["out"] = table["out"]
        /\ run' = [v \in Side |-> run'[v]] /\ run'["out"] = run["out"]
    BY Zenon DEF IInv, Shapes
  <2>5. s \in Seqs("in") /\ reply["in"][i][s] = "none" /\ UNCHANGED callID
    OBVIOUS
  <2> DEFINE code == "501"
  <2>6. /\ code # "none" /\ code # "200" /\ code # "500"
        /\ reply' = [reply EXCEPT !["in"][i][s] = code]
    OBVIOUS
  <2> HIDE DEF code, RecvInfo
  <2> QED
    BY <2>1, <2>2, <2>3, <2>4, <2>5, <2>6, CallerInv, Zenon
<1> QED
  BY <1>1, <1>2, Zenon DEF Side

\* handleBye.
LEMMA RecvByeInv ==
  ASSUME IInv, NEW u \in Side, NEW i \in Inv, NEW s \in Seqs(u), NEW src \in Host,
         RecvBye(u, i, s, src)
  PROVE  IInv'
<1> DEFINE code == ByeCode(u, i, s, src)
<1>1. CASE u = "out"
  <2>1. code = "481"
    BY <1>1, FoundOut, Zenon DEF ByeCode
  <2> QED
    BY <1>1, <2>1, CalleeInv, Zenon DEF RecvBye
<1>2. CASE u = "in"
  <2> USE <1>2
  <2>0. s \in Nat
    BY B2BUAAssumption DEF Seqs, Side
  <2>1. Found("in", i) \subseteq {i}
    BY FoundIn, Zenon
  <2>2. /\ code \in {"200", "403", "481", "500"}
        /\ code \in {"200", "500"} => i \in Found("in", i)
        /\ code = "500" => s < updateFromRequest(dlg["in"][i], s).remoteSeq
    BY <2>1, Zenon DEF ByeCode, Overtaken, Seen
  <2>3. ASSUME i \in Found("in", i)
        PROVE  dlg["in"][i] \in DialogType(Call, Tag, Host)
    BY <2>3, FoundIn, Zenon DEF IInv, Legs
  <2>4. /\ reply["in"][i][s] = "none"
        /\ reply' = [reply EXCEPT !["in"][i][s] = code]
        /\ UNCHANGED callID
    BY Zenon DEF RecvBye
  <2>5. CASE code = "200"
    <3>1. /\ dlg' = [dlg EXCEPT !["in"] = [Seen("in", i, s) EXCEPT ![i] = Terminate(@)]]
          /\ table' = [table EXCEPT !["in"] = Remove(@, dlg["in"][i])]
          /\ run' = [run EXCEPT !["in"] = [at |-> "bye", inv |-> i, attempt |-> 0]]
      BY <2>1, <2>5, Zenon DEF RecvBye
    <3>2. /\ dlg' = [v \in Side |-> [j \in Inv |-> dlg'[v][j]]]
          /\ \A j \in Inv \ {i} : dlg'["in"][j] = Seen("in", i, s)[j]
          /\ dlg'["in"][i] = Terminate(Seen("in", i, s)[i])
      BY <3>1, ZenonT(30) DEF IInv, Shapes, Side, Seen
    <3>3. \A j \in Inv : j \notin Found("in", i) => dlg'["in"][j] = dlg["in"][j]
      BY <2>2, <2>5, <3>2, Zenon DEF Seen
    <3>4. dlg'["in"][i] = Terminate(updateFromRequest(dlg["in"][i], s))
      BY <2>2, <2>5, <3>2, Zenon DEF Seen
    <3>5. /\ dlg'["in"][i] \in DialogType(Call, Tag, Host)
          /\ ID(dlg'["in"][i]) = ID(dlg["in"][i])
          /\ dlg'["in"][i].remoteSeq = updateFromRequest(dlg["in"][i], s).remoteSeq
      BY <2>0, <2>2, <2>3, <2>5, <3>4, UpdateFromRequest, TerminateDialog
    <3>6. /\ table' = [v \in Side |-> table'[v]]
          /\ table'["in"] = Remove(table["in"], dlg["in"][i])
          /\ table'["out"] = table["out"]
          /\ run' = [v \in Side |-> run'[v]]
          /\ run'["out"] = run["out"]
      BY <3>1, Zenon DEF IInv, Shapes, Side
    <3>7. table'["in"] \subseteq table["in"]
      BY <3>6, Zenon DEF Remove
    <3> HIDE DEF code
    <3> QED
      BY <2>2, <2>4, <2>5, <3>2, <3>3, <3>5, <3>6, <3>7, CallerInv, Zenon
  <2>6. CASE code # "200"
    <3>1. dlg' = [dlg EXCEPT !["in"] = Seen("in", i, s)] /\ UNCHANGED <<table, run>>
      BY <2>6, Zenon DEF RecvBye
    <3>2. /\ dlg' = [v \in Side |-> [j \in Inv |-> dlg'[v][j]]]
          /\ \A j \in Inv : dlg'["in"][j] = Seen("in", i, s)[j]
      BY <3>1, Zenon DEF IInv, Shapes, Side, Seen
    <3>3. \A j \in Inv : j \notin Found("in", i) => dlg'["in"][j] = dlg["in"][j]
      BY <3>2, Zenon DEF Seen
    <3>4. ASSUME i \in Found("in", i)
          PROVE  /\ dlg'["in"][i] \in DialogType(Call, Tag, Host)
                 /\ ID(dlg'["in"][i]) = ID(dlg["in"][i])
                 /\ dlg'["in"][i].remoteSeq = updateFromRequest(dlg["in"][i], s).remoteSeq
      <4>1. dlg'["in"][i] = updateFromRequest(dlg["in"][i], s)
        BY <3>2, <3>4, Zenon DEF Seen
      <4> QED
        BY <2>0, <2>3, <3>4, <4>1, UpdateFromRequest, Zenon
    <3>5. /\ table' = [v \in Side |-> table'[v]]
          /\ table'["in"] \subseteq table["in"] /\ table'["out"] = table["out"]
          /\ run' = [v \in Side |-> run'[v]] /\ run'["out"] = run["out"]
      BY <3>1, Zenon DEF IInv, Shapes
    <3> HIDE DEF code
    <3> QED
      BY <2>2, <2>4, <2>6, <3>2, <3>3, <3>4, <3>5, CallerInv, Zenon
  <2> QED
    BY <2>5, <2>6, Zenon
<1> QED
  BY <1>1, <1>2, Zenon DEF Side

\* pump changes B legs only.
LEMMA PumpInv ==
  ASSUME IInv, NEW i \in Inv, NEW r \in Response, PumpResponse(i, r)
  PROVE  IInv'
<1>1. /\ UNCHANGED <<callID, reply, run>>
      /\ dlg' = [u \in Side |-> [j \in Inv |-> dlg'[u][j]]]
      /\ dlg'["in"] = dlg["in"]
  <2>1. \E d : dlg' = [dlg EXCEPT !["out"][i] = d]
    BY Zenon DEF PumpResponse
  <2> QED
    BY <2>1, DlgExcept, Zenon DEF PumpResponse, IInv, Side
<1>2. /\ table' = [u \in Side |-> table'[u]]
      /\ table'["in"] = table["in"]
      /\ table'["out"] \subseteq table["out"]
  BY DEF PumpResponse, IInv, Shapes, Side, Remove
<1> QED
  BY <1>1, <1>2, EgressKept, Zenon DEF IInv, Shapes

\* handleLegBye and Hangup run on the ingress goroutine only, and so touch only
\* B legs.
LEMMA RunStepInv == ASSUME IInv, NEW u \in Side, RunStep(u) PROVE IInv'
<1>1. u = "in"
  BY DEF RunStep, LegBye, StopRelay, HangupSend, HangupWait, IInv, CalleeNotFound, Idle, Side
<1>2. /\ UNCHANGED <<callID, reply, table>>
      /\ dlg' = [v \in Side |-> [j \in Inv |-> dlg'[v][j]]]
      /\ dlg'["in"] = dlg["in"]
  <2>1. CASE LegBye(u) \/ StopRelay(u)
    <3>1. UNCHANGED <<callID, reply, table, dlg>>
      BY <2>1, Zenon DEF LegBye, StopRelay
    <3> QED
      BY <3>1, Zenon DEF IInv, Shapes
  <2>2. CASE HangupSend(u)
    BY <1>1, <2>2 DEF HangupSend, IInv, Shapes, Side, Peer
  <2>3. CASE HangupWait(u)
    BY <1>1, <2>3 DEF HangupWait, IInv, Shapes, Side, Peer
  <2> QED
    BY <2>1, <2>2, <2>3, Zenon DEF RunStep
<1>3. run' = [v \in Side |-> run'[v]] /\ run'["out"] = run["out"]
  BY <1>1, Zenon DEF RunStep, LegBye, StopRelay, HangupSend, HangupWait, IInv, Shapes, Side
<1> QED
  BY <1>2, <1>3, EgressKept, Zenon DEF IInv, Shapes

\* The invariant holds in every reachable state.
THEOREM Invariance == Spec => []IInv
<1>1. ASSUME IInv, [Next]_vars PROVE IInv'
  <2>1. ASSUME NEW i \in Inv, NEW c \in Call, NEW w \in Inv \cup {None},
               RefuseInvite(i, c, w) \/ BridgeInvite(i, c, w)
        PROVE IInv'
    BY <1>1, <2>1, InviteInv, Zenon
  <2>2. ASSUME NEW i \in Inv, PumpError(i) \/ Goroutine(i) PROVE IInv'
    BY <1>1, <2>2, Kept, Zenon DEF PumpError, Goroutine, WaitFailed, WaitTimeout, WaitAnswered,
       Answer, StartRelay, InsertSession, core
  <2>3. ASSUME NEW i \in Inv, NEW r \in Response, PumpResponse(i, r) PROVE IInv'
    BY <1>1, <2>3, PumpInv, Zenon
  <2>4. ASSUME NEW u \in Side, NEW i \in Inv, NEW s \in Seqs(u), RecvInfo(u, i, s)
        PROVE IInv'
    BY <1>1, <2>4, RecvInfoInv, Zenon
  <2>5. ASSUME NEW u \in Side, NEW i \in Inv, NEW s \in Seqs(u), NEW src \in Host,
               RecvBye(u, i, s, src)
        PROVE IInv'
    BY <1>1, <2>5, RecvByeInv, Zenon
  <2>6. ASSUME NEW u \in Side, RunStep(u) PROVE IInv'
    BY <1>1, <2>6, RunStepInv, Zenon
  <2>7. CASE UNCHANGED vars
    BY <1>1, <2>7, Kept, Zenon DEF vars, core
  <2> QED
    BY <1>1, <2>1, <2>2, <2>3, <2>4, <2>5, <2>6, <2>7, Zenon DEF Next
<1> QED
  BY InitInv, <1>1, PTL DEF Spec

\* One BYE at most is accepted on a leg.
THEOREM ByeOnceHolds == Spec => []ByeOnce
<1>1. IInv => ByeOnce
  BY Zenon DEF IInv
<1> QED
  BY Invariance, <1>1, PTL

\* A BYE is refused with 500 only if a later request was handled before it.
THEOREM OvertakenOnlyHolds == Spec => []OvertakenOnly
<1>1. IInv => OvertakenOnly
  BY Zenon DEF IInv
<1> QED
  BY Invariance, <1>1, PTL

\* handleBye of the egress accepts no BYE of a callee, whose dialog is stored
\* without the tag the BYE has, so handleLegBye never runs for a B leg.
THEOREM CalleeNotFoundHolds == Spec => []CalleeNotFound
<1>1. IInv => CalleeNotFound
  BY Zenon DEF IInv
<1> QED
  BY Invariance, <1>1, PTL

-----------------------------------------------------------------------------
(* Types, and the BYE that is passed on.                                    *)

\* A B leg: its INVITE has number 1.
BLeg == {d \in DialogType(Inv, Tag, Host) : d.localSeq >= 1}

Bridged(i) == dlg["out"][i] \in BLeg

\* handleBye has accepted the caller's BYE.
Ended(i) == callID[i] # None /\ dlg["in"][i].state = "terminated"

\* The types of the variables that Shapes and Legs leave open.
Types ==
  /\ within \in [Inv -> Inv \cup {None}]
  /\ pc \in [Inv -> {"none", "wait", "answer", "relay", "insert", "done"}]
  /\ table["out"] \subseteq DialogID(Inv, Tag) \X Inv
  /\ final \in [Inv -> {"none", "err", "fail", "200", "2xx"}]
  /\ pumping \subseteq Inv /\ acked \subseteq Inv /\ missed \subseteq Inv
  /\ answered \in [Inv -> {"none", "refused", "timeout", "200"}]
  /\ sessions \in [Call -> Inv \cup {None}]
  /\ stage \in [Inv -> {"new", "stored", "taken"}]

\* What the place of an INVITE's goroutine says about it.
Places ==
  \A i \in Inv :
    /\ callID[i] = None =>
         pc[i] = "none" /\ final[i] = "none" /\ dlg["in"][i] = None /\ dlg["out"][i] = None
    /\ dlg["out"][i] # None => Bridged(i)
    /\ pc[i] \in {"wait", "answer", "relay", "insert"} => Bridged(i)
    /\ pc[i] \in {"answer", "relay", "insert"} => i \notin pumping
    /\ pc[i] # "done" => stage[i] = "new"
    /\ i \in pumping => Bridged(i) /\ final[i] = "none" /\ callID[i] # None

\* A session is stored under the Call-ID of its INVITE, whose pump has ended;
\* only another INVITE of the Call-ID, or the caller's BYE, takes it out.
Stored ==
  /\ \A c \in Call : sessions[c] # None =>
       /\ callID[sessions[c]] = c
       /\ Bridged(sessions[c])
       /\ sessions[c] \notin pumping
       /\ stage[sessions[c]] = "stored"
  /\ \A i \in Inv : stage[i] = "stored" =>
       (callID[i] # None /\ sessions[callID[i]] = i) \/ SharedCall(i)

\* What the ingress goroutine is at when it is not idle.
Working ==
  LET r == run["in"]
      i == r.inv
  IN /\ r \in [at: {"idle", "bye", "stop", "hangup", "wait"}, inv: Inv \cup {None}, attempt: 0..3]
     /\ r.at = "idle" => r = Idle
     /\ r.at # "idle" => i \in Inv /\ Ended(i)
     /\ r.at \in {"stop", "hangup", "wait"} => Bridged(i) /\ i \notin pumping
     /\ r.at = "wait" => dlg["out"][i].localSeq > 1

\* The callee has been told, or has ended the call itself.
Told(i) ==
  /\ Bridged(i) /\ i \notin pumping
  /\ dlg["out"][i].state = "terminated" \/ dlg["out"][i].localSeq > 1

\* After the caller's BYE its dialog cannot be found; the goroutine is at work on
\* it, or the callee was told, with the two exceptions.
Hung ==
  \A i \in Inv :
    /\ Ended(i) => Found("in", i) = {}
    /\ Ended(i) => run["in"].inv = i \/ i \in missed \/ SharedCall(i) \/ Told(i)
    /\ stage[i] = "taken" => Ended(i) /\ ~(run["in"].at = "bye" /\ run["in"].inv = i)

JInv == Types /\ Places /\ Stored /\ Working /\ Hung

\* What a B leg becomes.
LEMMA BLegDialog ==
  ASSUME NEW d \in BLeg
  PROVE  /\ Terminate(d) \in BLeg
         /\ Terminate(d).state = "terminated"
         /\ Terminate(d).localSeq = d.localSeq
         /\ CreateRequest(d) \in BLeg
         /\ CreateRequest(d).localSeq > 1
         /\ Confirm(d) \in BLeg
         /\ Confirm(d).localSeq = d.localSeq
         /\ \A r \in Response : /\ updateFromResponse(d, r) \in BLeg
                               /\ updateFromResponse(d, r).localSeq = d.localSeq
<1> USE DEF BLeg, DialogType, DialogState
<1>1. /\ Terminate(d) \in BLeg
      /\ Terminate(d).state = "terminated"
      /\ Terminate(d).localSeq = d.localSeq
  BY Zenon DEF Terminate, SetState
<1>2. CreateRequest(d) \in BLeg /\ CreateRequest(d).localSeq > 1
  BY DEF CreateRequest
<1>3. Confirm(d) \in BLeg /\ Confirm(d).localSeq = d.localSeq
  BY Zenon DEF Confirm, SetState
<1>4. ASSUME NEW r \in Response
      PROVE  updateFromResponse(d, r) \in BLeg /\ updateFromResponse(d, r).localSeq = d.localSeq
  BY <1>4, ZenonT(30) DEF updateFromResponse, Response, Tag, Host
<1> QED
  BY <1>1, <1>2, <1>3, <1>4, Zenon

\* A new B leg.
LEMMA NewBLeg == ASSUME NEW i \in Inv PROVE Invite(i) \in BLeg
  BY DEF Invite, NewClientDialog, BLeg, DialogType, DialogState, Tag, Host

\* Initially there is no INVITE.
LEMMA InitJ == Init => JInv
<1> SUFFICES ASSUME Init PROVE JInv
  OBVIOUS
<1> USE B2BUAAssumption DEF Init, Side
<1>1. Types
  BY Zenon DEF Types
<1>2. Places /\ Stored
  BY Zenon DEF Places, Stored
<1>3. Working
  BY DEF Working, Idle
<1>4. Hung
  BY Zenon DEF Hung, Ended
<1> QED
  BY <1>1, <1>2, <1>3, <1>4, Zenon DEF JInv

\* An INVITE whose place in the table was taken stays so.
LEMMA SharedLasts ==
  ASSUME JInv, NEW i \in Inv, SharedCall(i),
         \A j \in Inv : callID[j] # None => callID'[j] = callID[j],
         \A j \in Inv : stage[j] # "new" => stage'[j] # "new"
  PROVE  SharedCall(i)'
<1>1. PICK j \in Inv \ {i} : callID[j] = callID[i] /\ stage[j] # "new"
  BY Zenon DEF SharedCall
<1>2. callID[j] # None
  BY <1>1, Zenon DEF JInv, Places
<1>3. callID'[j] = callID'[i] /\ stage'[j] # "new"
  BY <1>1, <1>2, Zenon
<1> QED
  BY <1>3, Zenon DEF SharedCall

\* An idle ingress goroutine is at nothing.
LEMMA IdleWorks == ASSUME run'["in"] = Idle PROVE Working'
  BY DEF Working, Idle

\* A step that leaves the dialogs, the ingress goroutine and the sessions alone
\* keeps what is known of a BYE.
LEMMA HungKept ==
  ASSUME JInv,
         UNCHANGED <<callID, dlg, table, run, stage, missed>>,
         pumping' \subseteq pumping
  PROVE  Hung'
<1>1. \A i \in Inv : Found("in", i)' = Found("in", i)
  BY Zenon DEF Found, LegKey
<1>2. \A i \in Inv : /\ Ended(i)' = Ended(i)
                     /\ SharedCall(i) => SharedCall(i)'
                     /\ Told(i) => Told(i)'
  BY Zenon DEF Ended, SharedCall, Told, Bridged
<1> QED
  BY <1>1, <1>2, Zenon DEF JInv, Hung

\* pump ends with an error.
LEMMA PumpErrorJ == ASSUME JInv, NEW i \in Inv, PumpError(i) PROVE JInv'
<1> USE DEF PumpError
<1>1. Types'
  BY Zenon DEF JInv, Types
<1>2. Places'
  BY ZenonT(30) DEF JInv, Types, Places, Bridged
<1>3. Stored'
  BY ZenonT(30) DEF JInv, Stored, Bridged, SharedCall
<1>4. Working'
  BY Zenon DEF JInv, Working, Bridged, Ended
<1>5. Hung'
  BY HungKept, Zenon
<1> QED
  BY <1>1, <1>2, <1>3, <1>4, <1>5, Zenon DEF JInv

\* The steps of the goroutine before it stores the session.
LEMMA WaitJ ==
  ASSUME JInv, NEW i \in Inv,
         WaitFailed(i) \/ WaitTimeout(i) \/ WaitAnswered(i) \/ Answer(i) \/ StartRelay(i)
  PROVE  JInv'
<1>1. /\ UNCHANGED <<callID, within, dlg, table, final, pumping, sessions, stage, run, missed>>
      /\ pc[i] \in {"wait", "answer", "relay"}
      /\ \E l \in {"answer", "relay", "insert", "done"} :
           /\ pc' = [pc EXCEPT ![i] = l]
           /\ l \in {"answer", "relay", "insert"} => pc[i] # "wait" \/ final[i] # "none"
      /\ acked' \subseteq acked \cup {i}
      /\ \/ UNCHANGED answered
         \/ \E code \in {"refused", "timeout", "200"} : answered' = [answered EXCEPT ![i] = code]
  BY Zenon DEF WaitFailed, WaitTimeout, WaitAnswered, Answer, StartRelay, Respond, Ack
<1>2. Types'
  BY <1>1 DEF JInv, Types
<1>3. Places'
  BY <1>1 DEF JInv, Types, Places, Bridged
<1>4. Stored'
  BY <1>1 DEF JInv, Stored, Bridged, SharedCall
<1>5. Working'
  BY <1>1, Zenon DEF JInv, Working, Bridged, Ended
<1>6. Hung'
  BY <1>1, HungKept, Zenon
<1> QED
  BY <1>2, <1>3, <1>4, <1>5, <1>6, Zenon DEF JInv

\* The session is stored in the place of any other of the Call-ID.
LEMMA InsertJ == ASSUME JInv, NEW i \in Inv, InsertSession(i), Shapes PROVE JInv'
<1> USE B2BUAAssumption
<1>1. /\ UNCHANGED <<callID, within, dlg, table, final, pumping, acked, answered, run, missed>>
      /\ pc[i] = "insert"
      /\ stage' = [stage EXCEPT ![i] = "stored"]
      /\ sessions' = [sessions EXCEPT ![callID[i]] = i]
      /\ pc' = [pc EXCEPT ![i] = "done"]
  BY Zenon DEF InsertSession
<1>2. callID[i] \in Call /\ callID[i] # None /\ Bridged(i) /\ i \notin pumping /\ stage[i] = "new"
  BY <1>1, Zenon DEF JInv, Places, Shapes
<1>3. /\ stage'[i] = "stored" /\ \A j \in Inv \ {i} : stage'[j] = stage[j]
      /\ sessions'[callID[i]] = i
      /\ \A c \in Call \ {callID[i]} : sessions'[c] = sessions[c]
  BY <1>1, <1>2, ZenonT(30) DEF JInv, Types
<1>4. Types'
  BY <1>1, <1>2, Zenon DEF JInv, Types
<1>5. Places'
  BY <1>1, <1>3 DEF JInv, Types, Places, Bridged
<1>6. \A j \in Inv : SharedCall(j) => SharedCall(j)'
  BY <1>1, <1>3, SharedLasts, Zenon
<1>7. Stored'
  <2>1. ASSUME NEW c \in Call, sessions'[c] # None
        PROVE  /\ callID[sessions'[c]] = c
               /\ Bridged(sessions'[c])
               /\ sessions'[c] \notin pumping
               /\ stage'[sessions'[c]] = "stored"
    <3>1. CASE c = callID[i]
      BY <1>2, <1>3, <3>1, Zenon
    <3>2. CASE c # callID[i]
      BY <1>1, <1>2, <1>3, <2>1, <3>2 DEF JInv, Stored, Types
    <3> QED
      BY <3>1, <3>2, Zenon
  <2>2. ASSUME NEW j \in Inv, stage'[j] = "stored"
        PROVE  (callID[j] # None /\ sessions'[callID[j]] = j) \/ SharedCall(j)'
    <3>1. CASE j = i
      BY <1>2, <1>3, <3>1, Zenon
    <3>2. CASE j # i /\ callID[j] = callID[i]
      BY <1>1, <1>3, <3>2, Zenon DEF SharedCall
    <3>3. CASE j # i /\ callID[j] # callID[i]
      BY <1>2, <1>3, <1>6, <2>2, <3>3 DEF JInv, Stored, Shapes
    <3> QED
      BY <3>1, <3>2, <3>3, Zenon
  <2> QED
    BY <1>1, <2>1, <2>2, ZenonT(30) DEF Stored, Bridged
<1>8. Working'
  BY <1>1, Zenon DEF JInv, Working, Bridged, Ended
<1>9. Hung'
  <2>1. \A j \in Inv : /\ Found("in", j)' = Found("in", j)
                       /\ Ended(j)' = Ended(j)
                       /\ Told(j) => Told(j)'
    BY <1>1, Zenon DEF Found, LegKey, Ended, Told, Bridged
  <2> QED
    BY <1>1, <1>3, <1>6, <2>1, ZenonT(30) DEF JInv, Hung
<1> QED
  BY <1>4, <1>5, <1>7, <1>8, <1>9, Zenon DEF JInv

\* A B leg changes: what pump, CreateRequest and Terminate make of it.
LEMMA BLegChanges ==
  ASSUME IInv, JInv, NEW i \in Inv, Bridged(i), NEW d \in BLeg,
         dlg' = [dlg EXCEPT !["out"][i] = d],
         d.localSeq >= dlg["out"][i].localSeq,
         i \notin pumping /\ dlg["out"][i].state = "terminated" => d.state = "terminated",
         UNCHANGED callID
  PROVE  /\ dlg'["in"] = dlg["in"]
         /\ dlg'["out"][i] = d
         /\ \A j \in Inv : Bridged(j) => Bridged(j)'
         /\ \A j \in Inv \ {i} : dlg'["out"][j] = dlg["out"][j]
         /\ \A j \in Inv : Ended(j)' = Ended(j)
         /\ pumping' \subseteq pumping => \A j \in Inv : Told(j) => Told(j)'
<1>1. /\ dlg'["in"] = dlg["in"]
      /\ dlg'["out"][i] = d
      /\ \A j \in Inv \ {i} : dlg'["out"][j] = dlg["out"][j]
  BY DlgExcept, Zenon DEF IInv, Side
<1>2. \A j \in Inv : Bridged(j) => Bridged(j)'
  BY <1>1, Zenon DEF Bridged
<1>3. \A j \in Inv : Ended(j)' = Ended(j)
  BY <1>1, Zenon DEF Ended
<1>4. ASSUME pumping' \subseteq pumping, NEW j \in Inv, Told(j) PROVE Told(j)'
  BY <1>1, <1>2, <1>4 DEF Told, Bridged, BLeg, DialogType
<1> QED
  BY <1>1, <1>2, <1>3, <1>4, Zenon

\* pump takes a response: the B leg it changes is not one that is hung up on.
LEMMA PumpResponseJ ==
  ASSUME IInv, JInv, NEW i \in Inv, NEW r \in Response, PumpResponse(i, r)
  PROVE  JInv'
<1> DEFINE old == dlg["out"][i]
           d == updateFromResponse(old, r)
<1>1. /\ i \in pumping /\ Bridged(i)
      /\ UNCHANGED <<callID, within, pc, acked, answered, sessions, stage, run, missed>>
  BY Zenon DEF PumpResponse, JInv, Places
<1>2. /\ d \in BLeg /\ d.localSeq = old.localSeq
      /\ Terminate(d) \in BLeg /\ Terminate(d).localSeq = d.localSeq
      /\ Confirm(d) \in BLeg /\ Confirm(d).localSeq = d.localSeq
  BY <1>1, BLegDialog, Zenon DEF Bridged
<1>3. \E e \in {d, Terminate(d), Confirm(d)} : dlg' = [dlg EXCEPT !["out"][i] = e]
  BY Zenon DEF PumpResponse
<1>4. PICK e \in BLeg : /\ e.localSeq >= old.localSeq
                        /\ dlg' = [dlg EXCEPT !["out"][i] = e]
  <2>1. old.localSeq \in Nat
    BY <1>1, Zenon DEF Bridged, BLeg, DialogType
  <2>2. \A e \in {d, Terminate(d), Confirm(d)} : e \in BLeg /\ e.localSeq >= old.localSeq
    BY <1>2, <2>1
  <2> QED
    BY <1>3, <2>2, Zenon
<1>5. /\ pumping' \subseteq pumping
      /\ \/ UNCHANGED <<final, pumping>>
         \/ /\ \E code \in {"fail", "200", "2xx"} : final' = [final EXCEPT ![i] = code]
            /\ pumping' = pumping \ {i}
      /\ table'["out"] \subseteq table["out"] /\ table'["in"] = table["in"]
  BY DEF PumpResponse, Remove, IInv, Shapes, Side
<1>6. /\ dlg'["in"] = dlg["in"]
      /\ \A j \in Inv : Bridged(j) => Bridged(j)'
      /\ \A j \in Inv \ {i} : dlg'["out"][j] = dlg["out"][j]
      /\ \A j \in Inv : Ended(j)' = Ended(j)
      /\ \A j \in Inv : Told(j) => Told(j)'
  BY <1>1, <1>4, <1>5, BLegChanges, Zenon
<1> HIDE DEF old, d
<1>7. Types'
  BY <1>1, <1>5 DEF JInv, Types
<1>8. Places'
  BY <1>1, <1>5, <1>6 DEF JInv, Types, Places
<1>9. Stored'
  BY <1>1, <1>5, <1>6 DEF JInv, Types, Stored, SharedCall
<1>10. Working'
  BY <1>1, <1>5, <1>6, Zenon DEF JInv, Working
<1>11. Hung'
  <2>1. \A j \in Inv : Found("in", j)' = Found("in", j) /\ SharedCall(j)' = SharedCall(j)
    BY <1>1, <1>5, Zenon DEF Found, LegKey, SharedCall
  <2> QED
    BY <1>1, <1>6, <2>1, Zenon DEF JInv, Hung
<1> QED
  BY <1>7, <1>8, <1>9, <1>10, <1>11, Zenon DEF JInv

\* A request within a dialog that is not a BYE, or is refused.
LEMMA RequestJ ==
  ASSUME JInv,
         UNCHANGED <<callID, within, pc, final, pumping, acked, answered, sessions, stage,
                     missed, table, run>>,
         \A j \in Inv : dlg'["out"][j] = dlg["out"][j],
         \A j \in Inv : IF callID[j] = None THEN dlg'["in"][j] = dlg["in"][j]
                        ELSE dlg'["in"][j].state = dlg["in"][j].state
  PROVE  JInv'
<1>1. \A j \in Inv : /\ Bridged(j)' = Bridged(j)
                     /\ Ended(j)' = Ended(j)
                     /\ SharedCall(j)' = SharedCall(j)
                     /\ Told(j) => Told(j)'
                     /\ Found("in", j)' = Found("in", j)
  BY Zenon DEF Bridged, Ended, SharedCall, Told, Found, LegKey
<1>2. Types' /\ Places'
  BY <1>1, ZenonT(30) DEF JInv, Types, Places
<1>3. Stored'
  BY <1>1 DEF JInv, Types, Stored
<1>4. Working'
  BY <1>1, Zenon DEF JInv, Working
<1>5. Hung'
  BY <1>1, Zenon DEF JInv, Hung
<1> QED
  BY <1>2, <1>3, <1>4, <1>5, Zenon DEF JInv

\* What findDialog makes of the dialogs of a user agent.
LEMMA SeenDialogs ==
  ASSUME IInv, NEW u \in Side, NEW i \in Inv, NEW s \in Seqs(u),
         dlg' = [dlg EXCEPT ![u] = Seen(u, i, s)]
  PROVE  /\ \A j \in Inv : dlg'["out"][j] = dlg["out"][j]
         /\ \A j \in Inv : IF callID[j] = None THEN dlg'["in"][j] = dlg["in"][j]
                           ELSE dlg'["in"][j].state = dlg["in"][j].state
<1>1. CASE u = "out"
  <2>1. \A j \in Inv : Seen("out", i, s)[j] = dlg["out"][j]
    BY FoundOut, Zenon DEF Seen
  <2>2. dlg'["in"] = dlg["in"] /\ \A j \in Inv : dlg'["out"][j] = dlg["out"][j]
    BY <1>1, <2>1, Zenon DEF IInv, Shapes, Side
  <2> QED
    BY <2>2, Zenon
<1>2. CASE u = "in"
  <2>1. dlg'["out"] = dlg["out"] /\ \A j \in Inv : dlg'["in"][j] = Seen("in", i, s)[j]
    BY <1>2, Zenon DEF IInv, Shapes, Side
  <2>2. ASSUME NEW j \in Inv, callID[j] # None
        PROVE  updateFromRequest(dlg["in"][j], s).state = dlg["in"][j].state
    BY <2>2, Zenon DEF IInv, Legs, DialogType, updateFromRequest
  <2>3. \A j \in Inv : callID[j] = None => j \notin Found("in", i)
    BY FoundIn, Zenon
  <2> QED
    BY <2>1, <2>2, <2>3 DEF Seen
<1> QED
  BY <1>1, <1>2, Zenon DEF Side

\* A BYE of the caller is accepted: its session was not stopped before.
LEMMA ByeJ ==
  ASSUME IInv, IInv', JInv, NEW i \in Inv, NEW s \in Seqs("in"), NEW src \in Host,
         RecvBye("in", i, s, src), ByeCode("in", i, s, src) = "200"
  PROVE  JInv'
<1> USE B2BUAAssumption
<1>1. i \in Found("in", i) /\ callID[i] # None
  BY FoundIn DEF ByeCode
<1>2. /\ dlg' = [dlg EXCEPT !["in"] = [Seen("in", i, s) EXCEPT ![i] = Terminate(@)]]
      /\ table' = [table EXCEPT !["in"] = Remove(@, dlg["in"][i])]
      /\ run' = [run EXCEPT !["in"] = [at |-> "bye", inv |-> i, attempt |-> 0]]
      /\ reply' = [reply EXCEPT !["in"][i][s] = "200"]
      /\ run["in"] = Idle
      /\ UNCHANGED <<callID, within, pc, final, pumping, acked, answered, sessions, stage,
                     missed>>
  BY <1>1, FoundIn, ZenonT(30) DEF RecvBye
<1>3. /\ dlg'["out"] = dlg["out"]
      /\ \A j \in Inv \ {i} : dlg'["in"][j] = dlg["in"][j]
      /\ dlg'["in"][i] = Terminate(updateFromRequest(dlg["in"][i], s))
      /\ table'["out"] = table["out"] /\ table'["in"] \subseteq table["in"]
      /\ run'["in"] = [at |-> "bye", inv |-> i, attempt |-> 0]
      /\ reply'["in"][i][s] = "200"
  <2>1. dlg'["out"] = dlg["out"] /\ dlg'["in"] = [Seen("in", i, s) EXCEPT ![i] = Terminate(@)]
    BY <1>2, Zenon DEF IInv, Shapes, Side
  <2>2. /\ \A j \in Inv \ {i} : Seen("in", i, s)[j] = dlg["in"][j]
        /\ Seen("in", i, s)[i] = updateFromRequest(dlg["in"][i], s)
    BY <1>1, FoundIn, Zenon DEF Seen
  <2>3. /\ dlg'["in"][i] = Terminate(Seen("in", i, s)[i])
        /\ \A j \in Inv \ {i} : dlg'["in"][j] = Seen("in", i, s)[j]
    BY <2>1, Zenon DEF Seen
  <2>4. table'["out"] = table["out"] /\ table'["in"] \subseteq table["in"]
    BY <1>2, Zenon DEF IInv, Shapes, Side, Remove
  <2>5. run'["in"] = [at |-> "bye", inv |-> i, attempt |-> 0]
    BY <1>2, Zenon DEF IInv, Shapes, Side
  <2>6. ASSUME NEW code, reply' = [reply EXCEPT !["in"][i][s] = code]
        PROVE  reply'["in"][i][s] = code
    <3>1. /\ reply'["out"] = reply["out"]
          /\ reply'["in"][i][s] = code
          /\ \A j \in Inv : \A t \in Seqs("in") :
               (j # i \/ t # s) => reply'["in"][j][t] = reply["in"][j][t]
      BY <2>6, ReplyGiven, ZenonT(30) DEF IInv
    <3> QED
      BY <3>1, Zenon
  <2> QED
    BY <2>1, <2>2, <2>3, <2>4, <1>2, <2>5, <2>6, Zenon
<1>4. dlg'["in"][i].state = "terminated"
  <2>1. s \in Nat /\ dlg["in"][i] \in DialogType(Call, Tag, Host)
    BY <1>1 DEF Seqs, Side, IInv, Legs
  <2>2. updateFromRequest(dlg["in"][i], s) \in DialogType(Call, Tag, Host)
    BY <2>1, UpdateFromRequest, Zenon
  <2> QED
    BY <1>3, <2>2, Zenon DEF Terminate, SetState, DialogType
<1>5. \A j \in Inv : /\ Bridged(j)' = Bridged(j)
                     /\ SharedCall(j)' = SharedCall(j)
                     /\ Told(j) => Told(j)'
                     /\ Found("in", j)' \subseteq Found("in", j)
                     /\ j # i => Ended(j)' = Ended(j)
  BY <1>2, <1>3, ZenonT(30) DEF Bridged, Ended, SharedCall, Told, Found, Get, LegKey
<1>6. Ended(i)' /\ Found("in", i)' = {}
  BY <1>1, <1>2, <1>3, <1>4, Zenon DEF Ended, IInv, Gone
<1>7. Types' /\ Places'
  BY <1>1, <1>2, <1>3, <1>5 DEF JInv, Types, Places
<1>8. Stored'
  BY <1>2, <1>5 DEF JInv, Types, Stored
<1>9. Working'
  BY <1>3, <1>6 DEF Working
<1>10. Hung'
  <2>1. stage[i] # "taken"
    BY <1>1, Zenon DEF JInv, Hung
  <2>2. \A j \in Inv : run["in"].inv # j
    BY <1>2 DEF Idle
  <2> QED
    BY <1>2, <1>3, <1>5, <1>6, <2>1, <2>2 DEF JInv, Hung
<1> QED
  BY <1>7, <1>8, <1>9, <1>10, Zenon DEF JInv

\* handleLegBye and Hangup run on the ingress goroutine, for a call that ended.
LEMMA RunIsIn ==
  ASSUME IInv, JInv, NEW u \in Side, RunStep(u)
  PROVE  u = "in" /\ run["in"].inv \in Inv /\ Ended(run["in"].inv)
<1>1. u = "in"
  BY DEF RunStep, LegBye, StopRelay, HangupSend, HangupWait, IInv, CalleeNotFound, Idle, Side
<1>2. run["in"].at \in {"bye", "stop", "hangup", "wait"}
  BY <1>1, Zenon DEF RunStep, LegBye, StopRelay, HangupSend, HangupWait
<1> QED
  BY <1>1, <1>2, Zenon DEF JInv, Working

\* handleLegBye finds the session: it is taken out.
LEMMA LegByeTakesJ ==
  ASSUME IInv, JInv, LegBye("in"), LegSessions("in", run["in"].inv) # {}
  PROVE  JInv'
<1> USE B2BUAAssumption
<1>1. PICK i \in Inv : run["in"].inv = i /\ Ended(i) /\ run["in"].at = "bye"
  BY RunIsIn, Zenon DEF RunStep, LegBye, Side
<1>2. /\ UNCHANGED <<callID, within, pc, dlg, table, final, pumping, acked, answered, missed>>
      /\ sessions' = [c \in Call |-> IF c \in LegSessions("in", i) THEN None ELSE sessions[c]]
      /\ stage' = [stage EXCEPT ![i] = "taken"]
      /\ run' = [run EXCEPT !["in"].at = "stop"]
  BY <1>1, Zenon DEF LegBye
<1>3. Bridged(i) /\ i \notin pumping /\ stage[i] = "stored"
  BY <1>1 DEF LegSessions, JInv, Stored
<1>4. /\ stage'[i] = "taken" /\ \A j \in Inv \ {i} : stage'[j] = stage[j]
      /\ \A c \in Call : sessions'[c] = IF sessions[c] = i THEN None ELSE sessions[c]
      /\ run'["in"] = [run["in"] EXCEPT !.at = "stop"]
  <2>1. run'["in"] = [run["in"] EXCEPT !.at = "stop"]
    BY <1>2, Zenon DEF IInv, Shapes, Side
  <2> QED
    BY <1>1, <1>2, <2>1, ZenonT(30) DEF JInv, Types, LegSessions
<1>5. \A j \in Inv : /\ Bridged(j)' = Bridged(j)
                     /\ Ended(j)' = Ended(j)
                     /\ SharedCall(j) => SharedCall(j)'
                     /\ Told(j) => Told(j)'
                     /\ Found("in", j)' = Found("in", j)
  <2>1. \A j \in Inv : SharedCall(j) => SharedCall(j)'
    BY <1>2, <1>4, SharedLasts, Zenon
  <2> QED
    BY <1>2, <2>1, Zenon DEF Bridged, Ended, Told, Found, LegKey
<1>6. Types'
  BY <1>1, <1>2, Zenon DEF JInv, Types
<1>7. Places'
  BY <1>1, <1>2, <1>3, <1>4, <1>5 DEF JInv, Places, Types
<1>8. Stored'
  <2>1. \A c \in Call : sessions'[c] # None => sessions'[c] = sessions[c] /\ sessions[c] # i
    BY <1>4, Zenon
  <2>2. \A j \in Inv : stage'[j] = "stored" => j # i /\ stage[j] = "stored"
    BY <1>4, Zenon
  <2>3. \A c \in Call : sessions[c] \in Inv \cup {None}
    BY Zenon DEF JInv, Types
  <2>4. \A j \in Inv : callID[j] # None => callID[j] \in Call
    BY Zenon DEF IInv, Shapes
  <2>5. ASSUME NEW c \in Call, sessions'[c] # None
        PROVE  /\ callID'[sessions'[c]] = c
               /\ Bridged(sessions[c])'
               /\ sessions'[c] \notin pumping'
               /\ stage'[sessions'[c]] = "stored"
    <3>1. PICK j \in Inv : sessions'[c] = j /\ sessions[c] = j /\ j # i
      BY <2>1, <2>3, <2>5, Zenon
    <3>2. /\ callID[j] = c /\ Bridged(j) /\ j \notin pumping /\ stage[j] = "stored"
      BY <2>5, <3>1, Zenon DEF JInv, Stored
    <3>3. callID'[j] = c /\ Bridged(j)' /\ j \notin pumping' /\ stage'[j] = "stored"
      BY <1>2, <1>4, <1>5, <3>1, <3>2, Zenon
    <3> QED
      BY <1>2, <1>4, <3>1, <3>3, Zenon DEF Bridged
  <2>6. ASSUME NEW j \in Inv, stage'[j] = "stored"
        PROVE  (callID'[j] # None /\ sessions'[callID'[j]] = j) \/ SharedCall(j)'
    <3>1. (callID[j] # None /\ sessions[callID[j]] = j) \/ SharedCall(j)
      BY <2>2, <2>6, Zenon DEF JInv, Stored
    <3>2. j # i
      BY <2>2, <2>6, Zenon
    <3> QED
      BY <1>2, <1>4, <1>5, <2>4, <3>1, <3>2, Zenon
  <2> QED
    BY <2>5, <2>6, Zenon DEF Stored
<1>9. run'["in"].at = "stop" /\ run'["in"].inv = i /\ Working'
  <2>1. run["in"] \in [at: {"idle", "bye", "stop", "hangup", "wait"}, inv: Inv \cup {None}, attempt: 0..3]
    BY Zenon DEF JInv, Working
  <2>2. /\ run'["in"].at = "stop" /\ run'["in"].inv = i
        /\ run'["in"] \in [at: {"idle", "bye", "stop", "hangup", "wait"}, inv: Inv \cup {None}, attempt: 0..3]
    BY <1>1, <1>4, <2>1, Zenon
  <2>3. Ended(i)' /\ Bridged(i)' /\ i \notin pumping'
    BY <1>1, <1>2, <1>3, <1>5, Zenon
  <2> QED
    BY <2>2, <2>3, Zenon DEF Working
<1>10. Hung'
  <2>1. run["in"].inv = i
    BY <1>1, Zenon
  <2>2. \A j \in Inv : /\ Ended(j)' => Found("in", j)' = {}
                       /\ stage'[j] = "taken" => Ended(j)'
    BY <1>1, <1>4, <1>5, ZenonT(30) DEF JInv, Hung
  <2>3. ASSUME NEW j \in Inv, Ended(j)'
        PROVE  run'["in"].inv = j \/ j \in missed' \/ SharedCall(j)' \/ Told(j)'
    <3>1. CASE j = i
      BY <1>9, <3>1, Zenon
    <3>2. CASE j # i
      BY <1>2, <1>5, <2>1, <2>3, <3>2, Zenon DEF JInv, Hung
    <3> QED
      BY <3>1, <3>2, Zenon
  <2> QED
    BY <1>9, <2>2, <2>3, Zenon DEF Hung
<1> QED
  BY <1>6, <1>7, <1>8, <1>9, <1>10, Zenon DEF JInv

\* handleLegBye finds no session: the BYE came too early, or another INVITE has
\* the place.
LEMMA LegByeMissesJ ==
  ASSUME IInv, JInv, LegBye("in"), LegSessions("in", run["in"].inv) = {}
  PROVE  JInv'
<1> USE B2BUAAssumption
<1>1. PICK i \in Inv : run["in"].inv = i /\ Ended(i) /\ run["in"].at = "bye"
  BY RunIsIn, Zenon DEF RunStep, LegBye, Side
<1>2. /\ UNCHANGED <<callID, within, pc, dlg, table, final, pumping, acked, answered,
                     sessions, stage>>
      /\ missed' = IF stage[i] = "new" THEN missed \cup {i} ELSE missed
      /\ run' = [run EXCEPT !["in"] = Idle]
  BY <1>1, Zenon DEF LegBye
<1>3. run'["in"] = Idle
  BY <1>2, Zenon DEF IInv, Shapes, Side
<1>4. stage[i] # "new" => SharedCall(i)
  <2>1. stage[i] # "taken"
    BY <1>1, Zenon DEF JInv, Hung
  <2>2. callID[i] \in Call /\ sessions[callID[i]] # i
    BY <1>1, Zenon DEF LegSessions, Ended, IInv, Shapes
  <2> QED
    BY <1>1, <2>1, <2>2 DEF JInv, Stored, Types
<1>5. \A j \in Inv : /\ Bridged(j)' = Bridged(j)
                     /\ Ended(j)' = Ended(j)
                     /\ SharedCall(j)' = SharedCall(j)
                     /\ Told(j) => Told(j)'
                     /\ Found("in", j)' = Found("in", j)
  BY <1>2, Zenon DEF Bridged, Ended, Told, SharedCall, Found, LegKey
<1>6. Types' /\ Places' /\ Stored'
  BY <1>1, <1>2, <1>5 DEF JInv, Types, Places, Stored
<1>7. Working'
  BY <1>3, IdleWorks, Zenon
<1>8. Hung'
  <2>1. \A j \in Inv \ {i} : run["in"].inv # j
    BY <1>1, Zenon
  <2> QED
    BY <1>1, <1>2, <1>3, <1>4, <1>5, <2>1 DEF JInv, Hung, Idle
<1> QED
  BY <1>6, <1>7, <1>8, Zenon DEF JInv

\* Hangup moves on: the B leg it is at stays one, and the goroutine leaves it
\* only when the callee has been told.
LEMMA HangupJ ==
  ASSUME IInv, JInv, NEW i \in Inv, run["in"].inv = i,
         run["in"].at \in {"stop", "hangup", "wait"},
         NEW d \in BLeg,
         dlg'["in"] = dlg["in"], dlg'["out"][i] = d,
         \A j \in Inv \ {i} : dlg'["out"][j] = dlg["out"][j],
         UNCHANGED <<callID, within, pc, table, final, pumping, acked, answered, sessions,
                     stage, missed>>,
         \/ run'["in"] = Idle /\ (d.state = "terminated" \/ d.localSeq > 1)
         \/ /\ run'["in"] \in [at: {"hangup", "wait"}, inv: {i}, attempt: 0..3]
            /\ run'["in"].at = "wait" => d.localSeq > 1
  PROVE  JInv'
<1> USE B2BUAAssumption
<1>1. Ended(i) /\ Bridged(i) /\ i \notin pumping
  BY Zenon DEF JInv, Working
<1>2. \A j \in Inv : /\ Bridged(j) => Bridged(j)'
                     /\ j # i => dlg'["out"][j] = dlg["out"][j]
                     /\ Ended(j)' = Ended(j)
                     /\ SharedCall(j)' = SharedCall(j)
                     /\ Found("in", j)' = Found("in", j)
  BY Zenon DEF Bridged, Ended, SharedCall, Found, LegKey
<1>3. Types'
  BY Zenon DEF JInv, Types
<1>4. Places'
  <2>1. callID[i] # None
    BY <1>1, Zenon DEF Ended
  <2>2. ASSUME NEW j \in Inv
        PROVE  /\ callID'[j] = None =>
                    /\ pc'[j] = "none" /\ final'[j] = "none"
                    /\ dlg'["in"][j] = None /\ dlg'["out"][j] = None
               /\ dlg'["out"][j] # None => Bridged(j)'
               /\ pc'[j] \in {"wait", "answer", "relay", "insert"} => Bridged(j)'
               /\ pc'[j] \in {"answer", "relay", "insert"} => j \notin pumping'
               /\ pc'[j] # "done" => stage'[j] = "new"
               /\ j \in pumping' => Bridged(j)' /\ final'[j] = "none" /\ callID'[j] # None
    <3>1. CASE j = i
      BY <1>1, <1>2, <2>1, <3>1, Zenon DEF JInv, Places
    <3>2. CASE j # i
      BY <1>2, <3>2, ZenonT(30) DEF JInv, Places
    <3> QED
      BY <3>1, <3>2, Zenon
  <2> QED
    BY <2>2, Zenon DEF Places
<1>5. Stored'
  <2>1. ASSUME NEW c \in Call, sessions'[c] # None
        PROVE  /\ callID'[sessions'[c]] = c
               /\ Bridged(sessions[c])'
               /\ sessions'[c] \notin pumping'
               /\ stage'[sessions'[c]] = "stored"
    <3>1. PICK j \in Inv : sessions[c] = j
      BY <2>1, Zenon DEF JInv, Types
    <3>2. callID[j] = c /\ Bridged(j) /\ j \notin pumping /\ stage[j] = "stored"
      BY <2>1, <3>1, Zenon DEF JInv, Stored
    <3> QED
      BY <1>2, <3>1, <3>2, Zenon DEF Bridged
  <2>2. ASSUME NEW j \in Inv, stage'[j] = "stored"
        PROVE  (callID'[j] # None /\ sessions'[callID'[j]] = j) \/ SharedCall(j)'
    <3>1. (callID[j] # None /\ sessions[callID[j]] = j) \/ SharedCall(j)
      BY <2>2, Zenon DEF JInv, Stored
    <3> QED
      BY <1>2, <3>1, Zenon
  <2> QED
    BY <2>1, <2>2, Zenon DEF Stored
<1>6. Working'
  <2>1. CASE run'["in"] = Idle
    BY <2>1, IdleWorks, Zenon
  <2>2. CASE run'["in"] # Idle
    BY <1>1, <1>2, <2>2, Zenon DEF Working
  <2> QED
    BY <2>1, <2>2, Zenon
<1>7. Hung'
  <2>1. \A j \in Inv \ {i} : Told(j) => Told(j)'
    BY <1>2, Zenon DEF Told
  <2>2. run'["in"].inv = i \/ Told(i)'
    <3>1. CASE run'["in"] = Idle
      BY <1>1, <1>2, <3>1, Zenon DEF Told, Idle
    <3>2. CASE run'["in"] # Idle
      BY <3>2, Zenon
    <3> QED
      BY <3>1, <3>2, Zenon
  <2>3. run'["in"].at # "bye"
    BY DEF Idle
  <2> QED
    BY <1>2, <2>1, <2>2, <2>3, Zenon DEF JInv, Hung
<1> QED
  BY <1>3, <1>4, <1>5, <1>6, <1>7, Zenon DEF JInv

\* The relay is stopped; a B leg that is over is not hung up on.
LEMMA StopRelayJ == ASSUME IInv, JInv, StopRelay("in") PROVE JInv'
<1> USE B2BUAAssumption
<1>1. PICK i \in Inv : run["in"].inv = i
  BY RunIsIn, Zenon DEF RunStep, Side
<1> DEFINE next == [at |-> "hangup", inv |-> i, attempt |-> 1]
<1>2. /\ Bridged(i) /\ run["in"].at = "stop"
      /\ UNCHANGED <<callID, within, pc, dlg, table, final, pumping, acked, answered, sessions,
                     stage, missed>>
      /\ run' = [run EXCEPT !["in"] = IF dlg["out"][i].state = "terminated" THEN Idle ELSE next]
  BY <1>1, Zenon DEF StopRelay, Peer, JInv, Working
<1>3. /\ next \in [at: {"hangup", "wait"}, inv: {i}, attempt: 0..3]
      /\ next.at # "wait"
  OBVIOUS
<1> HIDE DEF next
<1>4. \/ run'["in"] = Idle /\ dlg["out"][i].state = "terminated"
      \/ run'["in"] = next
  BY <1>2, Zenon DEF IInv, Shapes, Side
<1>5. dlg["out"][i] \in BLeg
  BY <1>2, Zenon DEF Bridged
<1> QED
  BY <1>1, <1>2, <1>3, <1>4, <1>5, HangupJ, Zenon

\* One attempt of Hangup.
LEMMA HangupSendJ == ASSUME IInv, JInv, HangupSend("in") PROVE JInv'
<1> USE B2BUAAssumption
<1> DEFINE i == run["in"].inv
           old == dlg["out"][i]
<1>1. /\ i \in Inv /\ Bridged(i) /\ run["in"].at = "hangup"
      /\ UNCHANGED <<callID, within, pc, table, final, pumping, acked, answered, sessions,
                     stage, missed>>
      /\ run["in"] \in [at: {"idle", "bye", "stop", "hangup", "wait"}, inv: Inv \cup {None}, attempt: 0..3]
  BY Zenon DEF HangupSend, JInv, Working
<1>2. old \in BLeg /\ CreateRequest(old) \in BLeg /\ CreateRequest(old).localSeq > 1
  BY <1>1, BLegDialog, Zenon DEF Bridged
<1>3. CASE CanCreateRequest(old)
  <2>1. /\ dlg' = [dlg EXCEPT !["out"][i] = CreateRequest(old)]
        /\ \/ run' = [run EXCEPT !["in"].at = "wait"]
           \/ run' = [run EXCEPT !["in"] = Idle]
    BY <1>3, Zenon DEF HangupSend, Peer
  <2> HIDE DEF i, old
  <2>2. /\ dlg'["in"] = dlg["in"] /\ dlg'["out"][i] = CreateRequest(old)
        /\ \A j \in Inv \ {i} : dlg'["out"][j] = dlg["out"][j]
    BY <1>1, <2>1, DlgExcept, Zenon DEF IInv, Side
  <2>3. run'["in"] = Idle \/ run'["in"] = [run["in"] EXCEPT !.at = "wait"]
    BY <2>1, Zenon DEF IInv, Shapes, Side
  <2>4. run["in"].inv = i
    BY Zenon DEF i
  <2>5. run'["in"] = Idle \/ (/\ run'["in"] \in [at: {"hangup", "wait"}, inv: {i}, attempt: 0..3]
                              /\ run'["in"].at = "wait")
    BY <1>1, <2>3, <2>4, Zenon
  <2> DEFINE d == CreateRequest(old)
  <2>6. d \in BLeg /\ d.localSeq > 1 /\ dlg'["out"][i] = d
    BY <1>2, <2>2, Zenon
  <2> HIDE DEF d
  <2> QED
    BY <1>1, <2>2, <2>4, <2>5, <2>6, HangupJ, Zenon
<1>4. CASE ~CanCreateRequest(old)
  <2>1. UNCHANGED dlg /\ run' = [run EXCEPT !["in"] = Idle]
    BY <1>4, Zenon DEF HangupSend, Peer
  <2>2. old.state = "terminated"
    BY <1>4, Zenon DEF CanCreateRequest
  <2>3. run'["in"] = Idle
    BY <2>1, Zenon DEF IInv, Shapes, Side
  <2> QED
    BY <1>1, <1>2, <2>1, <2>2, <2>3, HangupJ, Zenon
<1> QED
  BY <1>3, <1>4, Zenon

\* The end of an attempt: the dialog ends, or there is another, or that was all.
LEMMA HangupWaitJ == ASSUME IInv, JInv, HangupWait("in") PROVE JInv'
<1> USE B2BUAAssumption
<1> DEFINE i == run["in"].inv
           old == dlg["out"][i]
<1>1. /\ i \in Inv /\ Bridged(i) /\ run["in"].at = "wait" /\ old.localSeq > 1
      /\ UNCHANGED <<callID, within, pc, table, final, pumping, acked, answered, sessions,
                     stage, missed>>
      /\ run["in"] \in [at: {"idle", "bye", "stop", "hangup", "wait"}, inv: Inv \cup {None}, attempt: 0..3]
  BY Zenon DEF HangupWait, JInv, Working
<1>2. old \in BLeg /\ Terminate(old) \in BLeg /\ Terminate(old).state = "terminated"
  BY <1>1, BLegDialog, Zenon DEF Bridged
<1>3. CASE dlg' = [dlg EXCEPT !["out"][i] = Terminate(@)] /\ run' = [run EXCEPT !["in"] = Idle]
  <2>1. dlg' = [dlg EXCEPT !["out"][i] = Terminate(old)]
    BY <1>3, Zenon
  <2> HIDE DEF i, old
  <2>2. /\ dlg'["in"] = dlg["in"] /\ dlg'["out"][i] = Terminate(old)
        /\ \A j \in Inv \ {i} : dlg'["out"][j] = dlg["out"][j]
    BY <1>1, <2>1, DlgExcept, Zenon DEF IInv, Side
  <2>3. run'["in"] = Idle
    BY <1>3, Zenon DEF IInv, Shapes, Side
  <2>4. run["in"].inv = i
    BY Zenon DEF i
  <2> DEFINE d == Terminate(old)
  <2>5. d \in BLeg /\ d.state = "terminated" /\ dlg'["out"][i] = d
    BY <1>2, <2>2, Zenon
  <2> HIDE DEF d
  <2> QED
    BY <1>1, <2>2, <2>3, <2>4, <2>5, HangupJ, Zenon
<1>4. CASE UNCHANGED dlg /\ run' = [run EXCEPT !["in"] = Idle]
  <2>1. run'["in"] = Idle
    BY <1>4, Zenon DEF IInv, Shapes, Side
  <2> QED
    BY <1>1, <1>2, <1>4, <2>1, HangupJ, Zenon
<1> DEFINE r == run["in"]
           next == [at |-> "hangup", inv |-> i, attempt |-> r.attempt + 1]
<1>5. CASE UNCHANGED dlg /\ run' = [run EXCEPT !["in"] = IF Retry(r.attempt) THEN next ELSE Idle]
  <2>1. run'["in"] = Idle \/ (Retry(r.attempt) /\ run'["in"] = next)
    <3> HIDE DEF r, next
    <3> QED
      BY <1>5, Zenon DEF IInv, Shapes, Side
  <2>2. run'["in"] = Idle \/ (/\ run'["in"] \in [at: {"hangup", "wait"}, inv: {i}, attempt: 0..3]
                              /\ run'["in"].at = "hangup")
    <3>1. ASSUME Retry(r.attempt) PROVE r.attempt + 1 \in 0..3
      BY <1>1, <3>1 DEF Retry
    <3> HIDE DEF r, i
    <3> QED
      BY <2>1, <3>1
  <2> HIDE DEF r, next
  <2> QED
    BY <1>1, <1>2, <1>5, <2>2, HangupJ, Zenon
<1> QED
  BY <1>3, <1>4, <1>5, Zenon DEF HangupWait, Peer

\* A new INVITE: nothing is known of it yet, and its tag is new.
LEMMA InviteJ ==
  ASSUME IInv, JInv, NEW i \in Inv, NEW c \in Call, NEW w \in Inv \cup {None},
         RefuseInvite(i, c, w) \/ BridgeInvite(i, c, w)
  PROVE  JInv'
<1> USE B2BUAAssumption
<1>1. /\ callID[i] = None /\ c # None
      /\ callID' = [callID EXCEPT ![i] = c]
      /\ within' = [within EXCEPT ![i] = w]
      /\ run["in"] = Idle
      /\ UNCHANGED <<final, acked, sessions, stage, run, missed>>
      /\ \/ /\ RefuseInvite(i, c, w)
            /\ pc' = [pc EXCEPT ![i] = "done"]
            /\ answered' = [answered EXCEPT ![i] = "refused"]
            /\ UNCHANGED pumping
         \/ /\ BridgeInvite(i, c, w)
            /\ pc' = [pc EXCEPT ![i] = "wait"]
            /\ pumping' = pumping \cup {i}
            /\ UNCHANGED answered
  BY Zenon DEF RefuseInvite, BridgeInvite, RecvInvite, Respond
<1>2. callID'[i] = c /\ \A j \in Inv \ {i} : callID'[j] = callID[j]
  BY <1>1, Zenon DEF IInv, Shapes
<1>3. /\ pc[i] = "none" /\ final[i] = "none" /\ stage[i] = "new" /\ i \notin pumping
      /\ dlg["out"][i] = None
  BY <1>1, Zenon DEF JInv, Places
<1>4. /\ dlg'["in"][i] = NewALeg(i, c)
      /\ \A j \in Inv \ {i} : dlg'["in"][j] = dlg["in"][j]
      /\ \A j \in Inv \ {i} : dlg'["out"][j] = dlg["out"][j]
      /\ \/ RefuseInvite(i, c, w) /\ dlg'["out"][i] = dlg["out"][i]
         \/ BridgeInvite(i, c, w) /\ dlg'["out"][i] = Invite(i)
  BY InviteDlg, Zenon DEF IInv
<1>5. /\ table'["in"] = Add(table["in"], NewALeg(i, c), i)
      /\ \/ table'["out"] = table["out"]
         \/ table'["out"] = Add(table["out"], Invite(i), i)
  BY Zenon DEF RefuseInvite, BridgeInvite, IInv, Shapes, Side
<1>6. \A j \in Inv \ {i} : /\ Bridged(j)' = Bridged(j)
                           /\ Ended(j)' = Ended(j)
                           /\ pumping' \cap {j} = pumping \cap {j}
                           /\ pc'[j] = pc[j]
  BY <1>1, <1>2, <1>4 DEF Bridged, Ended, JInv, Types
<1>7. \A j \in Inv : SharedCall(j) => SharedCall(j)'
  BY <1>1, <1>2, SharedLasts, Zenon
<1>8. ~Ended(i)'
  <2>1. NewALeg(i, c).state # "terminated"
    BY Zenon DEF NewALeg, NewServerDialog
  <2> QED
    BY <1>4, <2>1, Zenon DEF Ended
<1>9. \A j \in Inv \ {i} : Found("in", j)' = Found("in", j)
  <2>1. \A e : e[1] # <<c, i, "peer">> => (e \in table'["in"] <=> e \in table["in"])
    BY <1>5, NewALegDialog DEF Add
  <2> QED
    BY <1>2, <2>1 DEF Found, Get, LegKey
<1>10. Types'
  <2>1. table'["out"] \subseteq DialogID(Inv, Tag) \X Inv
    <3>1. \A e \in table'["out"] : e \in table["out"] \/ e = <<<<i, i, NoTag>>, i>>
      BY <1>5, Zenon DEF Add, Invite, NewClientDialog, ID
    <3>2. <<<<i, i, NoTag>>, i>> \in DialogID(Inv, Tag) \X Inv
      BY Zenon DEF DialogID, Tag
    <3> QED
      BY <3>1, <3>2, Zenon DEF JInv, Types
  <2> QED
    BY <1>1, <2>1 DEF JInv, Types
<1>11. Places'
  <2>1. ASSUME NEW j \in Inv \ {i}
        PROVE  /\ callID'[j] = None =>
                    /\ pc'[j] = "none" /\ final'[j] = "none"
                    /\ dlg'["in"][j] = None /\ dlg'["out"][j] = None
               /\ dlg'["out"][j] # None => Bridged(j)'
               /\ pc'[j] \in {"wait", "answer", "relay", "insert"} => Bridged(j)'
               /\ pc'[j] \in {"answer", "relay", "insert"} => j \notin pumping'
               /\ pc'[j] # "done" => stage'[j] = "new"
               /\ j \in pumping' => Bridged(j)' /\ final'[j] = "none" /\ callID'[j] # None
    BY <1>1, <1>2, <1>4, <1>6 DEF JInv, Places
  <2>2. Invite(i) \in BLeg
    BY NewBLeg, Zenon
  <2>3. /\ dlg'["out"][i] # None => Bridged(i)'
        /\ pc'[i] = "wait" \/ i \in pumping' => Bridged(i)'
        /\ pc'[i] \in {"wait", "done"}
    <3>1. pc[i] = "none" /\ pc \in [Inv -> {"none", "wait", "answer", "relay", "insert", "done"}]
      BY <1>3, Zenon DEF JInv, Types
    <3>2. CASE dlg'["out"][i] = Invite(i)
      BY <1>1, <2>2, <3>1, <3>2, Zenon DEF Bridged
    <3>3. CASE dlg'["out"][i] = None /\ RefuseInvite(i, c, w)
      <4>1. pc' = [pc EXCEPT ![i] = "done"] /\ pumping' = pumping
        BY <3>3, Zenon DEF RefuseInvite
      <4> QED
        BY <1>3, <3>1, <3>3, <4>1, Zenon
    <3> QED
      BY <1>3, <1>4, <3>2, <3>3, Zenon
  <2> QED
    BY <1>1, <1>2, <1>3, <2>1, <2>3, ZenonT(30) DEF Places
<1>12. Stored'
  <2>1. \A e \in Call : sessions[e] # None => sessions[e] \in Inv \ {i}
    BY <1>1 DEF JInv, Types, Stored
  <2>2. \A j \in Inv : stage[j] # "new" => j # i
    BY <1>3, Zenon
  <2>3. ASSUME NEW e \in Call, sessions[e] # None
        PROVE  /\ callID'[sessions[e]] = e
               /\ Bridged(sessions[e])'
               /\ sessions[e] \notin pumping'
               /\ stage[sessions[e]] = "stored"
    <3>1. PICK j \in Inv \ {i} : sessions[e] = j
      BY <2>1, <2>3, Zenon
    <3>2. callID[j] = e /\ Bridged(j) /\ j \notin pumping /\ stage[j] = "stored"
      BY <2>3, <3>1, Zenon DEF JInv, Stored
    <3>3. callID'[j] = e /\ Bridged(j)' /\ j \notin pumping'
      BY <1>2, <1>6, <3>2, Zenon
    <3> QED
      BY <1>1, <3>1, <3>2, <3>3, Zenon DEF Bridged
  <2>4. ASSUME NEW j \in Inv, stage[j] = "stored"
        PROVE  (callID'[j] # None /\ sessions[callID'[j]] = j) \/ SharedCall(j)'
    <3>1. (callID[j] # None /\ sessions[callID[j]] = j) \/ SharedCall(j)
      BY <2>4, Zenon DEF JInv, Stored
    <3>2. j # i
      BY <2>2, <2>4, Zenon
    <3> QED
      BY <1>2, <1>7, <3>1, <3>2, Zenon
  <2> QED
    BY <1>1, <2>3, <2>4, Zenon DEF Stored
<1>13. Working'
  BY <1>1, IdleWorks
<1>14. Hung'
  <2>1. \A j \in Inv \ {i} : Told(j) => Told(j)'
    BY <1>4, <1>6, Zenon DEF Told
  <2>2. stage'[i] # "taken"
    BY <1>1, <1>3, Zenon
  <2> QED
    BY <1>1, <1>6, <1>7, <1>8, <1>9, <2>1, <2>2, Zenon DEF JInv, Hung
<1> QED
  BY <1>10, <1>11, <1>12, <1>13, <1>14, ZenonT(30) DEF JInv

\* Every step keeps it.
LEMMA StepJ == ASSUME IInv, IInv', JInv, [Next]_vars PROVE JInv'
<1>1. ASSUME NEW i \in Inv, NEW c \in Call, NEW w \in Inv \cup {None},
             RefuseInvite(i, c, w) \/ BridgeInvite(i, c, w)
      PROVE JInv'
  BY <1>1, InviteJ, Zenon
<1>2. ASSUME NEW i \in Inv, PumpError(i) \/ Goroutine(i) PROVE JInv'
  BY <1>2, PumpErrorJ, WaitJ, InsertJ, Zenon DEF Goroutine, IInv
<1>3. ASSUME NEW i \in Inv, NEW r \in Response, PumpResponse(i, r) PROVE JInv'
  BY <1>3, PumpResponseJ, Zenon
<1>4. ASSUME NEW u \in Side, NEW i \in Inv, NEW s \in Seqs(u), RecvInfo(u, i, s)
      PROVE JInv'
  BY <1>4, SeenDialogs, RequestJ, Zenon DEF RecvInfo
<1>5. ASSUME NEW u \in Side, NEW i \in Inv, NEW s \in Seqs(u), NEW src \in Host,
             RecvBye(u, i, s, src)
      PROVE JInv'
  <2>1. CASE ByeCode(u, i, s, src) = "200"
    <3>1. u = "in"
      <4>1. u = "out" => Found(u, i) = {}
        BY FoundOut, Zenon
      <4> QED
        BY <2>1, <4>1, Zenon DEF ByeCode, Side
    <3> QED
      BY <1>5, <2>1, <3>1, ByeJ, Zenon
  <2>2. CASE ByeCode(u, i, s, src) # "200"
    <3>1. /\ dlg' = [dlg EXCEPT ![u] = Seen(u, i, s)]
          /\ UNCHANGED <<callID, within, pc, final, pumping, acked, answered, sessions, stage,
                         missed, table, run>>
      BY <1>5, <2>2, Zenon DEF RecvBye
    <3> QED
      BY <3>1, SeenDialogs, RequestJ, Zenon
  <2> QED
    BY <2>1, <2>2, Zenon
<1>6. ASSUME NEW u \in Side, RunStep(u) PROVE JInv'
  BY <1>6, RunIsIn, LegByeTakesJ, LegByeMissesJ, StopRelayJ, HangupSendJ, HangupWaitJ,
     Zenon DEF RunStep
<1>7. CASE UNCHANGED vars
  <2>1. UNCHANGED <<callID, within, pc, dlg, table, final, pumping, acked, answered, sessions,
                    stage, run, missed>>
    BY <1>7, Zenon DEF vars
  <2> QED
    BY <2>1, RequestJ, Zenon
<1> QED
  BY <1>1, <1>2, <1>3, <1>4, <1>5, <1>6, <1>7, Zenon DEF Next

\* Both invariants hold in every reachable state.
THEOREM CallInvariance == Spec => [](IInv /\ JInv)
<1>1. ASSUME IInv, JInv, IInv', [Next]_vars PROVE JInv'
  BY <1>1, StepJ, Zenon
<1> QED
  BY Invariance, InitJ, <1>1, PTL DEF Spec

\* The answers the ingress gives to requests within a dialog.
Codes ==
  \A i \in Inv : \A s \in Seqs("in") :
    reply["in"][i][s] \in {"none", "200", "403", "481", "500", "501"}

\* Every step gives one of them, or answers nothing.
LEMMA CodesStep == ASSUME IInv, Codes, [Next]_vars PROVE Codes'
<1>1. ASSUME NEW i \in Inv, NEW s \in Seqs("in"),
             NEW code \in {"200", "403", "481", "500", "501"},
             reply' = [reply EXCEPT !["in"][i][s] = code]
      PROVE  Codes'
  <2>1. /\ reply'["out"] = reply["out"]
        /\ reply'["in"][i][s] = code
        /\ \A j \in Inv : \A t \in Seqs("in") :
             (j # i \/ t # s) => reply'["in"][j][t] = reply["in"][j][t]
    BY <1>1, ReplyGiven, ZenonT(30) DEF IInv
  <2> QED
    BY <2>1, ZenonT(30) DEF Codes
<1>2. ASSUME NEW i \in Inv, NEW s \in Seqs("out"), NEW code,
             reply' = [reply EXCEPT !["out"][i][s] = code]
      PROVE  Codes'
  <2>1. reply'["in"] = reply["in"]
    BY <1>2, Zenon DEF IInv, Shapes, Side
  <2> QED
    BY <2>1, Zenon DEF Codes
<1>3. ASSUME NEW u \in Side, NEW i \in Inv, NEW s \in Seqs(u), RecvInfo(u, i, s)
      PROVE  Codes'
  <2>1. CASE u = "in"
    BY <1>1, <1>3, <2>1, Zenon DEF RecvInfo
  <2>2. CASE u = "out"
    BY <1>2, <1>3, <2>2, Zenon DEF RecvInfo
  <2> QED
    BY <2>1, <2>2, Zenon DEF Side
<1>4. ASSUME NEW u \in Side, NEW i \in Inv, NEW s \in Seqs(u), NEW src \in Host,
             RecvBye(u, i, s, src)
      PROVE  Codes'
  <2> DEFINE code == ByeCode(u, i, s, src)
  <2>1. code \in {"200", "403", "481", "500", "501"}
    BY Zenon DEF ByeCode
  <2>2. reply' = [reply EXCEPT ![u][i][s] = code]
    BY <1>4, Zenon DEF RecvBye
  <2> HIDE DEF code
  <2>3. CASE u = "in"
    BY <1>1, <2>1, <2>2, <2>3, Zenon
  <2>4. CASE u = "out"
    BY <1>2, <2>2, <2>4, Zenon
  <2> QED
    BY <2>3, <2>4, Zenon DEF Side
<1>5. CASE UNCHANGED reply
  BY <1>5, Zenon DEF Codes
<1> QED
  BY <1>3, <1>4, <1>5, ZenonT(30) DEF Next, vars, RefuseInvite, BridgeInvite, PumpError, Goroutine,
     WaitFailed, WaitTimeout, WaitAnswered, Answer, StartRelay, InsertSession, PumpResponse, RunStep,
     LegBye, StopRelay, HangupSend, HangupWait

\* What the relay carries belongs to INVITEs.
Playing == media \subseteq Inv

\* Every step keeps it.
LEMMA MediaStep == Playing /\ [Next]_vars => Playing'
<1> SUFFICES ASSUME Playing, [Next]_vars PROVE Playing'
  OBVIOUS
<1>1. ASSUME NEW i \in Inv, StartRelay(i) PROVE Playing'
  BY <1>1, Zenon DEF StartRelay, Started, Playing
<1>2. ASSUME NEW u \in Side, StopRelay(u) PROVE Playing'
  BY <1>2, Zenon DEF StopRelay, Playing
<1>3. CASE UNCHANGED media
  BY <1>3, Zenon DEF Playing
<1>4. ASSUME NEW i \in Inv, PumpError(i) \/ Goroutine(i) PROVE Playing'
  BY <1>1, <1>3, <1>4, Zenon DEF PumpError, Goroutine, WaitFailed, WaitTimeout, WaitAnswered,
     Answer, InsertSession
<1>5. ASSUME NEW u \in Side, RunStep(u) PROVE Playing'
  BY <1>2, <1>3, <1>5, Zenon DEF RunStep, LegBye, HangupSend, HangupWait
<1>6. ASSUME NEW i \in Inv, NEW c \in Call, NEW w \in Inv \cup {None},
             RefuseInvite(i, c, w) \/ BridgeInvite(i, c, w)
      PROVE  Playing'
  BY <1>3, <1>6, Zenon DEF RefuseInvite, BridgeInvite
<1>7. ASSUME NEW i \in Inv, NEW m \in Response, PumpResponse(i, m) PROVE Playing'
  BY <1>3, <1>7, Zenon DEF PumpResponse
<1>8. ASSUME NEW u \in Side, NEW i \in Inv, NEW s \in Seqs(u),
             RecvInfo(u, i, s) \/ \E src \in Host : RecvBye(u, i, s, src)
      PROVE  Playing'
  BY <1>3, <1>8, Zenon DEF RecvInfo, RecvBye
<1>9. CASE UNCHANGED vars
  BY <1>3, <1>9, Zenon DEF vars
<1> QED
  BY <1>4, <1>5, <1>6, <1>7, <1>8, <1>9, ZenonT(30) DEF Next

\* Every variable has its type.
THEOREM TypeCorrect == Spec => []TypeOK
<1> USE B2BUAAssumption
<1>1. Init => Codes /\ Playing
  BY DEF Init, Codes, Side, Playing
<1>2. ASSUME IInv, JInv, Codes, Playing PROVE TypeOK
  <2> USE <1>2
  <2>1. ASSUME NEW i \in Inv
        PROVE  /\ dlg["in"][i] \in DialogType(Call, Tag, Host) \cup {None}
               /\ dlg["out"][i] \in DialogType(Inv, Tag, Host) \cup {None}
    BY Zenon DEF IInv, Legs, JInv, Places, Bridged, BLeg
  <2>2. table["in"] \subseteq DialogID(Call, Tag) \X Inv
    <3>1. ASSUME NEW i \in Inv, callID[i] # None
          PROVE  <<LegKey("in", i), i>> \in DialogID(Call, Tag) \X Inv
      BY <3>1, Zenon DEF IInv, Shapes, LegKey, DialogID, Tag
    <3> QED
      BY <3>1, Zenon DEF IInv, Tables
  <2>3. run \in [Side -> [at: {"idle", "bye", "stop", "hangup", "wait"},
                          inv: Inv \cup {None}, attempt: 0..3]]
    <3>1. Idle \in [at: {"idle", "bye", "stop", "hangup", "wait"}, inv: Inv \cup {None}, attempt: 0..3]
      BY DEF Idle
    <3> QED
      BY <3>1, Zenon DEF IInv, Shapes, CalleeNotFound, JInv, Working, Side
  <2>4. ASSUME NEW u \in Side
        PROVE  reply[u] \in [Inv -> [Seqs(u) -> {"none", "200", "403", "481", "500", "501"}]]
    <3>1. \A i \in Inv : \A s \in Seqs(u) :
            reply[u][i][s] \in {"none", "200", "403", "481", "500", "501"}
      BY DEF Codes, IInv, CalleeNotFound, Side
    <3>2. reply[u] = [i \in Inv |-> [s \in Seqs(u) |-> reply[u][i][s]]]
      BY Zenon DEF IInv, Shapes
    <3> QED
      BY <3>1, <3>2, ZenonT(30)
  <2> QED
    BY <2>1, <2>2, <2>3, <2>4, Zenon DEF TypeOK, IInv, Shapes, JInv, Types, Playing
<1>3. ASSUME IInv, Codes, [Next]_vars PROVE Codes'
  BY <1>3, CodesStep, Zenon
<1> QED
  BY <1>1, <1>2, <1>3, MediaStep, Invariance, CallInvariance, PTL DEF Spec

\* Once the ingress is through with the caller's BYE the callee was told, unless
\* the BYE came before the session was stored or another INVITE had its place.
THEOREM HangupReachesPeerHolds == Spec => []HangupReachesPeer
<1>1. ASSUME IInv, JInv PROVE HangupReachesPeer
  <2>1. SUFFICES ASSUME NEW i \in Inv, dlg["in"][i] # None,
                        dlg["in"][i].state = "terminated", run["in"].inv # i,
                        dlg["out"][i].state = "confirmed", dlg["out"][i].localSeq = 1
                 PROVE  i \in missed \/ SharedCall(i)
    BY Zenon DEF HangupReachesPeer
  <2>2. Ended(i)
    BY <1>1, <2>1, Zenon DEF Ended, JInv, Places
  <2>3. ~Told(i)
    BY <2>1 DEF Told
  <2> QED
    BY <1>1, <2>1, <2>2, <2>3, Zenon DEF JInv, Hung
<1> QED
  BY <1>1, CallInvariance, PTL
-----------------------------------------------------------------------------
(* Bridge.                                                                  *)

\* An INVITE is answered once, and with a 200 before its session is stored.
Answers ==
  \A i \in Inv :
    /\ pc[i] \in {"none", "wait", "answer"} => answered[i] = "none"
    /\ pc[i] \in {"relay", "insert"} => answered[i] = "200"

\* The number of a B leg's last request counts the attempts of Hangup, which
\* begin when the session was taken out and the media have stopped.
Attempted ==
  LET r == run["in"]
  IN /\ \A i \in Inv : Bridged(i) /\ stage[i] # "taken" => dlg["out"][i].localSeq = 1
     /\ r.at \in {"stop", "hangup", "wait"} => stage[r.inv] = "taken"
     /\ r.at \in {"hangup", "wait"} => r.inv \notin media /\ r.attempt \in 1..3
     /\ r.at = "stop" => dlg["out"][r.inv].localSeq = 1
     /\ r.at = "hangup" => dlg["out"][r.inv].localSeq = r.attempt
     /\ r.at = "wait" => dlg["out"][r.inv].localSeq = r.attempt + 1

KInv == Answers /\ Attempted

\* A dialog is not None.
LEMMA NoneIsNoLeg == None \notin BLeg
  BY B2BUAAssumption, Zenon DEF BLeg

\* A step that keeps what Bridge is about.
LEMMA MapKept ==
  ASSUME UNCHANGED <<answered, media>>, run'["in"].inv = run["in"].inv,
         \A j \in Inv : Ended(j)' = Ended(j),
         \A j \in Inv : Byes'[j] = Byes[j]
  PROVE  UNCHANGED T!bvars
<1>1. Over' = Over
  BY Zenon DEF Over, Ended
<1>2. Byes' = Byes
  BY Zenon DEF Byes
<1> QED
  BY <1>1, <1>2, Zenon DEF T!bvars

\* A step that gives no answer, leaves the ingress goroutine alone and sends
\* nothing within a B leg.
LEMMA LegsKept ==
  ASSUME JInv, KInv, UNCHANGED <<pc, answered, media, stage, run>>,
         \A j \in Inv : Ended(j)' = Ended(j),
         \A j \in Inv : \/ dlg'["out"][j] = dlg["out"][j]
                        \/ /\ Bridged(j) /\ Bridged(j)'
                           /\ dlg'["out"][j].localSeq = dlg["out"][j].localSeq
  PROVE  KInv' /\ UNCHANGED T!bvars
<1>1. \A j \in Inv : Byes'[j] = Byes[j]
  BY NoneIsNoLeg, Zenon DEF Byes, Bridged
<1>2. UNCHANGED T!bvars
  BY <1>1, MapKept, Zenon
<1>3. Answers'
  BY Zenon DEF KInv, Answers
<1>4. \A j \in Inv : /\ Bridged(j)' <=> Bridged(j)
                     /\ dlg'["out"][j].localSeq = dlg["out"][j].localSeq
  BY Zenon DEF Bridged
<1>5. run["in"].at \in {"stop", "hangup", "wait"} => run["in"].inv \in Inv
  BY Zenon DEF JInv, Working
<1>6. Attempted'
  BY <1>4, <1>5, Zenon DEF KInv, Attempted
<1> QED
  BY <1>2, <1>3, <1>6, Zenon DEF KInv

\* Initially nothing is answered.
LEMMA InitK == Init => KInv /\ T!Init
<1> SUFFICES ASSUME Init PROVE KInv /\ T!Init
  OBVIOUS
<1>1. /\ run["in"] = Idle
      /\ \A i \in Inv : /\ pc[i] = "none" /\ answered[i] = "none" /\ dlg["out"][i] = None
                        /\ callID[i] = None
  BY Zenon DEF Init, Side
<1>2. KInv
  BY <1>1, NoneIsNoLeg DEF KInv, Answers, Attempted, Bridged, Idle
<1>3. Over = {} /\ Byes = [i \in Inv |-> 0] /\ run["in"].inv = None
  BY <1>1 DEF Over, Byes, Idle
<1> QED
  BY <1>2, <1>3, Zenon DEF Init, T!Init

\* The goroutine of an INVITE gives the one answer, and then starts the media.
LEMMA GoroutineK ==
  ASSUME JInv, KInv, NEW i \in Inv, Goroutine(i)
  PROVE  KInv' /\ (T!Next \/ UNCHANGED T!bvars)
<1>1. /\ UNCHANGED <<callID, dlg, run>>
      /\ \A j \in Inv : Ended(j)' = Ended(j) /\ Bridged(j)' = Bridged(j)
      /\ UNCHANGED <<Over, Byes>>
  BY Zenon DEF Goroutine, WaitFailed, WaitTimeout, WaitAnswered, Answer, StartRelay, InsertSession,
     Ended, Bridged, Over, Byes
<1>2. ASSUME NEW code \in {"refused", "timeout", "200"}, NEW l \in {"relay", "done"},
             pc[i] \in {"wait", "answer"}, pc' = [pc EXCEPT ![i] = l], l = "relay" => code = "200",
             answered' = [answered EXCEPT ![i] = code], UNCHANGED <<media, stage>>
      PROVE  KInv' /\ T!Next
  <2>1. Answers'
    BY <1>2, Zenon DEF KInv, Answers, JInv, Types
  <2>2. Attempted'
    BY <1>1, <1>2, Zenon DEF KInv, Attempted
  <2>3. answered[i] = "none"
    BY <1>2, Zenon DEF KInv, Answers
  <2>4. T!Answer(i, code)
    BY <1>1, <1>2, <2>3, Zenon DEF T!Answer
  <2> QED
    BY <2>1, <2>2, <2>4, Zenon DEF KInv, T!Next
<1>3. CASE WaitFailed(i)
  BY <1>2, <1>3, Zenon DEF WaitFailed, Respond
<1>4. CASE WaitTimeout(i)
  BY <1>2, <1>4, Zenon DEF WaitTimeout, Respond
<1>5. CASE Answer(i)
  BY <1>2, <1>5, Zenon DEF Answer, Respond
<1>6. CASE WaitAnswered(i)
  <2>1. /\ pc[i] = "wait" /\ pc' = [pc EXCEPT ![i] = "answer"]
        /\ UNCHANGED <<answered, media, stage>>
    BY <1>6, Zenon DEF WaitAnswered
  <2>2. Answers'
    BY <2>1, Zenon DEF KInv, Answers, JInv, Types
  <2>3. Attempted'
    BY <1>1, <2>1, Zenon DEF KInv, Attempted
  <2> QED
    BY <1>1, <2>1, <2>2, <2>3, Zenon DEF KInv, T!bvars
<1>7. CASE InsertSession(i)
  <2>1. /\ pc[i] = "insert" /\ pc' = [pc EXCEPT ![i] = "done"]
        /\ stage' = [stage EXCEPT ![i] = "stored"]
        /\ UNCHANGED <<answered, media>>
    BY <1>7, Zenon DEF InsertSession
  <2>2. Answers'
    BY <2>1, Zenon DEF KInv, Answers, JInv, Types
  <2>3. stage[i] = "new" /\ \A j \in Inv : stage'[j] = IF j = i THEN "stored" ELSE stage[j]
    BY <2>1, Zenon DEF JInv, Types, Places
  <2>4. Attempted'
    <3>1. \A j \in Inv : stage'[j] = "taken" <=> stage[j] = "taken"
      BY <2>3, Zenon
    <3>2. run["in"].at \in {"stop", "hangup", "wait"} => run["in"].inv \in Inv
      BY Zenon DEF JInv, Working
    <3> QED
      BY <1>1, <2>1, <3>1, <3>2, ZenonT(30) DEF KInv, Attempted
  <2> QED
    BY <1>1, <2>1, <2>2, <2>4, Zenon DEF KInv, T!bvars
<1>8. CASE StartRelay(i)
  <2>1. /\ pc[i] = "relay" /\ pc' = [pc EXCEPT ![i] = "insert"]
        /\ media' = media \cup {i}
        /\ UNCHANGED <<answered, stage>>
    BY <1>8, Zenon DEF StartRelay, Started
  <2>2. Answers'
    BY <2>1, Zenon DEF KInv, Answers, JInv, Types
  <2>3. stage[i] = "new" /\ Bridged(i)
    BY <2>1, Zenon DEF JInv, Places
  <2>4. Attempted'
    BY <1>1, <2>1, <2>3, ZenonT(30) DEF KInv, Attempted
  <2>5. Byes[i] = 0
    <3>1. dlg["out"][i] # None /\ dlg["out"][i].localSeq = 1
      BY <2>3, NoneIsNoLeg, Zenon DEF KInv, Attempted, Bridged
    <3> QED
      BY <3>1 DEF Byes
  <2>6. T!StartMedia(i)
    BY <1>1, <2>1, <2>5, Zenon DEF T!StartMedia, KInv, Answers
  <2> QED
    BY <2>2, <2>4, <2>6, Zenon DEF KInv, T!Next
<1> QED
  BY <1>3, <1>4, <1>5, <1>6, <1>7, <1>8, ZenonT(30) DEF Goroutine

\* A new INVITE is refused at once, or has no answer yet and an unused B leg.
LEMMA InviteK ==
  ASSUME IInv, JInv, KInv, NEW i \in Inv, NEW c \in Call, NEW w \in Inv \cup {None},
         RefuseInvite(i, c, w) \/ BridgeInvite(i, c, w)
  PROVE  KInv' /\ (T!Next \/ UNCHANGED T!bvars)
<1> USE B2BUAAssumption
<1>1. /\ callID[i] = None /\ run["in"] = Idle
      /\ callID' = [callID EXCEPT ![i] = c]
      /\ UNCHANGED <<media, stage, run>>
      /\ \/ /\ pc' = [pc EXCEPT ![i] = "done"]
            /\ answered' = [answered EXCEPT ![i] = "refused"]
         \/ /\ pc' = [pc EXCEPT ![i] = "wait"]
            /\ UNCHANGED answered
  BY Zenon DEF RefuseInvite, BridgeInvite, RecvInvite, Respond
<1>2. pc[i] = "none" /\ answered[i] = "none" /\ dlg["out"][i] = None
  BY <1>1, Zenon DEF JInv, Places, KInv, Answers
<1>3. /\ dlg'["in"][i] = NewALeg(i, c)
      /\ \A j \in Inv \ {i} : dlg'["in"][j] = dlg["in"][j]
      /\ \A j \in Inv \ {i} : dlg'["out"][j] = dlg["out"][j]
      /\ dlg'["out"][i] = dlg["out"][i] \/ dlg'["out"][i] = Invite(i)
  BY InviteDlg, Zenon DEF IInv
<1>4. Invite(i) \in BLeg /\ Invite(i).localSeq = 1 /\ Invite(i) # None
  BY NewBLeg, NoneIsNoLeg, Zenon DEF Invite, NewClientDialog
<1>5. Over' = Over
  <2>1. NewALeg(i, c).state # "terminated"
    BY Zenon DEF NewALeg, NewServerDialog
  <2>2. callID'[i] = c /\ \A j \in Inv \ {i} : callID'[j] = callID[j]
    BY <1>1, Zenon DEF IInv, Shapes
  <2>3. \A j \in Inv : j \in Over' <=> j \in Over
    BY <1>1, <1>3, <2>1, <2>2, Zenon DEF Over
  <2> QED
    BY <2>3, Zenon DEF Over
<1>6. Byes' = Byes
  <2>1. \A j \in Inv : Byes'[j] = Byes[j]
    BY <1>2, <1>3, <1>4 DEF Byes
  <2> QED
    BY <2>1, Zenon DEF Byes
<1>7. Answers'
  BY <1>1, <1>2 DEF KInv, Answers, JInv, Types
<1>8. Attempted'
  <2>1. \A j \in Inv : Bridged(j)' => dlg'["out"][j].localSeq = 1 \/ stage'[j] = "taken"
    BY <1>1, <1>2, <1>3, <1>4, NoneIsNoLeg, ZenonT(30) DEF KInv, Attempted, Bridged
  <2> QED
    BY <1>1, <2>1 DEF Attempted, Idle
<1>9. CASE UNCHANGED answered
  BY <1>1, <1>5, <1>6, <1>7, <1>8, <1>9, Zenon DEF KInv, T!bvars
<1>10. CASE answered' = [answered EXCEPT ![i] = "refused"]
  <2>1. T!Answer(i, "refused")
    BY <1>1, <1>2, <1>5, <1>6, <1>10, Zenon DEF T!Answer
  <2> QED
    BY <1>7, <1>8, <2>1, Zenon DEF KInv, T!Next
<1> QED
  BY <1>1, <1>9, <1>10, ZenonT(30)

\* pump sends nothing within the B leg.
LEMMA PumpK ==
  ASSUME IInv, JInv, KInv, NEW i \in Inv, NEW r \in Response, PumpResponse(i, r)
  PROVE  KInv' /\ UNCHANGED T!bvars
<1> DEFINE old == dlg["out"][i]
           d == updateFromResponse(old, r)
<1>1. /\ Bridged(i)
      /\ UNCHANGED <<callID, pc, answered, media, stage, run>>
  BY Zenon DEF PumpResponse, JInv, Places
<1>2. /\ d \in BLeg /\ d.localSeq = old.localSeq
      /\ Terminate(d) \in BLeg /\ Terminate(d).localSeq = old.localSeq
      /\ Confirm(d) \in BLeg /\ Confirm(d).localSeq = old.localSeq
  BY <1>1, BLegDialog, Zenon DEF Bridged
<1>3. \E e \in {d, Terminate(d), Confirm(d)} : dlg' = [dlg EXCEPT !["out"][i] = e]
  BY Zenon DEF PumpResponse
<1>4. PICK e \in BLeg : e.localSeq = old.localSeq /\ dlg' = [dlg EXCEPT !["out"][i] = e]
  BY <1>2, <1>3, Zenon
<1> HIDE DEF d
<1>5. /\ dlg'["in"] = dlg["in"]
      /\ dlg'["out"][i] = e
      /\ \A j \in Inv \ {i} : dlg'["out"][j] = dlg["out"][j]
  BY <1>4, DlgExcept, ZenonT(30) DEF IInv, Side
<1>6. \A j \in Inv : Ended(j)' = Ended(j)
  BY <1>1, <1>5, Zenon DEF Ended
<1>7. Bridged(i)' /\ dlg'["out"][i].localSeq = dlg["out"][i].localSeq
  BY <1>4, <1>5, Zenon DEF Bridged
<1> QED
  BY <1>1, <1>5, <1>6, <1>7, LegsKept, Zenon

\* The caller ends the call.
LEMMA ByeK ==
  ASSUME IInv, JInv, KInv, NEW i \in Inv, NEW s \in Seqs("in"), NEW src \in Host,
         RecvBye("in", i, s, src), ByeCode("in", i, s, src) = "200"
  PROVE  KInv' /\ T!Next
<1>1. i \in Found("in", i) /\ callID[i] # None
  BY FoundIn DEF ByeCode
<1>2. /\ dlg' = [dlg EXCEPT !["in"] = [Seen("in", i, s) EXCEPT ![i] = Terminate(@)]]
      /\ run' = [run EXCEPT !["in"] = [at |-> "bye", inv |-> i, attempt |-> 0]]
      /\ run["in"] = Idle /\ answered[i] = "200"
      /\ UNCHANGED <<callID, pc, answered, media, stage>>
  BY <1>1, FoundIn, Zenon DEF RecvBye, CanRequest
<1>3. /\ dlg'["out"] = dlg["out"]
      /\ run'["in"] = [at |-> "bye", inv |-> i, attempt |-> 0]
      /\ dlg'["in"] = [Seen("in", i, s) EXCEPT ![i] = Terminate(@)]
  BY <1>2, Zenon DEF IInv, Shapes, Side
<1>4. /\ \A j \in Inv \ {i} : dlg'["in"][j] = dlg["in"][j]
      /\ dlg'["in"][i] = Terminate(updateFromRequest(dlg["in"][i], s))
  <2>1. /\ \A j \in Inv \ {i} : Seen("in", i, s)[j] = dlg["in"][j]
        /\ Seen("in", i, s)[i] = updateFromRequest(dlg["in"][i], s)
    BY <1>1, FoundIn, Zenon DEF Seen
  <2>2. /\ dlg'["in"][i] = Terminate(Seen("in", i, s)[i])
        /\ \A j \in Inv \ {i} : dlg'["in"][j] = Seen("in", i, s)[j]
    BY <1>3, Zenon DEF Seen
  <2> QED
    BY <2>1, <2>2, Zenon
<1>5. dlg'["in"][i].state = "terminated"
  <2>1. s \in Nat /\ dlg["in"][i] \in DialogType(Call, Tag, Host)
    BY <1>1, B2BUAAssumption DEF Seqs, Side, IInv, Legs
  <2>2. updateFromRequest(dlg["in"][i], s) \in DialogType(Call, Tag, Host)
    BY <2>1, UpdateFromRequest, Zenon
  <2> QED
    BY <1>4, <2>2, Zenon DEF Terminate, SetState, DialogType
<1>6. i \notin Over
  BY <1>1, Zenon DEF JInv, Hung, Ended, Over
<1>7. Over' = Over \cup {i}
  <2>1. \A j \in Inv : j \in Over' <=> j \in Over \/ j = i
    BY <1>1, <1>2, <1>4, <1>5, Zenon DEF Over
  <2> QED
    BY <2>1, Zenon DEF Over
<1>8. Byes' = Byes
  BY <1>3, Zenon DEF Byes
<1>9. run["in"].inv = None /\ run'["in"].inv = i /\ run'["in"].at = "bye"
  BY <1>2, <1>3 DEF Idle
<1>10. T!EndCall(i)
  BY <1>2, <1>6, <1>7, <1>8, <1>9, Zenon DEF T!EndCall
<1>11. KInv'
  <2>1. Answers'
    BY <1>2, Zenon DEF KInv, Answers
  <2>2. \A j \in Inv : Bridged(j)' /\ stage'[j] # "taken" => dlg'["out"][j].localSeq = 1
    BY <1>2, <1>3, Zenon DEF KInv, Attempted, Bridged
  <2> QED
    BY <1>9, <2>1, <2>2, Zenon DEF KInv, Attempted
<1> QED
  BY <1>10, <1>11, Zenon DEF T!Next

\* handleLegBye takes out the session it finds; no BYE was sent before.
LEMMA LegByeK ==
  ASSUME IInv, JInv, KInv, LegBye("in")
  PROVE  KInv' /\ (T!Next \/ UNCHANGED T!bvars)
<1> USE B2BUAAssumption
<1>1. PICK i \in Inv : run["in"].inv = i /\ run["in"].at = "bye"
  BY RunIsIn, Zenon DEF RunStep, LegBye, Side
<1>2. /\ UNCHANGED <<callID, pc, dlg, answered, media>>
      /\ UNCHANGED <<Over, Byes>>
      /\ \A j \in Inv : Bridged(j)' <=> Bridged(j)
  <2>1. UNCHANGED <<callID, pc, dlg, answered, media>>
    BY Zenon DEF LegBye
  <2> QED
    BY <2>1, Zenon DEF Over, Byes, Bridged
<1>3. Answers'
  BY <1>2, Zenon DEF KInv, Answers
<1>4. CASE LegSessions("in", i) # {}
  <2>1. /\ stage' = [stage EXCEPT ![i] = "taken"]
        /\ run' = [run EXCEPT !["in"].at = "stop"]
    BY <1>1, <1>4, Zenon DEF LegBye
  <2>2. run'["in"] = [run["in"] EXCEPT !.at = "stop"]
    BY <2>1, Zenon DEF IInv, Shapes, Side
  <2>3. run'["in"].at = "stop" /\ run'["in"].inv = i
    BY <1>1, <2>2, Zenon DEF JInv, Working
  <2>4. \A j \in Inv : stage'[j] = IF j = i THEN "taken" ELSE stage[j]
    BY <2>1, Zenon DEF JInv, Types
  <2>5. \A j \in Inv : Bridged(j)' /\ stage'[j] # "taken" => dlg'["out"][j].localSeq = 1
    BY <1>2, <2>4, Zenon DEF KInv, Attempted
  <2>6. dlg'["out"][i].localSeq = 1
    BY <1>2, <1>4 DEF LegSessions, JInv, Stored, KInv, Attempted
  <2>7. Attempted'
    BY <2>3, <2>4, <2>5, <2>6, Zenon DEF Attempted
  <2> QED
    BY <1>1, <1>2, <1>3, <2>3, <2>7, Zenon DEF KInv, T!bvars
<1>5. CASE LegSessions("in", i) = {}
  <2>1. UNCHANGED stage /\ run' = [run EXCEPT !["in"] = Idle]
    BY <1>1, <1>5, Zenon DEF LegBye
  <2>2. run'["in"] = Idle
    BY <2>1, Zenon DEF IInv, Shapes, Side
  <2>3. \A j \in Inv : Bridged(j)' /\ stage'[j] # "taken" => dlg'["out"][j].localSeq = 1
    BY <1>2, <2>1, Zenon DEF KInv, Attempted
  <2>4. Attempted'
    BY <2>2, <2>3 DEF Attempted, Idle
  <2>5. run["in"].inv # None /\ run'["in"].inv = None
    BY <1>1, <2>2 DEF Idle
  <2>6. T!Release
    BY <1>2, <2>1, <2>5, Zenon DEF T!Release
  <2> QED
    BY <1>3, <2>4, <2>6, Zenon DEF KInv, T!Next
<1> QED
  BY <1>4, <1>5, Zenon

\* The relay is stopped, for all calls; no BYE was sent to the callee before.
LEMMA StopRelayK ==
  ASSUME IInv, JInv, KInv, StopRelay("in")
  PROVE  KInv' /\ T!Next
<1> USE B2BUAAssumption
<1>1. PICK i \in Inv : run["in"].inv = i
  BY RunIsIn, Zenon DEF RunStep, Side
<1> DEFINE next == [at |-> "hangup", inv |-> i, attempt |-> 1]
<1>2. /\ UNCHANGED <<callID, pc, dlg, answered, stage>>
      /\ media' = {}
      /\ run["in"].at = "stop"
      /\ run' = [run EXCEPT !["in"] = IF dlg["out"][i].state = "terminated" THEN Idle ELSE next]
  BY <1>1, Zenon DEF StopRelay, Peer
<1>3. UNCHANGED <<Over, Byes>> /\ \A j \in Inv : Bridged(j)' <=> Bridged(j)
  BY <1>2, Zenon DEF Over, Byes, Bridged
<1>4. stage[i] = "taken" /\ dlg["out"][i].localSeq = 1
  BY <1>1, <1>2, Zenon DEF KInv, Attempted
<1>5. run'["in"] = Idle \/ run'["in"] = next
  <2> HIDE DEF next
  <2> QED
    BY <1>2, Zenon DEF IInv, Shapes, Side
<1>6. Answers'
  BY <1>2, Zenon DEF KInv, Answers
<1>7. \A j \in Inv : Bridged(j)' /\ stage'[j] # "taken" => dlg'["out"][j].localSeq = 1
  BY <1>2, <1>3, Zenon DEF KInv, Attempted
<1>8. Attempted'
  BY <1>2, <1>4, <1>5, <1>7 DEF Attempted, Idle
<1>9. run'["in"].inv \in {i, None}
  BY <1>5 DEF Idle
<1>10. T!StopMedia
  BY <1>1, <1>2, <1>3, <1>9, Zenon DEF T!StopMedia
<1> QED
  BY <1>6, <1>8, <1>10, Zenon DEF KInv, T!Next

\* What Hangup makes of a B leg, d after the step: it sends a BYE or does not.
Numbers(i, d) ==
  \/ d.localSeq = dlg["out"][i].localSeq
  \/ run["in"].at = "hangup" /\ d.localSeq = dlg["out"][i].localSeq + 1

\* It ends, begins an attempt, or waits for the answer.
MovesOn(i, d) ==
  \/ run'["in"] = Idle
  \/ \E n \in 1..3 :
       \/ run'["in"] = [at |-> "hangup", inv |-> i, attempt |-> n] /\ d.localSeq = n
       \/ run'["in"] = [at |-> "wait", inv |-> i, attempt |-> n] /\ d.localSeq = n + 1

\* Hangup moves on from a B leg to d.
LEMMA HangupK ==
  ASSUME IInv, JInv, KInv, NEW i \in Inv, run["in"].inv = i,
         run["in"].at \in {"hangup", "wait"},
         UNCHANGED <<callID, pc, answered, media, stage>>,
         NEW d \in BLeg, dlg'["in"] = dlg["in"], dlg'["out"][i] = d,
         \A j \in Inv \ {i} : dlg'["out"][j] = dlg["out"][j],
         Numbers(i, d), MovesOn(i, d)
  PROVE  KInv' /\ (T!Next \/ UNCHANGED T!bvars)
<1>1. /\ Bridged(i) /\ stage[i] = "taken" /\ i \notin media
      /\ run["in"].at = "hangup" => dlg["out"][i].localSeq \in 1..3
  BY Zenon DEF JInv, Working, KInv, Attempted
<1>2. /\ dlg'["in"] = dlg["in"] /\ dlg'["out"][i] = d
      /\ \A j \in Inv \ {i} : dlg'["out"][j] = dlg["out"][j]
  OBVIOUS
<1>3. Over' = Over
  BY <1>2, Zenon DEF Over
<1>4. d.localSeq \in Nat /\ dlg["out"][i].localSeq \in Nat /\ d # None /\ dlg["out"][i] # None
  BY <1>1, NoneIsNoLeg, Zenon DEF Bridged, BLeg, DialogType
<1>5. /\ Byes[i] = dlg["out"][i].localSeq - 1 /\ Byes'[i] = d.localSeq - 1
      /\ \A j \in Inv \ {i} : Byes'[j] = Byes[j]
  <2>1. \A j \in Inv : Byes[j] = IF dlg["out"][j] = None THEN 0 ELSE dlg["out"][j].localSeq - 1
    BY Zenon DEF Byes
  <2>2. \A j \in Inv : Byes'[j] = IF dlg'["out"][j] = None THEN 0 ELSE dlg'["out"][j].localSeq - 1
    BY Zenon DEF Byes
  <2>3. Byes[i] = dlg["out"][i].localSeq - 1
    BY <1>4, <2>1, Zenon
  <2>4. Byes'[i] = d.localSeq - 1
    BY <1>2, <1>4, <2>2, Zenon
  <2>5. ASSUME NEW j \in Inv \ {i} PROVE Byes'[j] = Byes[j]
    <3>1. j \in Inv /\ dlg'["out"][j] = dlg["out"][j]
      BY <1>2, Zenon
    <3>2. /\ Byes[j] = IF dlg["out"][j] = None THEN 0 ELSE dlg["out"][j].localSeq - 1
          /\ Byes'[j] = IF dlg'["out"][j] = None THEN 0 ELSE dlg'["out"][j].localSeq - 1
      BY <2>1, <2>2, <3>1, Zenon
    <3> QED
      BY <3>1, <3>2, Zenon
  <2> QED
    BY <2>3, <2>4, <2>5, Zenon
<1>6. run'["in"].inv \in {i, None}
  BY DEF MovesOn, Idle
<1>7. KInv'
  <2>1. Answers'
    BY Zenon DEF KInv, Answers
  <2>2. \A j \in Inv : Bridged(j)' /\ stage'[j] # "taken" => dlg'["out"][j].localSeq = 1
    BY <1>1, <1>2, Zenon DEF KInv, Attempted, Bridged
  <2>3. Attempted'
    BY <1>1, <1>2, <2>2 DEF Attempted, MovesOn, Idle
  <2> QED
    BY <2>1, <2>3, Zenon DEF KInv
<1>8. CASE d.localSeq = dlg["out"][i].localSeq
  <2>1. Byes' = Byes
    <3>1. \A j \in Inv : Byes'[j] = Byes[j]
      BY <1>5, <1>8, Zenon
    <3> QED
      BY <3>1, Zenon DEF Byes
  <2>2. CASE run'["in"].inv = i
    BY <1>3, <1>7, <2>1, <2>2, Zenon DEF T!bvars
  <2>3. CASE run'["in"].inv = None
    <3>1. T!Release
      BY <1>3, <2>1, <2>3, B2BUAAssumption, Zenon DEF T!Release
    <3> QED
      BY <1>7, <3>1, Zenon DEF T!Next
  <2> QED
    BY <1>6, <1>7, <2>2, <2>3, Zenon
<1>9. CASE run["in"].at = "hangup" /\ d.localSeq = dlg["out"][i].localSeq + 1
  <2>1. Byes[i] < 3 /\ Byes'[i] = Byes[i] + 1
    BY <1>1, <1>4, <1>5, <1>9
  <2>2. Byes' = [Byes EXCEPT ![i] = @ + 1]
    <3>1. Byes = [j \in Inv |-> Byes[j]] /\ Byes' = [j \in Inv |-> Byes'[j]]
      BY Zenon DEF Byes
    <3> QED
      BY <1>5, <2>1, <3>1, Zenon
  <2>3. T!SendBye(i)
    BY <1>1, <1>3, <1>6, <2>1, <2>2, Zenon DEF T!SendBye
  <2> QED
    BY <1>7, <2>3, Zenon DEF T!Next
<1> QED
  BY <1>8, <1>9, Zenon DEF Numbers

\* One attempt of Hangup.
LEMMA HangupSendK ==
  ASSUME IInv, JInv, KInv, HangupSend("in")
  PROVE  KInv' /\ (T!Next \/ UNCHANGED T!bvars)
<1>1. PICK i \in Inv : run["in"].inv = i
  BY RunIsIn, Zenon DEF RunStep, Side
<1> DEFINE old == dlg["out"][i]
<1>2. /\ old \in BLeg /\ run["in"].at = "hangup"
      /\ run["in"].attempt \in 1..3 /\ old.localSeq = run["in"].attempt
      /\ UNCHANGED <<callID, pc, answered, media, stage>>
  BY <1>1, Zenon DEF HangupSend, JInv, Working, Bridged, KInv, Attempted
<1>3. run["in"] = [at |-> "hangup", inv |-> i, attempt |-> run["in"].attempt]
  BY <1>1, <1>2, Zenon DEF JInv, Working
<1>4. CASE CanCreateRequest(old)
  <2>1. /\ dlg' = [dlg EXCEPT !["out"][i] = CreateRequest(old)]
        /\ \/ run' = [run EXCEPT !["in"].at = "wait"]
           \/ run' = [run EXCEPT !["in"] = Idle]
    BY <1>1, <1>4, Zenon DEF HangupSend, Peer
  <2>2. CreateRequest(old) \in BLeg
    BY <1>2, BLegDialog, Zenon
  <2>3. CreateRequest(old).localSeq = old.localSeq + 1
    BY <1>2, Zenon DEF CreateRequest, BLeg, DialogType
  <2> DEFINE d == CreateRequest(old)
  <2>4. run'["in"] = Idle \/ run'["in"] = [run["in"] EXCEPT !.at = "wait"]
    BY <2>1, Zenon DEF IInv, Shapes, Side
  <2>5. run'["in"] = Idle \/ run'["in"] = [at |-> "wait", inv |-> i, attempt |-> run["in"].attempt]
    BY <1>3, <2>4
  <2> HIDE DEF d, old
  <2>6. d \in BLeg /\ d.localSeq = old.localSeq + 1 /\ dlg' = [dlg EXCEPT !["out"][i] = d]
    BY <2>1, <2>2, <2>3, Zenon DEF d
  <2>7. old = dlg["out"][i]
    BY Zenon DEF old
  <2>8. /\ dlg'["in"] = dlg["in"] /\ dlg'["out"][i] = d
        /\ \A j \in Inv \ {i} : dlg'["out"][j] = dlg["out"][j]
    BY <2>6, DlgExcept, Zenon DEF IInv, Side
  <2>9. Numbers(i, d) /\ MovesOn(i, d)
    BY <1>2, <2>5, <2>6, <2>7, Zenon DEF Numbers, MovesOn
  <2> QED
    BY <1>1, <1>2, <2>6, <2>8, <2>9, HangupK, Zenon
<1>5. CASE ~CanCreateRequest(old)
  <2>1. UNCHANGED dlg /\ run' = [run EXCEPT !["in"] = Idle]
    BY <1>1, <1>5, Zenon DEF HangupSend, Peer
  <2>2. run'["in"] = Idle
    BY <2>1, Zenon DEF IInv, Shapes, Side
  <2> QED
    BY <1>1, <1>2, <2>1, <2>2, HangupK, Zenon DEF Numbers, MovesOn
<1> QED
  BY <1>4, <1>5, Zenon

\* The end of an attempt.
LEMMA HangupWaitK ==
  ASSUME IInv, JInv, KInv, HangupWait("in")
  PROVE  KInv' /\ (T!Next \/ UNCHANGED T!bvars)
<1>1. PICK i \in Inv : run["in"].inv = i
  BY RunIsIn, Zenon DEF RunStep, Side
<1> DEFINE old == dlg["out"][i]
           n == run["in"].attempt
<1>2. /\ old \in BLeg /\ run["in"].at = "wait"
      /\ n \in 1..3 /\ old.localSeq = n + 1
      /\ UNCHANGED <<callID, pc, answered, media, stage>>
  BY <1>1, Zenon DEF HangupWait, JInv, Working, Bridged, KInv, Attempted
<1>3. CASE dlg' = [dlg EXCEPT !["out"][i] = Terminate(@)] /\ run' = [run EXCEPT !["in"] = Idle]
  <2>1. dlg' = [dlg EXCEPT !["out"][i] = Terminate(old)] /\ run'["in"] = Idle
    BY <1>3, Zenon DEF IInv, Shapes, Side
  <2>2. Terminate(old) \in BLeg /\ Terminate(old).localSeq = old.localSeq
    BY <1>2, BLegDialog, Zenon
  <2>3. /\ dlg'["in"] = dlg["in"] /\ dlg'["out"][i] = Terminate(old)
        /\ \A j \in Inv \ {i} : dlg'["out"][j] = dlg["out"][j]
    BY <2>1, DlgExcept, ZenonT(30) DEF IInv, Side
  <2> QED
    BY <1>1, <1>2, <2>1, <2>2, <2>3, HangupK, Zenon DEF Numbers, MovesOn
<1>4. CASE UNCHANGED dlg /\ run' = [run EXCEPT !["in"] = Idle]
  <2>1. run'["in"] = Idle
    BY <1>4, Zenon DEF IInv, Shapes, Side
  <2> QED
    BY <1>1, <1>2, <1>4, <2>1, HangupK, Zenon DEF Numbers, MovesOn
<1> DEFINE next == [at |-> "hangup", inv |-> i, attempt |-> n + 1]
<1>5. CASE UNCHANGED dlg /\ run' = [run EXCEPT !["in"] = IF Retry(n) THEN next ELSE Idle]
  <2>1. run'["in"] = Idle \/ (Retry(n) /\ run'["in"] = next)
    <3> HIDE DEF n, next
    <3> QED
      BY <1>5, Zenon DEF IInv, Shapes, Side
  <2>2. ASSUME Retry(n) PROVE n + 1 \in 1..3
    BY <1>2, <2>2 DEF Retry
  <2> DEFINE m == n + 1
  <2>3. /\ old.localSeq = m
        /\ \/ run'["in"] = Idle
           \/ m \in 1..3 /\ run'["in"] = [at |-> "hangup", inv |-> i, attempt |-> m]
    BY <1>2, <2>1, <2>2, Zenon
  <2> HIDE DEF m
  <2> QED
    BY <1>1, <1>2, <1>5, <2>3, HangupK, ZenonT(30) DEF Numbers, MovesOn
<1> QED
  BY <1>1, <1>3, <1>4, <1>5, Zenon DEF HangupWait, Peer

\* Every step of the B2BUA is one of Bridge, or is of no concern to it.
LEMMA StepK ==
  ASSUME IInv, JInv, KInv, [Next]_vars
  PROVE  KInv' /\ (T!Next \/ UNCHANGED T!bvars)
<1> DEFINE Goal == KInv' /\ (T!Next \/ UNCHANGED T!bvars)
<1> SUFFICES Goal
  OBVIOUS
<1>1. ASSUME UNCHANGED <<callID, pc, answered, media, stage, run>>,
             \A j \in Inv : dlg'["out"][j] = dlg["out"][j],
             \A j \in Inv : IF callID[j] = None THEN dlg'["in"][j] = dlg["in"][j]
                            ELSE dlg'["in"][j].state = dlg["in"][j].state
      PROVE  Goal
  <2>1. \A j \in Inv : Ended(j)' = Ended(j)
    BY <1>1, Zenon DEF Ended
  <2> QED
    BY <1>1, <2>1, LegsKept, Zenon
<1>2. ASSUME NEW i \in Inv, NEW c \in Call, NEW w \in Inv \cup {None},
             RefuseInvite(i, c, w) \/ BridgeInvite(i, c, w)
      PROVE Goal
  BY <1>2, InviteK, Zenon
<1>3. ASSUME NEW i \in Inv, PumpError(i) \/ Goroutine(i) PROVE Goal
  BY <1>1, <1>3, GoroutineK, Zenon DEF PumpError
<1>4. ASSUME NEW i \in Inv, NEW r \in Response, PumpResponse(i, r) PROVE Goal
  BY <1>4, PumpK, Zenon
<1>5. ASSUME NEW u \in Side, NEW i \in Inv, NEW s \in Seqs(u), RecvInfo(u, i, s)
      PROVE Goal
  BY <1>1, <1>5, SeenDialogs, Zenon DEF RecvInfo
<1>6. ASSUME NEW u \in Side, NEW i \in Inv, NEW s \in Seqs(u), NEW src \in Host,
             RecvBye(u, i, s, src)
      PROVE Goal
  <2>1. CASE ByeCode(u, i, s, src) = "200"
    <3>1. u = "in"
      <4>1. u = "out" => Found(u, i) = {}
        BY FoundOut, Zenon
      <4> QED
        BY <2>1, <4>1, Zenon DEF ByeCode, Side
    <3> QED
      BY <1>6, <2>1, <3>1, ByeK, ZenonT(30)
  <2>2. CASE ByeCode(u, i, s, src) # "200"
    <3>1. /\ dlg' = [dlg EXCEPT ![u] = Seen(u, i, s)]
          /\ UNCHANGED <<callID, pc, answered, media, stage, run>>
      BY <1>6, <2>2, Zenon DEF RecvBye
    <3> QED
      BY <1>1, <3>1, SeenDialogs, Zenon
  <2> QED
    BY <2>1, <2>2, Zenon
<1>7. ASSUME NEW u \in Side, RunStep(u) PROVE Goal
  BY <1>7, RunIsIn, LegByeK, StopRelayK, HangupSendK, HangupWaitK, ZenonT(30) DEF RunStep
<1>8. CASE UNCHANGED vars
  BY <1>1, <1>8, Zenon DEF vars
<1> QED
  BY <1>2, <1>3, <1>4, <1>5, <1>6, <1>7, <1>8, ZenonT(30) DEF Next

\* The B2BUA implements Bridge: each INVITE has one answer, media start after a
\* 200 only and never once the callee was sent BYE, and for one call at a time
\* the caller's BYE stops the relay, of all calls, before the callee is sent BYE,
\* three times at most.
THEOREM B2BUAImplementsBridge == Spec => InOrder
<1>1. ASSUME IInv, JInv, KInv, [Next]_vars
      PROVE  KInv' /\ [T!Next]_(T!bvars)
  BY <1>1, StepK, Zenon
<1> QED
  BY InitK, <1>1, CallInvariance, PTL DEF Spec, InOrder, T!Spec

-----------------------------------------------------------------------------
(* Media.                                                                   *)

\* A call has its media from the time just before its session is stored, unless
\* another was taken down.
Carried ==
  \A i \in Inv : pc[i] = "insert" \/ stage[i] = "stored" =>
    i \in media \/ \E j \in Inv \ {i} : stage[j] = "taken"

\* Every step keeps it.
LEMMA CarriedStep == ASSUME IInv, JInv, KInv, Carried, [Next]_vars PROVE Carried'
<1>1. ASSUME UNCHANGED <<media, stage>>,
             \A i \in Inv : pc'[i] = "insert" => pc[i] = "insert"
      PROVE  Carried'
  BY <1>1, Zenon DEF Carried
<1>2. ASSUME NEW i \in Inv, StartRelay(i) PROVE Carried'
  <2>1. /\ pc' = [pc EXCEPT ![i] = "insert"] /\ media' = media \cup {i} /\ UNCHANGED stage
    BY <1>2, Zenon DEF StartRelay, Started
  <2>2. \A j \in Inv \ {i} : pc'[j] = pc[j]
    BY <2>1, Zenon DEF JInv, Types
  <2> QED
    BY <2>1, <2>2, Zenon DEF Carried
<1>3. ASSUME NEW i \in Inv, InsertSession(i) PROVE Carried'
  <2>1. /\ pc[i] = "insert" /\ pc' = [pc EXCEPT ![i] = "done"]
        /\ stage' = [stage EXCEPT ![i] = "stored"] /\ UNCHANGED media
    BY <1>3, Zenon DEF InsertSession
  <2>2. /\ \A j \in Inv \ {i} : pc'[j] = pc[j] /\ stage'[j] = stage[j]
        /\ stage[i] = "new"
    BY <2>1, Zenon DEF JInv, Types, Places
  <2>3. \A j \in Inv : stage[j] = "taken" => stage'[j] = "taken"
    BY <2>2, Zenon
  <2> QED
    BY <2>1, <2>2, <2>3, Zenon DEF Carried
<1>4. ASSUME LegBye("in") PROVE Carried'
  <2>1. /\ UNCHANGED <<pc, media>>
        /\ UNCHANGED stage \/ stage' = [stage EXCEPT ![run["in"].inv] = "taken"]
    BY <1>4, Zenon DEF LegBye
  <2>2. \A j \in Inv : /\ stage'[j] = "stored" => stage[j] = "stored"
                       /\ stage[j] = "taken" => stage'[j] = "taken"
    BY <2>1, ZenonT(30) DEF JInv, Types
  <2> QED
    BY <2>1, <2>2, Zenon DEF Carried
<1>5. ASSUME StopRelay("in") PROVE Carried'
  <2>1. PICK i \in Inv : run["in"].inv = i
    BY <1>5, RunIsIn, Zenon DEF RunStep, Side
  <2>2. UNCHANGED <<pc, stage>> /\ stage[i] = "taken"
    BY <1>5, <2>1, Zenon DEF StopRelay, KInv, Attempted
  <2>3. pc[i] = "done"
    BY <2>2, Zenon DEF JInv, Places
  <2> QED
    BY <2>2, <2>3, Zenon DEF Carried
<1>6. ASSUME NEW i \in Inv, NEW l \in {"wait", "answer", "relay", "done"},
             pc' = [pc EXCEPT ![i] = l], UNCHANGED <<media, stage>>
      PROVE  Carried'
  <2>1. \A j \in Inv : pc'[j] = "insert" => pc[j] = "insert"
    BY <1>6, ZenonT(30) DEF JInv, Types
  <2> QED
    BY <1>1, <1>6, <2>1, Zenon
<1>7. ASSUME NEW i \in Inv, PumpError(i) \/ Goroutine(i) PROVE Carried'
  BY <1>1, <1>2, <1>3, <1>6, <1>7, ZenonT(30) DEF PumpError, Goroutine, WaitFailed, WaitTimeout,
     WaitAnswered, Answer
<1>8. ASSUME NEW i \in Inv, NEW c \in Call, NEW w \in Inv \cup {None},
             RefuseInvite(i, c, w) \/ BridgeInvite(i, c, w)
      PROVE  Carried'
  BY <1>6, <1>8, Zenon DEF RefuseInvite, BridgeInvite
<1>9. ASSUME NEW u \in Side, RunStep(u) PROVE Carried'
  <2>1. u = "in"
    BY <1>9, RunIsIn, Zenon
  <2> QED
    BY <1>1, <1>4, <1>5, <1>9, <2>1, Zenon DEF RunStep, HangupSend, HangupWait
<1>10. CASE UNCHANGED <<pc, media, stage>>
  BY <1>1, <1>10, Zenon
<1>11. ASSUME NEW i \in Inv, NEW m \in Response, PumpResponse(i, m) PROVE Carried'
  BY <1>10, <1>11, Zenon DEF PumpResponse
<1>12. ASSUME NEW u \in Side, NEW i \in Inv, NEW s \in Seqs(u),
              RecvInfo(u, i, s) \/ \E src \in Host : RecvBye(u, i, s, src)
       PROVE  Carried'
  BY <1>10, <1>12, Zenon DEF RecvInfo, RecvBye
<1>13. CASE UNCHANGED vars
  BY <1>10, <1>13, Zenon DEF vars
<1> QED
  BY <1>7, <1>8, <1>9, <1>11, <1>12, <1>13, ZenonT(30) DEF Next

\* A bridged call is without media only after another call was hung up.
THEOREM MediaLostToOtherHolds == Spec => []MediaLostToOther
<1>1. Init => Carried
  BY Zenon DEF Init, Carried
<1>2. ASSUME IInv, JInv, KInv, [Next]_vars PROVE KInv'
  BY <1>2, StepK, Zenon
<1>3. ASSUME IInv, JInv, KInv, Carried, [Next]_vars PROVE Carried'
  BY <1>3, CarriedStep, Zenon
<1>4. ASSUME JInv, Carried PROVE MediaLostToOther
  <2>1. SUFFICES ASSUME NEW c \in Call, sessions[c] # None, sessions[c] \notin media
                 PROVE  \E j \in Inv \ {sessions[c]} : stage[j] = "taken"
    BY Zenon DEF MediaLostToOther
  <2>2. sessions[c] \in Inv
    BY <1>4, <2>1, Zenon DEF JInv, Types
  <2>3. stage[sessions[c]] = "stored"
    BY <1>4, <2>1, Zenon DEF JInv, Stored
  <2> QED
    BY <1>4, <2>1, <2>2, <2>3, Zenon DEF Carried
<1> QED
  BY InitK, <1>1, <1>2, <1>3, <1>4, CallInvariance, PTL DEF Spec
=============================================================================
