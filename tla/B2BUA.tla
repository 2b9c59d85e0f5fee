------------------------------- MODULE B2BUA --------------------------------
(* The back-to-back user agent (b2bua.go) over the two user agents it joins *)
(* (ua.go, dialog.go).  INVITE i arrives at the ingress and makes the A     *)
(* dialog; the egress calls on for it and makes the B dialog.  Two INVITEs  *)
(* may have one Call-ID: a new attempt of the caller, or a re-INVITE within *)
(* a dialog it has, which the code treats as a new call.                    *)
(*                                                                          *)
(* Caller and callee are the environment.  They send the requests of a      *)
(* dialog in ascending order of CSeq; the network loses and reorders them,  *)
(* and the transaction layer hands each one over once.  A response may be   *)
(* read from the events channel at any time, also while the Run goroutine   *)
(* that put it there is busy.  ACK and CANCEL change nothing here.          *)
EXTENDS Dialog, FiniteSets

CONSTANTS Inv,       \* INVITEs that arrive at the ingress
          Call,      \* Call-IDs of the callers
          Own,       \* host of the two user agents, as in the request URI
          Other,     \* host of the callee, and of any other source
          MaxSeq,    \* MaxSeq[u]: highest CSeq of a request within a dialog of u
          None

Host == {Own, Other}
Tag == Inv \cup {"peer"}

ASSUME B2BUAAssumption ==
  /\ IsFiniteSet(Inv)
  /\ MaxSeq \in [{"in", "out"} -> Nat]
  /\ None \notin Inv \cup Call \cup DialogType(Inv, Tag, Host)
  /\ NoTag # "peer"
  /\ NoHost \notin {Own, Other}

Side == {"in", "out"}
Seqs(u) == 2..MaxSeq[u]

\* What the callee sends: the class of its status and, if it has them, the tag
\* and the contact.  Of a 2xx neither is demanded.
Response ==
  [class: {"1xx", "200", "2xx", "fail"}, tag: {NoTag, "peer"}, contact: {NoHost, Other}]

VARIABLES
  callID,     \* callID[i]: of the INVITE, None before it arrives
  within,     \* within[i]: the INVITE whose dialog i is a re-INVITE of, or None
  pc,         \* pc[i]: the goroutine handleIngressInvite starts
  dlg,        \* dlg[u][i]: the dialog user agent u has for i
  table,      \* table[u]: its dialog table
  final,      \* final[i]: what pump left in the session before it closed Done
  pumping,    \* the sessions whose pump goroutine is reading
  acked,      \* the sessions whose 200 was acknowledged
  answered,   \* answered[i]: the final response handed to the INVITE's ServerTx
  sessions,   \* sessions[c]: the INVITE whose session is stored under c
  media,      \* the INVITEs whose media b.relay carries; the calls share it
  stage,      \* history: stage[i] is "new" until the session is stored, and
              \* "taken" after handleLegBye took it out
  run,        \* run[u]: where the Run goroutine of u is within handleBye
  reply,      \* reply[u][i][s]: the answer to request s within the dialog
  missed      \* the INVITEs whose BYE came before their session was stored

vars == <<callID, within, pc, dlg, table, final, pumping, acked, answered, sessions,
          media, stage, run, reply, missed>>

Idle == [at |-> "idle", inv |-> None, attempt |-> 0]

\* Mutant: the leg that hung up is hung up on.
PeerSelf(u) == u

\* The user agent that handleLegBye hangs up with.
Peer(u) == IF u = "in" THEN "out" ELSE "in"

Init ==
  /\ callID = [i \in Inv |-> None]
  /\ within = [i \in Inv |-> None]
  /\ pc = [i \in Inv |-> "none"]
  /\ dlg = [u \in Side |-> [i \in Inv |-> None]]
  /\ table = [u \in Side |-> {}]
  /\ final = [i \in Inv |-> "none"]
  /\ pumping = {}
  /\ acked = {}
  /\ answered = [i \in Inv |-> "none"]
  /\ sessions = [c \in Call |-> None]
  /\ media = {}
  /\ stage = [i \in Inv |-> "new"]
  /\ run = [u \in Side |-> Idle]
  /\ reply = [u \in Side |-> [i \in Inv |-> [s \in Seqs(u) |-> "none"]]]
  /\ missed = {}

-----------------------------------------------------------------------------
(* The ingress takes an INVITE: handleInvite, then handleIngressInvite.      *)

NewALeg(i, c) ==
  NewServerDialog([callID |-> c, fromTag |-> "peer", from |-> Other,
                   uri |-> Own, seq |-> 1], i)

\* UA.Invite of the egress: a Call-ID and a tag of its own, and pump.
Invite(i) == NewClientDialog(i, i, Other)

\* Mutant: nothing is sent.
RespondNothing(i, code) == UNCHANGED answered

Respond(i, code) == answered' = [answered EXCEPT ![i] = code]

\* INVITE i comes in with Call-ID c, w # None for a re-INVITE.  handleInvite
\* does not look for a dialog: every INVITE gets a new tag and a new A leg.
RecvInvite(i, c, w) ==
  /\ run["in"] = Idle
  /\ callID[i] = None
  /\ w # None => answered[w] = "200" /\ callID[w] = c /\ within[w] = None
  /\ callID' = [callID EXCEPT ![i] = c]
  /\ within' = [within EXCEPT ![i] = w]

\* No route, a failing route function, or a request that cannot be sent.
RefuseInvite(i, c, w) ==
  /\ RecvInvite(i, c, w)
  /\ Respond(i, "refused")
  /\ dlg' = [dlg EXCEPT !["in"][i] = NewALeg(i, c)]
  /\ table' = [table EXCEPT !["in"] = Add(@, NewALeg(i, c), i)]
  /\ pc' = [pc EXCEPT ![i] = "done"]
  /\ UNCHANGED <<final, pumping, acked, sessions, media, stage, run, reply, missed>>

BridgeInvite(i, c, w) ==
  /\ RecvInvite(i, c, w)
  /\ dlg' = [dlg EXCEPT !["in"][i] = NewALeg(i, c), !["out"][i] = Invite(i)]
  /\ table' = [table EXCEPT !["in"] = Add(@, NewALeg(i, c), i),
                            !["out"] = Add(@, Invite(i), i)]
  /\ pumping' = pumping \cup {i}
  /\ pc' = [pc EXCEPT ![i] = "wait"]
  /\ UNCHANGED <<final, acked, answered, sessions, media, stage, run, reply, missed>>

-----------------------------------------------------------------------------
(* pump: one event of the egress transaction.                               *)

PumpError(i) ==
  /\ i \in pumping
  /\ final' = [final EXCEPT ![i] = "err"]
  /\ pumping' = pumping \ {i}
  /\ UNCHANGED <<callID, within, pc, dlg, table, acked, answered, sessions, media, stage,
                 run, reply, missed>>

PumpResponse(i, r) ==
  LET d == updateFromResponse(dlg["out"][i], r)
  IN /\ i \in pumping
     /\ \/ /\ r.class = "1xx"
           /\ dlg' = [dlg EXCEPT !["out"][i] = d]
           /\ UNCHANGED <<table, final, pumping>>
        \/ /\ r.class = "fail"
           /\ dlg' = [dlg EXCEPT !["out"][i] = Terminate(d)]
           /\ table' = [table EXCEPT !["out"] = Remove(@, d)]
           /\ final' = [final EXCEPT ![i] = "fail"]
           /\ pumping' = pumping \ {i}
        \/ /\ r.class \in {"200", "2xx"}
           /\ dlg' = [dlg EXCEPT !["out"][i] = Confirm(d)]
           /\ final' = [final EXCEPT ![i] = r.class]
           /\ pumping' = pumping \ {i}
           /\ UNCHANGED table
     /\ UNCHANGED <<callID, within, pc, acked, answered, sessions, media, stage, run, reply,
                    missed>>

-----------------------------------------------------------------------------
(* The goroutine of handleIngressInvite.                                    *)

\* WaitResponse returns an error or a failure: pass it on.
WaitFailed(i) ==
  /\ pc[i] = "wait"
  /\ final[i] \in {"err", "fail"}
  /\ Respond(i, "refused")
  /\ pc' = [pc EXCEPT ![i] = "done"]
  /\ UNCHANGED <<callID, within, dlg, table, final, pumping, acked, sessions, media, stage,
                 run, reply, missed>>

\* Sixty seconds have passed; the call that goes on is left to itself.
WaitTimeout(i) ==
  /\ pc[i] = "wait"
  /\ Respond(i, "timeout")
  /\ pc' = [pc EXCEPT ![i] = "done"]
  /\ UNCHANGED <<callID, within, dlg, table, final, pumping, acked, sessions, media, stage,
                 run, reply, missed>>

\* Ack, for a 200 only.
Ack(i) == IF final[i] = "200" THEN acked \cup {i} ELSE acked

WaitAnswered(i) ==
  /\ pc[i] = "wait"
  /\ final[i] \in {"200", "2xx"}
  /\ acked' = Ack(i)
  /\ pc' = [pc EXCEPT ![i] = "answer"]
  /\ UNCHANGED <<callID, within, dlg, table, final, pumping, answered, sessions, media, stage,
                 run, reply, missed>>

\* Respond with 200 on the A leg; an error ends the goroutine, though the
\* transaction keeps the 200 and sends it again for a retransmitted INVITE.
Answer(i) ==
  /\ pc[i] = "answer"
  /\ Respond(i, "200")
  /\ \E next \in {"relay", "done"} : pc' = [pc EXCEPT ![i] = next]
  /\ UNCHANGED <<callID, within, dlg, table, final, pumping, acked, sessions, media, stage, run,
                 reply, missed>>

\* Mutant: a relay that runs is not started again.
StartOnce(i) == IF media = {} THEN {i} ELSE media

Started(i) == media \cup {i}

\* b.relay.Start, which takes no lock.
StartRelay(i) ==
  /\ pc[i] = "relay"
  /\ media' = Started(i)
  /\ pc' = [pc EXCEPT ![i] = "insert"]
  /\ UNCHANGED <<callID, within, dlg, table, final, pumping, acked, answered, sessions,
                 stage, run, reply, missed>>

\* The session goes into the table under the Call-ID.
InsertSession(i) ==
  /\ pc[i] = "insert"
  /\ sessions' = [sessions EXCEPT ![callID[i]] = i]
  /\ stage' = [stage EXCEPT ![i] = "stored"]
  /\ pc' = [pc EXCEPT ![i] = "done"]
  /\ UNCHANGED <<callID, within, dlg, table, final, pumping, acked, answered, media, run,
                 reply, missed>>

-----------------------------------------------------------------------------
(* A request within a dialog, on the Run goroutine of user agent u.          *)

\* The Call-ID and the tags that the peer of leg i puts into its requests.
LegKey(u, i) == <<IF u = "in" THEN callID[i] ELSE i, i, "peer">>

\* The caller has a dialog once it has its 200, the callee once it is called.
\* The 200 to a re-INVITE has the tag of the dialog it came in: its own A leg
\* is known to nobody.
CanRequest(u, i) ==
  IF u = "in" THEN answered[i] = "200" /\ within[i] = None
  ELSE dlg["out"][i] # None

Found(u, i) == Get(table[u], LegKey(u, i)[1], LegKey(u, i)[2], LegKey(u, i)[3])

\* findDialog records the CSeq before anything is checked.
Seen(u, i, s) ==
  [j \in Inv |-> IF j \in Found(u, i) THEN updateFromRequest(dlg[u][j], s)
                 ELSE dlg[u][j]]

\* handleRequest for a method the B2BUA has no callback for: 501.
RecvInfo(u, i, s) ==
  /\ run[u] = Idle
  /\ CanRequest(u, i)
  /\ reply[u][i][s] = "none"
  /\ dlg' = [dlg EXCEPT ![u] = Seen(u, i, s)]
  /\ reply' = [reply EXCEPT ![u][i][s] = "501"]
  /\ UNCHANGED <<callID, within, pc, table, final, pumping, acked, answered, sessions,
                 media, stage, run, missed>>

\* Mutant: the number of the request itself counts as a later one.
OvertakenBySelf(d, s) == s <= d.remoteSeq

Overtaken(d, s) == s < d.remoteSeq

ByeCode(u, i, s, src) ==
  CASE Found(u, i) = {} -> "481"
    [] \E j \in Found(u, i) : ~dialogSourceAllowed(dlg[u][j], src) -> "403"
    [] \E j \in Found(u, i) : Overtaken(Seen(u, i, s)[j], s) -> "500"
    [] OTHER -> "200"

\* handleBye; an accepted BYE goes on to OnBye, which is handleLegBye.
RecvBye(u, i, s, src) ==
  LET code == ByeCode(u, i, s, src)
  IN /\ run[u] = Idle
     /\ CanRequest(u, i)
     /\ reply[u][i][s] = "none"
     /\ reply' = [reply EXCEPT ![u][i][s] = code]
     /\ IF code = "200"
        THEN \E j \in Found(u, i) :
               /\ dlg' = [dlg EXCEPT ![u] = [Seen(u, i, s) EXCEPT ![j] = Terminate(@)]]
               /\ table' = [table EXCEPT ![u] = Remove(@, dlg[u][j])]
               /\ run' = [run EXCEPT ![u] = [at |-> "bye", inv |-> j, attempt |-> 0]]
        ELSE /\ dlg' = [dlg EXCEPT ![u] = Seen(u, i, s)]
             /\ UNCHANGED <<table, run>>
     /\ UNCHANGED <<callID, within, pc, final, pumping, acked, answered, sessions,
                    media, stage, missed>>

-----------------------------------------------------------------------------
(* handleLegBye and the Hangup of the other leg, on the same goroutine.      *)

\* Mutant: only the B leg is compared.
LegSessionsOfB(u, i) == {c \in Call : u = "out" /\ sessions[c] = i}

\* The entries whose A leg or B leg is the dialog.
LegSessions(u, i) == {c \in Call : sessions[c] = i}

\* Take the session out; without one there is nothing to do.
LegBye(u) ==
  LET i == run[u].inv
  IN /\ run[u].at = "bye"
     /\ \/ /\ LegSessions(u, i) # {}
           /\ sessions' = [c \in Call |-> IF c \in LegSessions(u, i) THEN None ELSE sessions[c]]
           /\ stage' = [stage EXCEPT ![i] = "taken"]
           /\ run' = [run EXCEPT ![u].at = "stop"]
           /\ UNCHANGED missed
        \/ /\ LegSessions(u, i) = {}
           /\ run' = [run EXCEPT ![u] = Idle]
           /\ missed' = IF stage[i] = "new" THEN missed \cup {i} ELSE missed
           /\ UNCHANGED <<sessions, stage>>
     /\ UNCHANGED <<callID, within, pc, dlg, table, final, pumping, acked, answered, media,
                    reply>>

\* b.relay.Stop, which names no session: the media of every call stop.  Then
\* the other leg is hung up, unless it is over.
StopRelay(u) ==
  LET i == run[u].inv
  IN /\ run[u].at = "stop"
     /\ media' = {}
     /\ run' = [run EXCEPT ![u] =
                  IF dlg[Peer(u)][i].state = "terminated" THEN Idle
                  ELSE [at |-> "hangup", inv |-> i, attempt |-> 1]]
     /\ UNCHANGED <<callID, within, pc, dlg, table, final, pumping, acked, answered,
                    sessions, stage, reply, missed>>

\* One attempt of Hangup: CreateRequest and the send, either of which may fail.
HangupSend(u) ==
  LET i == run[u].inv
      d == dlg[Peer(u)][i]
  IN /\ run[u].at = "hangup"
     /\ \/ /\ CanCreateRequest(d)
           /\ dlg' = [dlg EXCEPT ![Peer(u)][i] = CreateRequest(d)]
           /\ \/ run' = [run EXCEPT ![u].at = "wait"]
              \/ run' = [run EXCEPT ![u] = Idle]
        \/ /\ ~CanCreateRequest(d)
           /\ run' = [run EXCEPT ![u] = Idle]
           /\ UNCHANGED dlg
     /\ UNCHANGED <<callID, within, pc, table, final, pumping, acked, answered,
                    sessions, media, stage, reply, missed>>

\* Mutant: one attempt more.
RetryOnceMore(attempt) == attempt <= 3

Retry(attempt) == attempt < 3

\* sendAndWait: a final response, an error or the deadline.  A 491 is tried
\* again until the third attempt; no other answer leaves the dialog alive.
HangupWait(u) ==
  LET i == run[u].inv
  IN /\ run[u].at = "wait"
     /\ \/ /\ dlg' = [dlg EXCEPT ![Peer(u)][i] = Terminate(@)]
           /\ run' = [run EXCEPT ![u] = Idle]
        \/ /\ run' = [run EXCEPT ![u] =
                        IF Retry(run[u].attempt)
                        THEN [at |-> "hangup", inv |-> i, attempt |-> run[u].attempt + 1]
                        ELSE Idle]
           /\ UNCHANGED dlg
        \/ /\ run' = [run EXCEPT ![u] = Idle]
           /\ UNCHANGED dlg
     /\ UNCHANGED <<callID, within, pc, table, final, pumping, acked, answered,
                    sessions, media, stage, reply, missed>>

-----------------------------------------------------------------------------

Goroutine(i) ==
  \/ WaitFailed(i)
  \/ WaitTimeout(i)
  \/ WaitAnswered(i)
  \/ Answer(i)
  \/ StartRelay(i)
  \/ InsertSession(i)

RunStep(u) == LegBye(u) \/ StopRelay(u) \/ HangupSend(u) \/ HangupWait(u)

Next ==
  \/ \E i \in Inv, c \in Call, w \in Inv \cup {None} :
       RefuseInvite(i, c, w) \/ BridgeInvite(i, c, w)
  \/ \E i \in Inv : PumpError(i) \/ Goroutine(i)
  \/ \E i \in Inv, r \in Response : PumpResponse(i, r)
  \/ \E u \in Side, i \in Inv : \E s \in Seqs(u) :
       \/ RecvInfo(u, i, s)
       \/ \E src \in Host : RecvBye(u, i, s, src)
  \/ \E u \in Side : RunStep(u)

Spec == Init /\ [][Next]_vars

\* The goroutines run and the timers of WaitResponse and sendAndWait fire.
FairSpec ==
  /\ Spec
  /\ \A i \in Inv : WF_vars(Goroutine(i))
  /\ \A u \in Side : WF_vars(RunStep(u))

-----------------------------------------------------------------------------

\* Every variable has its type.
TypeOK ==
  /\ callID \in [Inv -> Call \cup {None}]
  /\ within \in [Inv -> Inv \cup {None}]
  /\ pc \in [Inv -> {"none", "wait", "answer", "relay", "insert", "done"}]
  /\ \A i \in Inv :
       /\ dlg["in"][i] \in DialogType(Call, Tag, Host) \cup {None}
       /\ dlg["out"][i] \in DialogType(Inv, Tag, Host) \cup {None}
  /\ table["in"] \subseteq DialogID(Call, Tag) \X Inv
  /\ table["out"] \subseteq DialogID(Inv, Tag) \X Inv
  /\ final \in [Inv -> {"none", "err", "fail", "200", "2xx"}]
  /\ pumping \subseteq Inv /\ acked \subseteq Inv /\ missed \subseteq Inv
  /\ answered \in [Inv -> {"none", "refused", "timeout", "200"}]
  /\ sessions \in [Call -> Inv \cup {None}]
  /\ media \subseteq Inv
  /\ stage \in [Inv -> {"new", "stored", "taken"}]
  /\ run \in [Side -> [at: {"idle", "bye", "stop", "hangup", "wait"},
                       inv: Inv \cup {None}, attempt: 0..3]]
  /\ \A u \in Side :
       reply[u] \in [Inv -> [Seqs(u) -> {"none", "200", "403", "481", "500", "501"}]]

\* One BYE at most is accepted on a leg, however many the peer sends and in
\* whatever order they come: handleBye takes the dialog out of the table.
ByeOnce ==
  \A u \in Side, i \in Inv : \A s, t \in Seqs(u) :
    reply[u][i][s] = "200" /\ reply[u][i][t] = "200" => s = t

\* handleBye refuses a BYE with 500 only if a later request within the dialog
\* was handled before it: findDialog has raised the number it compares with.
OvertakenOnly ==
  \A u \in Side, i \in Inv : \A s \in Seqs(u) :
    reply[u][i][s] = "500" => \E t \in Seqs(u) : t > s /\ reply[u][i][t] # "none"

SharedCall(i) == \E j \in Inv \ {i} : callID[j] = callID[i] /\ stage[j] # "new"

\* Once handleBye is through with the caller's BYE the callee was told, with two
\* exceptions: the BYE came before the session was stored, which it never is if
\* the 200 could not be sent, or another INVITE of the Call-ID took its place in
\* the table.
HangupReachesPeer ==
  \A i \in Inv :
    /\ dlg["in"][i] # None
    /\ dlg["in"][i].state = "terminated"
    /\ run["in"].inv # i
    /\ dlg["out"][i].state = "confirmed"
    /\ dlg["out"][i].localSeq = 1
    => i \in missed \/ SharedCall(i)

Over == {i \in Inv : callID[i] # None /\ dlg["in"][i].state = "terminated"}

\* A B leg counts the requests within it; the INVITE is the first.
Byes ==
  [i \in Inv |-> IF dlg["out"][i] = None THEN 0 ELSE dlg["out"][i].localSeq - 1]

T == INSTANCE Bridge WITH
       Refusal <- {"refused", "timeout"}, Attempts <- 3, answer <- answered,
       over <- Over, busy <- run["in"].inv, byes <- Byes

\* A call is taken up and down in order: one answer, media only after a 200,
\* and, for one call at a time, the BYE of the caller, the end of the media, and
\* three BYEs to the callee at most over all the retries.
InOrder == T!Spec

\* A bridged call is without media only after another call was hung up: the
\* relay is started before the session can be found, and what a BYE stops is
\* the one relay of all the calls.
MediaLostToOther ==
  \A c \in Call : sessions[c] # None /\ sessions[c] \notin media =>
    \E j \in Inv \ {sessions[c]} : stage[j] = "taken"

\* Every INVITE is answered: handleIngressInvite waits sixty seconds at most.
InviteAnswered == \A i \in Inv : callID[i] # None ~> answered[i] # "none"

\* An accepted BYE ends the caller's session, unless it came too early.
ByeEndsSession ==
  \A i \in Inv, c \in Call :
    run["in"].inv = i /\ sessions[c] = i ~> sessions[c] # i /\ run["in"] = Idle
=============================================================================
