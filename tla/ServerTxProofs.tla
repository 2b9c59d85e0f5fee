--------------------------- MODULE ServerTxProofs ---------------------------
(***************************************************************************)
(* Proofs about the server transactions, for every number of transaction   *)
(* objects, branches, sources, status codes and goroutines that respond.   *)
(***************************************************************************)
EXTENDS ServerTx, TLAPS

-----------------------------------------------------------------------------
(* The inductive invariant *)

\* An object that does not exist yet is blank; the map holds objects under
\* their own keys.
KeyInv ==
  /\ \A o \in Obj :
       key[o] = None =>
         /\ state[o] = "Idle"
         /\ \A f \in Finisher : fin[o][f] = "none"
  /\ \A k \in Key : txs[k] # None => key[txs[k]] = k

\* The final response is recorded before anyone sends it.
FinalInv ==
  /\ \A o \in Obj :
       /\ final[o] # None <=> state[o] \in {"Completed", "Confirmed"}
       /\ wire[o] \subseteq {final[o]}
       /\ loop[o] # "none" => final[o] # None
  /\ run # Idle => key[run.tx] # None
  /\ run # Idle /\ run.pc = "resend" => final[run.tx] # None

\* Goroutine r is past the critical section of Respond with a final response
\* for o: it is the only one, and has scheduled nothing yet.
Sending(r, o) == resp[r] # Idle /\ resp[r].tx = o /\ resp[r].code \in Final

RespInv ==
  \A r \in Responder, o \in Obj :
    Sending(r, o) =>
      /\ key[o] # None
      /\ final[o] = resp[r].code
      /\ loop[o] = "none"
      /\ fin[o]["timerJ"] = "none"
      /\ \A q \in Responder : Sending(q, o) => q = r

\* The loop looks at the state before every send, so it errs once.
LateInv ==
  \A o \in Obj :
    /\ lateResends[o] <= 1
    /\ loop[o] \in {"none", "resend"} => lateResends[o] = 0
    /\ lateResends[o] = 1 => state[o] = "Confirmed"

CallsInv ==
  \A k \in Key : calls[k] = removed[k] + (IF txs[k] = None THEN 0 ELSE 1)

\* Only the ACK brings a second finish.
FinInv ==
  \A o \in Obj :
    /\ fin[o]["ack"] # "none" => state[o] = "Confirmed"
    /\ fin[o]["timerJ"] # "none" => final[o] # None
    /\ terminated[o] => \E f \in Finisher : fin[o][f] = "done"

\* No finish of the transaction has run.
Alive(o) == key[o] # None /\ \A f \in Finisher : fin[o][f] \in {"none", "due"}

Outlived(o) ==
  \E u \in Obj : key[u] = key[o] /\ state[u] = "Confirmed" /\ ~Alive(u)

RegInv == \A o \in Obj : Alive(o) => txs[key[o]] = o \/ Outlived(o)

CrashInv == crashed => \E o \in Obj : state[o] = "Confirmed"

IInv == /\ TypeOK /\ KeyInv /\ FinalInv /\ RespInv /\ LateInv /\ CallsInv
        /\ FinInv /\ RegInv /\ CrashInv

-----------------------------------------------------------------------------
(* What the larger steps do *)

USE DEF Unregistered, AckedState, Open, Unanswered, Unacked

\* An INVITE's key is a key.
LEMMA InviteKeyType == \A b \in Branch : InviteKey(b) \in Key
  BY Zenon DEF InviteKey, Key, Method

\* None is no key.
LEMMA NoneIsNoKey == \A k \in Key : k # None
  BY ServerTxAssumption, Zenon DEF Key, Method

\* What a request does to the object it creates.
Created(k, o) ==
  /\ state[o] = "Idle" /\ final[o] = None /\ loop[o] = "none" /\ key[o] = None
  /\ \A f \in Finisher : fin[o][f] = "none"
  /\ state'[o] = "Proceeding" /\ key'[o] = k /\ k # None
  /\ txs[k] = None /\ txs'[k] = o /\ run = Idle
  /\ \A u \in Obj \ {o} : state'[u] = state[u] /\ key'[u] = key[u]
  /\ \A j \in Key \ {k} : txs'[j] = txs[j]
  /\ UNCHANGED <<final, loop, fin, stop, terminated, crashed, run, resp, wire,
                 removed, lateResends>>

\* What the first final response does to its object.
Answered(o, c) ==
  /\ key[o] # None /\ final[o] = None /\ final'[o] = c /\ c # None
  /\ state[o] \notin {"Completed", "Confirmed"} /\ state'[o] = "Completed"
  /\ loop[o] = "none"
  /\ \A u \in Obj \ {o} : state'[u] = state[u] /\ final'[u] = final[u]
  /\ UNCHANGED <<txs, key, loop, fin, stop, terminated, crashed, run, wire, removed,
                 calls, lateResends>>

\* A request creates an object that was blank.
LEMMA NewObject ==
  ASSUME TypeOK, KeyInv, FinalInv, RespInv, NEW k \in Key, NEW p \in Peer,
         NEW o \in Obj, NewRequest(k, p, o)
  PROVE  Created(k, o)
<1>1. /\ txs \in [Key -> Obj \cup {None}] /\ key \in [Obj -> Key \cup {None}]
      /\ state \in [Obj -> {"Idle", "Proceeding", "Completed", "Confirmed"}]
  BY Zenon DEF TypeOK
<1>2. key[o] = None /\ txs[k] = None /\ run = Idle
  BY Zenon DEF NewRequest, Unregistered
<1>3. state[o] = "Idle" /\ \A f \in Finisher : fin[o][f] = "none"
  BY <1>2, Zenon DEF KeyInv
<1>4. final[o] = None
  BY <1>3, Zenon DEF FinalInv
<1>5. loop[o] = "none"
  BY <1>4, Zenon DEF FinalInv
<1>6. k # None
  BY NoneIsNoKey, Zenon
<1>7. UNCHANGED <<final, loop, fin, stop, terminated, crashed, run, resp, wire,
                 removed, lateResends>>
  BY Zenon DEF NewRequest, finVars
<1>8. /\ state'[o] = "Proceeding" /\ key'[o] = k /\ txs'[k] = o
      /\ \A u \in Obj \ {o} : state'[u] = state[u] /\ key'[u] = key[u]
      /\ \A j \in Key \ {k} : txs'[j] = txs[j]
  BY <1>1, Zenon DEF NewRequest
<1> QED
  BY <1>2, <1>3, <1>4, <1>5, <1>6, <1>7, <1>8, Zenon DEF Created

\* The first final response of an object.
LEMMA NewFinal ==
  ASSUME TypeOK, KeyInv, FinalInv, NEW r \in Responder, NEW o \in Obj,
         NEW c \in Final, RespondFinal(r, o, c)
  PROVE  Answered(o, c)
<1>1. /\ final \in [Obj -> Final \cup {None}]
      /\ state \in [Obj -> {"Idle", "Proceeding", "Completed", "Confirmed"}]
  BY Zenon DEF TypeOK
<1>2. key[o] # None /\ final[o] = None
  BY Zenon DEF RespondFinal, Unanswered
<1>3. state[o] \notin {"Completed", "Confirmed"} /\ loop[o] = "none"
  BY <1>2, Zenon DEF FinalInv
<1>4. c # None
  BY ServerTxAssumption, Zenon
<1>5. UNCHANGED <<txs, key, loop, fin, stop, terminated, crashed, run, wire, removed,
                 calls, lateResends>>
  BY Zenon DEF RespondFinal, finVars, history
<1>6. /\ final'[o] = c /\ state'[o] = "Completed"
      /\ \A u \in Obj \ {o} : state'[u] = state[u] /\ final'[u] = final[u]
  BY <1>1, Zenon DEF RespondFinal
<1> QED
  BY <1>2, <1>3, <1>4, <1>5, <1>6, Zenon DEF Answered

-----------------------------------------------------------------------------
(* Every conjunct of the invariant is preserved *)

\* What a goroutine that is about to send a final response holds.
LEMMA SendHolds ==
  ASSUME NEW r \in Responder, NEW o \in Obj, NEW c \in Final,
         resp[r] = [pc |-> "send", tx |-> o, code |-> c]
  PROVE  resp[r] # Idle /\ resp[r].tx = o /\ resp[r].code = c /\ Sending(r, o)
  BY DEF Idle, Sending

\* A step that confirms transactions, and changes neither the registry nor a
\* finish, keeps the registry's invariant.
LEMMA RegConfirms ==
  ASSUME RegInv, UNCHANGED <<key, fin, txs>>,
         \A u \in Obj : state[u] = "Confirmed" => state'[u] = "Confirmed"
  PROVE  RegInv'
<1>1. ASSUME NEW u \in Obj PROVE Alive(u)' <=> Alive(u)
  BY Zenon DEF Alive
<1>2. ASSUME NEW u \in Obj, Outlived(u) PROVE Outlived(u)'
  BY <1>1, <1>2, Zenon DEF Outlived
<1> QED
  BY <1>1, <1>2, Zenon DEF RegInv

\* A step that leaves the responders alone, starts no loop and arms no timer J
\* keeps what is known of them.
LEMMA RespKept ==
  ASSUME RespInv, UNCHANGED <<resp, key, final>>,
         \A u \in Obj : /\ fin[u]["timerJ"] = "none" => fin'[u]["timerJ"] = "none"
                        /\ loop[u] = "none" => loop'[u] = "none"
  PROVE  RespInv'
  BY DEF RespInv, Sending

\* A step that runs no finish, and takes back neither an ACK nor a final
\* response, keeps what is known of the ends.
LEMMA FinKept ==
  ASSUME FinInv, UNCHANGED <<fin, terminated>>,
         \A u \in Obj : /\ state[u] = "Confirmed" => state'[u] = "Confirmed"
                        /\ final[u] # None => final'[u] # None
  PROVE  FinInv'
  BY DEF FinInv

\* A step that touches neither the registry nor an end keeps the registry's invariant.
LEMMA RegKept ==
  ASSUME RegInv, UNCHANGED <<key, fin, txs, state>>
  PROVE  RegInv'
  BY DEF RegInv, Alive, Outlived

\* The program's state keeps its types.
LEMMA TypeStep ==
  ASSUME TypeOK, FinalInv, [Next]_vars
  PROVE  TypeOK'
<1> USE DEF finVars, history
<1>1. ASSUME NEW k \in Key, NEW p \in Peer, NEW o \in Obj, NewRequest(k, p, o)
  PROVE TypeOK'
  BY <1>1 DEF NewRequest, TypeOK
<1>2. ASSUME NEW k \in Key, NEW p \in Peer, KnownRequest(k, p) PROVE TypeOK'
  BY <1>2, Zenon DEF KnownRequest, RunWork, TypeOK
<1>3. ASSUME NEW b \in Branch, Ack(b) PROVE TypeOK'
  <2>1. txs[InviteKey(b)] \in Obj
    BY <1>3, InviteKeyType DEF Ack, TypeOK
  <2> QED
    BY <1>3, <2>1, Zenon DEF Ack, RunWork, TypeOK
<1>4. ASSUME NEW o \in Obj, receiveRetransmission(o) PROVE TypeOK'
  BY <1>4, ZenonT(30) DEF receiveRetransmission, RunWork, TypeOK
<1>5. ASSUME NEW o \in Obj, ResendFinal(o) PROVE TypeOK'
  <2>1. run # Idle /\ run.pc = "resend" /\ run.tx = o
    BY <1>5, Zenon DEF ResendFinal, Idle, TypeOK
  <2>2. final[o] \in Final
    BY <2>1, ZenonT(30) DEF FinalInv, TypeOK
  <2>3. wire' \in [Obj -> SUBSET Final]
    BY <1>5, <2>2 DEF ResendFinal, TypeOK
  <2> QED
    BY <1>5, <2>3, Zenon DEF ResendFinal, TypeOK
<1>6. ASSUME NEW o \in Obj, receiveACK(o) PROVE TypeOK'
  <2>1. state' \in [Obj -> {"Idle", "Proceeding", "Completed", "Confirmed"}]
    <3>1. state \in [Obj -> {"Idle", "Proceeding", "Completed", "Confirmed"}]
      BY Zenon DEF TypeOK
    <3>2. state' = [state EXCEPT ![o] = "Confirmed"] \/ state' = state
      BY <1>6, Zenon DEF receiveACK
    <3> QED
      BY <3>1, <3>2, Zenon
  <2>2. fin' \in [Obj -> [Finisher -> FinPhase]]
    <3>1. CASE IsInvite(o) /\ state[o] = "Completed"
      <4>1. fin' = [fin EXCEPT ![o]["ack"] = "due"]
        BY <1>6, <3>1, Zenon DEF receiveACK
      <4>2. "ack" \in Finisher /\ "due" \in FinPhase
        BY Zenon DEF Finisher, FinPhase
      <4>3. fin \in [Obj -> [Finisher -> FinPhase]]
        BY Zenon DEF TypeOK
      <4> QED
        BY <4>1, <4>2, <4>3, Zenon
    <3>2. CASE ~(IsInvite(o) /\ state[o] = "Completed")
      BY <1>6, <3>2, Zenon DEF receiveACK, TypeOK
    <3> QED
      BY <3>1, <3>2, Zenon DEF TypeOK
  <2> QED
    BY <1>6, <2>1, <2>2, Zenon DEF receiveACK, TypeOK
<1>7. ASSUME NEW r \in Responder, NEW o \in Obj, RespondProvisional(r, o)
  PROVE TypeOK'
  BY <1>7, ZenonT(30) DEF RespondProvisional, RespWork, TypeOK
<1>8. ASSUME NEW r \in Responder, NEW o \in Obj, NEW c \in Final,
        RespondFinal(r, o, c)
  PROVE TypeOK'
  BY <1>8, ZenonT(30) DEF RespondFinal, RespWork, TypeOK
<1>9. ASSUME NEW r \in Responder, NEW o \in Obj, SendProvisional(r, o)
  PROVE TypeOK'
  BY <1>9, Zenon DEF SendProvisional, TypeOK
<1>10. ASSUME NEW r \in Responder, NEW o \in Obj, NEW c \in Final,
        SendFinal(r, o, c)
  PROVE TypeOK'
  BY <1>10, ZenonT(30) DEF SendFinal, RespWork, TypeOK
<1>11. ASSUME NEW r \in Responder, NEW o \in Obj, NEW c \in Final,
        SendFinalFails(r, o, c)
  PROVE TypeOK'
  <2>1. [pc |-> "schedule", tx |-> o, code |-> c] \in RespWork
    BY Zenon DEF RespWork, TypeOK
  <2>2. resp' \in [Responder -> {Idle} \cup RespWork]
    BY <1>11, <2>1, Zenon DEF SendFinalFails, TypeOK
  <2>3. IsInvite(o) \in BOOLEAN
    BY Zenon DEF IsInvite, TypeOK
  <2>4. sendFailed' \in [Obj -> BOOLEAN]
    BY <1>11, <2>3, Zenon DEF SendFinalFails, TypeOK
  <2> QED
    BY <1>11, <2>2, <2>4, Zenon DEF SendFinalFails, TypeOK
<1>12. ASSUME NEW r \in Responder, NEW o \in Obj, NEW c \in Final,
        Schedule(r, o, c)
  PROVE TypeOK'
  <2>1. loop' \in [Obj -> {"none", "wait", "resend", "exit"}]
    BY <1>12, Zenon DEF Schedule, Select, TypeOK
  <2>2. fin' \in [Obj -> [Finisher -> FinPhase]]
    <3>1. fin \in [Obj -> [Finisher -> FinPhase]]
      BY Zenon DEF TypeOK
    <3>2. fin' = [fin EXCEPT ![o]["timerJ"] = "due"]
      BY <1>12, Zenon DEF Schedule
    <3>3. "timerJ" \in Finisher /\ "due" \in FinPhase
      BY Zenon DEF Finisher, FinPhase
    <3> QED
      BY <3>1, <3>2, <3>3, Zenon
  <2> QED
    BY <1>12, <2>1, <2>2, Zenon DEF Schedule, TypeOK
<1>13. ASSUME NEW o \in Obj, LoopStop(o) PROVE TypeOK'
  BY <1>13, Zenon DEF LoopStop, TypeOK
<1>14. ASSUME NEW o \in Obj, LoopWake(o) PROVE TypeOK'
  BY <1>14, Zenon DEF LoopWake, TypeOK
<1>15. ASSUME NEW o \in Obj, LoopResend(o) PROVE TypeOK'
  <2>1. final[o] \in Final
    BY <1>15, Zenon DEF LoopResend, FinalInv, TypeOK
  <2>2. wire' \in [Obj -> SUBSET Final]
    BY <1>15, <2>1 DEF LoopResend, TypeOK
  <2>3. loop' \in [Obj -> {"none", "wait", "resend", "exit"}]
    BY <1>15, Zenon DEF LoopResend, Select, TypeOK
  <2>4. lateResends' \in [Obj -> Nat]
    BY <1>15 DEF LoopResend, TypeOK
  <2> QED
    BY <1>15, <2>2, <2>3, <2>4, Zenon DEF LoopResend, TypeOK
<1>16. ASSUME NEW o \in Obj, NEW f \in Finisher, FinishRemove(o, f)
  PROVE TypeOK'
  <2>1. txs' \in [Key -> Obj \cup {None}]
    <3>1. txs \in [Key -> Obj \cup {None}] /\ txs' = [txs EXCEPT ![key[o]] = None]
      BY <1>16, Zenon DEF FinishRemove, TypeOK
    <3> QED
      BY <3>1, Zenon
  <2>2. removed' \in [Key -> Nat]
    <3>1. /\ removed \in [Key -> Nat]
          /\ removed' = [removed EXCEPT ![key[o]] =
                           IF txs[key[o]] = None THEN removed[key[o]] ELSE removed[key[o]] + 1]
      BY <1>16, Zenon DEF FinishRemove, TypeOK
    <3>2. CASE key[o] \in Key
      <4>1. removed[key[o]] \in Nat /\ removed[key[o]] + 1 \in Nat
        BY <3>1, <3>2
      <4> QED
        BY <3>1, <4>1, Zenon
    <3>3. CASE key[o] \notin Key
      BY <3>1, <3>3, Zenon
    <3> QED
      BY <3>2, <3>3, Zenon
  <2>3. fin' \in [Obj -> [Finisher -> FinPhase]]
    BY <1>16, Zenon DEF FinishRemove, FinPhase, TypeOK
  <2> QED
    BY <1>16, <2>1, <2>2, <2>3, Zenon DEF FinishRemove, TypeOK
<1>17. ASSUME NEW o \in Obj, NEW f \in Finisher, FinishCheck(o, f) PROVE TypeOK'
  BY <1>17, Zenon DEF FinishCheck, FinPhase, TypeOK
<1>18. ASSUME NEW o \in Obj, NEW f \in Finisher, FinishClose(o, f) PROVE TypeOK'
  BY <1>18, Zenon DEF FinishClose, FinPhase, TypeOK
<1>19. CASE UNCHANGED vars
  <2>1. UNCHANGED <<txs, key, src, state, final, loop, stop, terminated, fin, crashed,
                    run, resp, wire, calls, removed, lateResends, sendFailed>>
    BY <1>19, Zenon DEF vars
  <2> QED
    BY <2>1, Zenon DEF TypeOK
<1> QED
  BY Zenon, <1>1, <1>2, <1>3, <1>4, <1>5, <1>6, <1>7, <1>8, <1>9, <1>10, <1>11,
     <1>12, <1>13, <1>14, <1>15, <1>16, <1>17, <1>18, <1>19
     DEF Next, Packet, Receive, Respond, RespondOn, Loop, Finish

\* Objects are registered under their own keys.
LEMMA KeyStep ==
  ASSUME TypeOK, KeyInv, FinalInv, RespInv, [Next]_vars
  PROVE  KeyInv'
<1> USE DEF finVars, history
<1>1. /\ txs \in [Key -> Obj \cup {None}]
      /\ key \in [Obj -> Key \cup {None}]
      /\ state \in [Obj -> {"Idle", "Proceeding", "Completed", "Confirmed"}]
      /\ fin \in [Obj -> [Finisher -> FinPhase]]
  BY Zenon DEF TypeOK
<1>2. ASSUME NEW k \in Key, NEW p \in Peer, NEW o \in Obj, NewRequest(k, p, o)
  PROVE KeyInv'
  <2>1. Created(k, o)
    BY NewObject, <1>2, Zenon
  <2>2. \A u \in Obj : key'[u] = None => u # o /\ key[u] = None
    BY <2>1, Zenon DEF Created
  <2>3. ASSUME NEW u \in Obj, key'[u] = None
        PROVE  state'[u] = "Idle" /\ \A f \in Finisher : fin'[u][f] = "none"
    BY <2>1, <2>2, <2>3 DEF Created, KeyInv
  <2>4. ASSUME NEW j \in Key, txs'[j] # None PROVE key'[txs'[j]] = j
    <3>1. CASE j = k
      BY <2>1, <3>1, Zenon DEF Created
    <3>2. CASE j # k
      <4>1. txs'[j] = txs[j] /\ txs[j] \in Obj /\ key[txs[j]] = j
        BY <1>1, <2>1, <2>4, <3>2 DEF Created, KeyInv
      <4>2. txs[j] # o
        BY <2>1, <4>1, NoneIsNoKey, ZenonT(30) DEF Created
      <4> QED
        BY <2>1, <4>1, <4>2, ZenonT(30) DEF Created
    <3> QED
      BY <3>1, <3>2, Zenon
  <2> QED
    BY <2>3, <2>4, Zenon DEF KeyInv
<1>3. ASSUME NEW o \in Obj, receiveACK(o) PROVE KeyInv'
  <2>1. run # Idle /\ run.tx = o
    BY <1>3, Zenon DEF receiveACK, Idle, KeyInv
  <2>2. key[o] # None
    BY <2>1, Zenon DEF FinalInv, KeyInv
  <2>3. \A u \in Obj \ {o} : state'[u] = state[u] /\ fin'[u] = fin[u]
    BY <1>1, <1>3 DEF receiveACK, KeyInv
  <2> QED
    BY <1>3, <2>2, <2>3 DEF receiveACK, KeyInv
<1>4. ASSUME NEW r \in Responder, NEW o \in Obj, RespondProvisional(r, o)
  PROVE KeyInv'
  BY <1>1, <1>4 DEF RespondProvisional, KeyInv
<1>5. ASSUME NEW r \in Responder, NEW o \in Obj, NEW c \in Final,
        RespondFinal(r, o, c)
  PROVE KeyInv'
  <2>1. Answered(o, c)
    BY NewFinal, <1>5, Zenon
  <2> QED
    BY <1>1, <2>1, ZenonT(60) DEF Answered, KeyInv
<1>6. ASSUME NEW r \in Responder, NEW o \in Obj, NEW c \in Final,
        Schedule(r, o, c)
  PROVE KeyInv'
  <2>1. key[o] # None /\ final[o] = c /\ loop[o] = "none"
          /\ fin[o]["timerJ"] = "none"
    <3>1. Sending(r, o) /\ resp[r].code = c
      BY <1>6 DEF Schedule, Sending, Idle
    <3> QED
      BY <3>1, Zenon DEF RespInv
  <2>2. \A u \in Obj \ {o} : fin'[u] = fin[u]
    BY <1>1, <1>6 DEF Schedule, KeyInv
  <2> QED
    BY <1>6, <2>1, <2>2 DEF Schedule, KeyInv
<1>7. ASSUME NEW o \in Obj, NEW f \in Finisher, FinishRemove(o, f) PROVE KeyInv'
  BY <1>1, <1>7 DEF FinishRemove, KeyInv
<1>8. ASSUME NEW o \in Obj, NEW f \in Finisher, FinishCheck(o, f) PROVE KeyInv'
  BY <1>1, <1>8 DEF FinishCheck, KeyInv
<1>9. ASSUME NEW o \in Obj, NEW f \in Finisher, FinishClose(o, f) PROVE KeyInv'
  BY <1>1, <1>9 DEF FinishClose, KeyInv
<1>10. ASSUME NEW k \in Key, NEW p \in Peer,
             KnownRequest(k, p)
      PROVE  KeyInv'
  <2>1. UNCHANGED <<key, state, fin, txs>>
    BY <1>10, Zenon DEF KnownRequest
  <2> QED
    BY <2>1, Zenon DEF KeyInv
<1>11. ASSUME NEW b \in Branch,
             Ack(b)
      PROVE  KeyInv'
  <2>1. UNCHANGED <<key, state, fin, txs>>
    BY <1>11, Zenon DEF Ack
  <2> QED
    BY <2>1, Zenon DEF KeyInv
<1>12. ASSUME NEW o \in Obj,
             receiveRetransmission(o) \/ ResendFinal(o) \/ LoopStop(o)
             \/ LoopWake(o) \/ LoopResend(o)
      PROVE  KeyInv'
  <2>1. UNCHANGED <<key, state, fin, txs>>
    BY <1>12, Zenon DEF receiveRetransmission, ResendFinal, LoopStop, LoopWake,
                 LoopResend
  <2> QED
    BY <2>1, Zenon DEF KeyInv
<1>13. ASSUME NEW r \in Responder, NEW o \in Obj,
             SendProvisional(r, o)
      PROVE  KeyInv'
  <2>1. UNCHANGED <<key, state, fin, txs>>
    BY <1>13, Zenon DEF SendProvisional
  <2> QED
    BY <2>1, Zenon DEF KeyInv
<1>14. ASSUME NEW r \in Responder, NEW o \in Obj, NEW c \in Final,
             SendFinal(r, o, c) \/ SendFinalFails(r, o, c)
      PROVE  KeyInv'
  <2>1. UNCHANGED <<key, state, fin, txs>>
    BY <1>14, Zenon DEF SendFinal, SendFinalFails
  <2> QED
    BY <2>1, Zenon DEF KeyInv
<1>15. CASE UNCHANGED vars
  <2>1. UNCHANGED <<key, state, fin, txs>>
    BY <1>15, Zenon DEF vars
  <2> QED
    BY <2>1, Zenon DEF KeyInv
<1> QED
  BY Zenon, <1>2, <1>3, <1>4, <1>5, <1>6, <1>7, <1>8, <1>9, <1>10, <1>11, <1>12,
     <1>13, <1>14, <1>15
     DEF Next, Packet, Receive, Respond, RespondOn, Loop, Finish

\* Only the recorded final response is ever sent.
LEMMA FinalStep ==
  ASSUME TypeOK, KeyInv, FinalInv, RespInv, [Next]_vars
  PROVE  FinalInv'
<1> USE DEF finVars, history
<1>1. /\ key \in [Obj -> Key \cup {None}]
      /\ state \in [Obj -> {"Idle", "Proceeding", "Completed", "Confirmed"}]
      /\ final \in [Obj -> Final \cup {None}]
      /\ loop \in [Obj -> {"none", "wait", "resend", "exit"}]
      /\ wire \in [Obj -> SUBSET Final]
  BY Zenon DEF TypeOK
<1>2. ASSUME NEW k \in Key, NEW p \in Peer, NEW o \in Obj, NewRequest(k, p, o)
  PROVE FinalInv'
  <2>1. Created(k, o)
    BY NewObject, <1>2, Zenon
  <2> QED
    BY <1>1, <2>1, ZenonT(30) DEF Created, FinalInv
<1>3. ASSUME NEW k \in Key, NEW p \in Peer, KnownRequest(k, p) PROVE FinalInv'
  <2>1. run' # Idle /\ run'.pc = "again" /\ run'.tx = txs[k]
    BY <1>3, Zenon DEF KnownRequest, Idle, FinalInv
  <2>2. key[txs[k]] = k /\ k # None
    BY <1>3, ServerTxAssumption, Zenon DEF KnownRequest, KeyInv, Key, Method, FinalInv
  <2> QED
    BY <1>3, <2>1, <2>2, Zenon DEF KnownRequest, FinalInv
<1>4. ASSUME NEW b \in Branch, Ack(b) PROVE FinalInv'
  <2>1. run' # Idle /\ run'.pc = "ack" /\ run'.tx = txs[InviteKey(b)]
    BY <1>4, Zenon DEF Ack, Idle, FinalInv
  <2>2. InviteKey(b) \in Key /\ InviteKey(b) # None
    BY InviteKeyType, ServerTxAssumption, Zenon DEF Key, Method, FinalInv
  <2>3. key[txs[InviteKey(b)]] # None
    BY <1>4, <2>2, Zenon DEF Ack, KeyInv, FinalInv
  <2> QED
    BY <1>4, <2>1, <2>3, Zenon DEF Ack, FinalInv
<1>5. ASSUME NEW o \in Obj, receiveRetransmission(o) PROVE FinalInv'
  <2>1. run # Idle /\ run.tx = o
    BY <1>5, Zenon DEF receiveRetransmission, Idle, FinalInv
  <2>2. CASE run' = Idle
    BY <1>5, <2>2, Zenon DEF receiveRetransmission, FinalInv
  <2>3. CASE final[o] # None /\ run' = [pc |-> "resend", tx |-> o]
    <3>1. run' # Idle /\ run'.tx = o
      BY <2>3, Zenon DEF Idle, FinalInv
    <3> QED
      BY <1>5, <2>1, <2>3, <3>1, Zenon DEF receiveRetransmission, FinalInv
  <2> QED
    BY <1>5, <2>2, <2>3, Zenon DEF receiveRetransmission, FinalInv
<1>6. ASSUME NEW o \in Obj, ResendFinal(o) PROVE FinalInv'
  BY <1>1, <1>6 DEF ResendFinal, FinalInv
<1>7. ASSUME NEW o \in Obj, receiveACK(o) PROVE FinalInv'
  BY <1>1, <1>7, ZenonT(30) DEF receiveACK, FinalInv
<1>8. ASSUME NEW r \in Responder, NEW o \in Obj, RespondProvisional(r, o)
  PROVE FinalInv'
  BY <1>1, <1>8, Zenon DEF RespondProvisional, FinalInv
<1>9. ASSUME NEW r \in Responder, NEW o \in Obj, NEW c \in Final,
        RespondFinal(r, o, c)
  PROVE FinalInv'
  <2>1. Answered(o, c)
    BY NewFinal, <1>9, Zenon
  <2>2. run # Idle => run.tx \in Obj
    BY Zenon DEF TypeOK, RunWork
  <2>3. \A u \in Obj : final[u] # None => u # o /\ final'[u] = final[u]
    BY <2>1, Zenon DEF Answered
  <2>4. \A u \in Obj : wire[u] # {} => final[u] # None
    BY <1>1, ServerTxAssumption DEF FinalInv
  <2>5. ASSUME NEW u \in Obj
        PROVE  /\ final'[u] # None <=> state'[u] \in {"Completed", "Confirmed"}
               /\ wire'[u] \subseteq {final'[u]}
               /\ loop'[u] # "none" => final'[u] # None
    BY <2>1, <2>3, <2>4, ZenonT(30) DEF Answered, FinalInv
  <2>6. /\ run' # Idle => key'[run'.tx] # None
        /\ run' # Idle /\ run'.pc = "resend" => final'[run'.tx] # None
    BY <2>1, <2>2, <2>3, Zenon DEF Answered, FinalInv
  <2> QED
    BY <2>5, <2>6, Zenon DEF FinalInv
<1>10. ASSUME NEW r \in Responder, NEW o \in Obj, NEW c \in Final,
        SendFinal(r, o, c)
  PROVE FinalInv'
  <2>1. final[o] = c
    <3>1. Sending(r, o) /\ resp[r].code = c
      BY <1>10, SendHolds DEF SendFinal
    <3> QED
      BY <3>1, Zenon DEF RespInv
  <2>2. \A u \in Obj : wire'[u] \subseteq wire[u] \cup {final[u]}
    BY <1>1, <1>10, <2>1, Zenon DEF SendFinal, FinalInv
  <2> QED
    BY <1>10, <2>2, Zenon DEF SendFinal, FinalInv
<1>11. ASSUME NEW r \in Responder, NEW o \in Obj, NEW c \in Final,
        Schedule(r, o, c)
  PROVE FinalInv'
  <2>1. key[o] # None /\ final[o] = c /\ loop[o] = "none"
          /\ fin[o]["timerJ"] = "none"
    <3>1. Sending(r, o) /\ resp[r].code = c
      BY <1>11 DEF Schedule, Sending, Idle
    <3> QED
      BY <3>1, Zenon DEF RespInv
  <2>2. \A u \in Obj \ {o} : loop'[u] = loop[u]
    BY <1>1, <1>11, Zenon DEF Schedule, FinalInv
  <2>3. final[o] # None
    BY <2>1, ServerTxAssumption, Zenon DEF FinalInv
  <2> QED
    BY <1>11, <2>2, <2>3, Zenon DEF Schedule, FinalInv
<1>12. ASSUME NEW o \in Obj, LoopStop(o) PROVE FinalInv'
  BY <1>1, <1>12, Zenon DEF LoopStop, FinalInv
<1>13. ASSUME NEW o \in Obj, LoopWake(o) PROVE FinalInv'
  BY <1>1, <1>13, Zenon DEF LoopWake, FinalInv
<1>14. ASSUME NEW o \in Obj, LoopResend(o) PROVE FinalInv'
  BY <1>1, <1>14 DEF LoopResend, Select, FinalInv
<1>15. ASSUME NEW r \in Responder, NEW o \in Obj,
             SendProvisional(r, o)
      PROVE  FinalInv'
  <2>1. UNCHANGED <<final, state, wire, loop, run, key>>
    BY <1>15, Zenon DEF SendProvisional
  <2> QED
    BY <2>1, Zenon DEF FinalInv
<1>16. ASSUME NEW r \in Responder, NEW o \in Obj, NEW c \in Final,
             SendFinalFails(r, o, c)
      PROVE  FinalInv'
  <2>1. UNCHANGED <<final, state, wire, loop, run, key>>
    BY <1>16, Zenon DEF SendFinalFails
  <2> QED
    BY <2>1, Zenon DEF FinalInv
<1>17. ASSUME NEW o \in Obj, NEW f \in Finisher,
             FinishRemove(o, f) \/ FinishCheck(o, f) \/ FinishClose(o, f)
      PROVE  FinalInv'
  <2>1. UNCHANGED <<final, state, wire, loop, run, key>>
    BY <1>17, Zenon DEF FinishRemove, FinishCheck, FinishClose
  <2> QED
    BY <2>1, Zenon DEF FinalInv
<1>18. CASE UNCHANGED vars
  <2>1. UNCHANGED <<final, state, wire, loop, run, key>>
    BY <1>18, Zenon DEF vars
  <2> QED
    BY <2>1, Zenon DEF FinalInv
<1> QED
  BY Zenon, <1>2, <1>3, <1>4, <1>5, <1>6, <1>7, <1>8, <1>9, <1>10, <1>11, <1>12,
     <1>13, <1>14, <1>15, <1>16, <1>17, <1>18
     DEF Next, Packet, Receive, Respond, RespondOn, Loop, Finish

\* One goroutine sends the first copy and schedules.
LEMMA RespStep ==
  ASSUME TypeOK, KeyInv, FinalInv, RespInv, FinInv, [Next]_vars
  PROVE  RespInv'
<1> USE DEF finVars, history, Sending
<1>1. /\ key \in [Obj -> Key \cup {None}]
      /\ final \in [Obj -> Final \cup {None}]
      /\ loop \in [Obj -> {"none", "wait", "resend", "exit"}]
      /\ fin \in [Obj -> [Finisher -> FinPhase]]
      /\ resp \in [Responder -> {Idle} \cup RespWork]
  BY Zenon DEF TypeOK
<1>2. ASSUME NEW k \in Key, NEW p \in Peer, NEW o \in Obj, NewRequest(k, p, o)
  PROVE RespInv'
  <2>1. Created(k, o)
    BY NewObject, <1>2, Zenon
  <2>2. UNCHANGED <<resp, final, loop, fin>>
    BY <2>1, Zenon DEF Created
  <2>3. \A u \in Obj : key[u] # None => key'[u] # None
    BY <2>1, Zenon DEF Created
  <2> HIDE DEF Sending
  <2>4. \A q \in Responder, u \in Obj : Sending(q, u)' <=> Sending(q, u)
    BY <2>2, Zenon DEF Sending
  <2> QED
    BY <2>2, <2>3, <2>4, Zenon DEF RespInv
<1>3. ASSUME NEW o \in Obj, receiveACK(o) PROVE RespInv'
  <2>1. \A u \in Obj : fin'[u]["timerJ"] = fin[u]["timerJ"]
    BY <1>1, <1>3 DEF receiveACK, Finisher
  <2>2. UNCHANGED <<resp, key, final, loop>>
    BY <1>3, Zenon DEF receiveACK
  <2> QED
    BY <2>1, <2>2, RespKept, Zenon
<1>4. ASSUME NEW r \in Responder, NEW o \in Obj, RespondProvisional(r, o)
  PROVE RespInv'
  <2>1. resp'[r].code \notin Final
          /\ \A q \in Responder \ {r} : resp'[q] = resp[q]
    BY <1>1, <1>4, ServerTxAssumption, Zenon DEF RespondProvisional
  <2>2. ASSUME NEW q \in Responder, NEW u \in Obj, Sending(q, u)'
    PROVE q # r /\ Sending(q, u)
    BY <2>1, <2>2, Zenon
  <2>3. UNCHANGED <<key, final, loop, fin>>
    BY <1>4, Zenon DEF RespondProvisional
  <2> HIDE DEF Sending
  <2>4. ASSUME NEW q \in Responder \ {r} PROVE resp'[q] = resp[q]
    BY <2>1, Zenon
  <2> QED
    BY <2>2, <2>3, <2>4, ZenonT(30) DEF RespInv
<1>5. ASSUME NEW r \in Responder, NEW o \in Obj, NEW c \in Final,
        RespondFinal(r, o, c)
  PROVE RespInv'
  <2>1. Answered(o, c)
    BY NewFinal, <1>5, Zenon
  <2>2. \A q \in Responder : ~Sending(q, o)
    BY <2>1, ServerTxAssumption, ZenonT(60) DEF Answered, RespInv
  <2>3. /\ resp'[r] # Idle /\ resp'[r].tx = o /\ resp'[r].code = c
        /\ \A q \in Responder \ {r} : resp'[q] = resp[q]
    BY <1>1, <1>5, Zenon DEF RespondFinal, Idle
  <2>4. ~Sending(r, o) /\ resp[r] = Idle
    BY <1>5, Zenon DEF RespondFinal
  <2>5. fin[o]["timerJ"] = "none"
    BY <2>1, Zenon DEF Answered, FinInv, RespInv
  <2>6. /\ key[o] # None /\ final'[o] = c /\ loop[o] = "none"
        /\ \A u \in Obj \ {o} : final'[u] = final[u]
        /\ UNCHANGED <<key, loop, fin>>
    BY <2>1, Zenon DEF Answered
  <2>7. ASSUME NEW q \in Responder, NEW u \in Obj, Sending(q, u)'
        PROVE  IF q = r THEN u = o ELSE Sending(q, u) /\ u # o
    BY <2>2, <2>3, <2>7, Zenon
  <2>8. ASSUME NEW q \in Responder, NEW u \in Obj, Sending(q, u)'
        PROVE  /\ key'[u] # None /\ final'[u] = resp'[q].code
               /\ loop'[u] = "none" /\ fin'[u]["timerJ"] = "none"
    <3> HIDE DEF Sending
    <3>1. CASE q = r
      BY <2>3, <2>5, <2>6, <2>7, <2>8, <3>1, Zenon
    <3>2. CASE q # r
      <4>1. Sending(q, u) /\ u # o /\ resp'[q] = resp[q]
        BY <2>3, <2>7, <2>8, <3>2, Zenon
      <4>2. /\ key[u] # None /\ final[u] = resp[q].code
            /\ loop[u] = "none" /\ fin[u]["timerJ"] = "none"
        BY <4>1, Zenon DEF RespInv
      <4> QED
        BY <2>6, <4>1, <4>2, Zenon
    <3> QED
      BY <3>1, <3>2, Zenon
  <2>9. ASSUME NEW q \in Responder, NEW w \in Responder, NEW u \in Obj,
               Sending(q, u)', Sending(w, u)'
        PROVE  w = q
    <3> HIDE DEF Sending
    <3> QED
      BY <2>7, <2>9 DEF RespInv
  <2> HIDE DEF Sending
  <2> QED
    BY <2>8, <2>9, ZenonT(30) DEF RespInv
<1>6. ASSUME NEW r \in Responder, NEW o \in Obj, SendProvisional(r, o)
  PROVE RespInv'
  BY <1>1, <1>6 DEF SendProvisional, RespInv
<1>7. ASSUME NEW r \in Responder, NEW o \in Obj, NEW c \in Final,
        SendFinal(r, o, c)
  PROVE RespInv'
  <2>1. resp[r] # Idle /\ resp[r].tx = o /\ resp[r].code = c
    BY <1>7, SendHolds DEF SendFinal
  <2>2. /\ resp'[r] # Idle /\ resp'[r].tx = o /\ resp'[r].code = c
        /\ \A q \in Responder \ {r} : resp'[q] = resp[q]
    BY <1>1, <1>7, Zenon DEF SendFinal, Idle
  <2>3. \A q \in Responder, u \in Obj : Sending(q, u)' <=> Sending(q, u)
    BY <2>1, <2>2, Zenon
  <2>4. \A q \in Responder, u \in Obj : Sending(q, u)
          => resp'[q].code = resp[q].code
    BY <2>1, <2>2, Zenon
  <2>5. UNCHANGED <<key, final, loop, fin>>
    BY <1>7, Zenon DEF SendFinal
  <2> HIDE DEF Sending
  <2> QED
    BY <2>3, <2>4, <2>5, Zenon DEF RespInv
<1>8. ASSUME NEW r \in Responder, NEW o \in Obj, NEW c \in Final,
        SendFinalFails(r, o, c)
  PROVE RespInv'
  <2>1. resp'[r] = Idle
          \/ (resp'[r].tx = resp[r].tx /\ resp'[r].code = resp[r].code)
    BY <1>1, <1>8 DEF SendFinalFails
  <2>2. \A q \in Responder \ {r} : resp'[q] = resp[q]
    BY <1>1, <1>8, Zenon DEF SendFinalFails
  <2>3. resp[r] # Idle
    BY <1>8 DEF SendFinalFails, Idle
  <2>4. \A q \in Responder, u \in Obj :
          Sending(q, u)' => Sending(q, u) /\ resp'[q].code = resp[q].code
    BY <2>1, <2>2, <2>3, Zenon
  <2>5. UNCHANGED <<key, final, loop, fin>>
    BY <1>8, Zenon DEF SendFinalFails
  <2> HIDE DEF Sending
  <2> QED
    BY <2>4, <2>5, ZenonT(30) DEF RespInv
<1>9. ASSUME NEW r \in Responder, NEW o \in Obj, NEW c \in Final,
        Schedule(r, o, c)
  PROVE RespInv'
  <2>1. resp'[r] = Idle
          \/ (resp'[r].tx = resp[r].tx /\ resp'[r].code = resp[r].code)
    BY <1>1, <1>9, Zenon DEF Schedule
  <2>2. \A q \in Responder \ {r} : resp'[q] = resp[q]
    BY <1>1, <1>9, Zenon DEF Schedule
  <2>3. resp[r] # Idle
    BY <1>9 DEF Schedule, Idle
  <2>4. \A q \in Responder, u \in Obj :
          Sending(q, u)' => Sending(q, u) /\ resp'[q].code = resp[q].code
    BY <2>1, <2>2, <2>3, Zenon
  <2>5. Sending(r, o) /\ ~Sending(r, o)'
    <3>1. /\ resp[r] = [pc |-> "schedule", tx |-> o, code |-> c]
          /\ resp' = [resp EXCEPT ![r] = Idle]
      BY <1>9, Zenon DEF Schedule
    <3>2. resp'[r] = Idle
      BY <1>1, <3>1, Zenon
    <3> QED
      BY <3>1, <3>2 DEF Idle
  <2>6. /\ \A u \in Obj \ {o} : fin'[u] = fin[u] /\ loop'[u] = loop[u]
        /\ UNCHANGED <<key, final>>
    BY <1>1, <1>9, Zenon DEF Schedule
  <2> HIDE DEF Sending
  <2>7. ASSUME NEW q \in Responder, Sending(q, o)' PROVE FALSE
    BY <2>4, <2>5, <2>7, Zenon DEF RespInv
  <2>8. ASSUME NEW q \in Responder, NEW u \in Obj, Sending(q, u)'
        PROVE  /\ key'[u] # None /\ final'[u] = resp'[q].code
               /\ loop'[u] = "none" /\ fin'[u]["timerJ"] = "none"
               /\ \A w \in Responder : Sending(w, u)' => w = q
    <3>1. u \in Obj \ {o} /\ Sending(q, u) /\ resp'[q].code = resp[q].code
      BY <2>4, <2>7, <2>8, Zenon
    <3> QED
      BY <2>4, <2>6, <3>1, Zenon DEF RespInv
  <2> QED
    BY <2>8, Zenon DEF RespInv
<1>10. ASSUME NEW o \in Obj, LoopStop(o) PROVE RespInv'
  <2>1. \A u \in Obj : loop[u] = "none" => loop'[u] = "none"
    BY <1>1, <1>10, Zenon DEF LoopStop
  <2>2. UNCHANGED <<resp, key, final, fin>>
    BY <1>10, Zenon DEF LoopStop
  <2> QED
    BY <2>1, <2>2, RespKept, Zenon
<1>11. ASSUME NEW o \in Obj, LoopWake(o) PROVE RespInv'
  <2>1. \A u \in Obj : loop[u] = "none" => loop'[u] = "none"
    BY <1>1, <1>11, Zenon DEF LoopWake
  <2>2. UNCHANGED <<resp, key, final, fin>>
    BY <1>11, Zenon DEF LoopWake
  <2> QED
    BY <2>1, <2>2, RespKept, Zenon
<1>12. ASSUME NEW o \in Obj, LoopResend(o) PROVE RespInv'
  <2>1. \A u \in Obj : loop[u] = "none" => loop'[u] = "none"
    BY <1>1, <1>12, Zenon DEF LoopResend
  <2>2. UNCHANGED <<resp, key, final, fin>>
    BY <1>12, Zenon DEF LoopResend
  <2> QED
    BY <2>1, <2>2, RespKept, Zenon
<1>13. ASSUME NEW o \in Obj, NEW f \in Finisher, FinishRemove(o, f)
  PROVE RespInv'
  <2>1. \A u \in Obj : fin[u]["timerJ"] = "none" => fin'[u]["timerJ"] = "none"
    BY <1>1, <1>13, Zenon DEF FinishRemove, Finisher
  <2>2. UNCHANGED <<resp, key, final, loop>>
    BY <1>13, Zenon DEF FinishRemove
  <2> QED
    BY <2>1, <2>2, RespKept, Zenon
<1>14. ASSUME NEW o \in Obj, NEW f \in Finisher, FinishCheck(o, f)
  PROVE RespInv'
  <2>1. \A u \in Obj : fin[u]["timerJ"] = "none" => fin'[u]["timerJ"] = "none"
    BY <1>1, <1>14, ZenonT(30) DEF FinishCheck, Finisher
  <2>2. UNCHANGED <<resp, key, final, loop>>
    BY <1>14, Zenon DEF FinishCheck
  <2> QED
    BY <2>1, <2>2, RespKept, Zenon
<1>15. ASSUME NEW o \in Obj, NEW f \in Finisher, FinishClose(o, f)
  PROVE RespInv'
  <2>1. \A u \in Obj : fin[u]["timerJ"] = "none" => fin'[u]["timerJ"] = "none"
    BY <1>1, <1>15, Zenon DEF FinishClose, Finisher
  <2>2. UNCHANGED <<resp, key, final, loop>>
    BY <1>15, Zenon DEF FinishClose
  <2> QED
    BY <2>1, <2>2, RespKept, Zenon
<1>16. ASSUME NEW k \in Key, NEW p \in Peer,
             KnownRequest(k, p)
      PROVE  RespInv'
  <2>1. UNCHANGED <<resp, key, final, loop, fin>>
    BY <1>16, Zenon DEF KnownRequest
  <2> QED
    BY <2>1, RespKept, Zenon
<1>17. ASSUME NEW b \in Branch,
             Ack(b)
      PROVE  RespInv'
  <2>1. UNCHANGED <<resp, key, final, loop, fin>>
    BY <1>17, Zenon DEF Ack
  <2> QED
    BY <2>1, RespKept, Zenon
<1>18. ASSUME NEW o \in Obj,
             receiveRetransmission(o) \/ ResendFinal(o)
      PROVE  RespInv'
  <2>1. UNCHANGED <<resp, key, final, loop, fin>>
    BY <1>18, Zenon DEF receiveRetransmission, ResendFinal
  <2> QED
    BY <2>1, RespKept, Zenon
<1>19. CASE UNCHANGED vars
  <2>1. UNCHANGED <<resp, key, final, loop, fin>>
    BY <1>19, Zenon DEF vars
  <2> QED
    BY <2>1, RespKept, Zenon
<1> QED
  BY Zenon, <1>2, <1>3, <1>4, <1>5, <1>6, <1>7, <1>8, <1>9, <1>10, <1>11, <1>12,
     <1>13, <1>14, <1>15, <1>16, <1>17, <1>18, <1>19
     DEF Next, Packet, Receive, Respond, RespondOn, Loop, Finish

\* The loop sends once at most after the ACK.
LEMMA LateStep ==
  ASSUME TypeOK, KeyInv, FinalInv, RespInv, LateInv, [Next]_vars
  PROVE  LateInv'
<1> USE DEF finVars, history
<1>1. /\ state \in [Obj -> {"Idle", "Proceeding", "Completed", "Confirmed"}]
      /\ loop \in [Obj -> {"none", "wait", "resend", "exit"}]
      /\ lateResends \in [Obj -> Nat]
  BY Zenon DEF TypeOK
<1>2. ASSUME NEW k \in Key, NEW p \in Peer, NEW o \in Obj, NewRequest(k, p, o)
  PROVE LateInv'
  <2>1. Created(k, o)
    BY NewObject, <1>2, Zenon
  <2> QED
    BY <1>1, <2>1, ZenonT(60) DEF Created, LateInv
<1>3. ASSUME NEW o \in Obj, receiveACK(o) PROVE LateInv'
  BY <1>1, <1>3, Zenon DEF receiveACK, LateInv
<1>4. ASSUME NEW r \in Responder, NEW o \in Obj, RespondProvisional(r, o)
  PROVE LateInv'
  BY <1>1, <1>4, Zenon DEF RespondProvisional, LateInv
<1>5. ASSUME NEW r \in Responder, NEW o \in Obj, NEW c \in Final,
        RespondFinal(r, o, c)
  PROVE LateInv'
  <2>1. Answered(o, c)
    BY NewFinal, <1>5, Zenon
  <2> QED
    BY <1>1, <2>1, Zenon DEF Answered, LateInv
<1>6. ASSUME NEW r \in Responder, NEW o \in Obj, NEW c \in Final,
        Schedule(r, o, c)
  PROVE LateInv'
  BY <1>1, <1>6, Zenon DEF Schedule, Select, LateInv
<1>7. ASSUME NEW o \in Obj, LoopStop(o) PROVE LateInv'
  BY <1>1, <1>7, Zenon DEF LoopStop, LateInv
<1>8. ASSUME NEW o \in Obj, LoopWake(o) PROVE LateInv'
  BY <1>1, <1>8 DEF LoopWake, LateInv
<1>9. ASSUME NEW o \in Obj, LoopResend(o) PROVE LateInv'
  BY <1>1, <1>9 DEF LoopResend, Select, LateInv
<1>10. ASSUME NEW k \in Key, NEW p \in Peer,
             KnownRequest(k, p)
      PROVE  LateInv'
  <2>1. UNCHANGED <<lateResends, loop, state>>
    BY <1>10, Zenon DEF KnownRequest
  <2> QED
    BY <2>1, Zenon DEF LateInv
<1>11. ASSUME NEW b \in Branch,
             Ack(b)
      PROVE  LateInv'
  <2>1. UNCHANGED <<lateResends, loop, state>>
    BY <1>11, Zenon DEF Ack
  <2> QED
    BY <2>1, Zenon DEF LateInv
<1>12. ASSUME NEW o \in Obj,
             receiveRetransmission(o) \/ ResendFinal(o)
      PROVE  LateInv'
  <2>1. UNCHANGED <<lateResends, loop, state>>
    BY <1>12, Zenon DEF receiveRetransmission, ResendFinal
  <2> QED
    BY <2>1, Zenon DEF LateInv
<1>13. ASSUME NEW r \in Responder, NEW o \in Obj,
             SendProvisional(r, o)
      PROVE  LateInv'
  <2>1. UNCHANGED <<lateResends, loop, state>>
    BY <1>13, Zenon DEF SendProvisional
  <2> QED
    BY <2>1, Zenon DEF LateInv
<1>14. ASSUME NEW r \in Responder, NEW o \in Obj, NEW c \in Final,
             SendFinal(r, o, c) \/ SendFinalFails(r, o, c)
      PROVE  LateInv'
  <2>1. UNCHANGED <<lateResends, loop, state>>
    BY <1>14, Zenon DEF SendFinal, SendFinalFails
  <2> QED
    BY <2>1, Zenon DEF LateInv
<1>15. ASSUME NEW o \in Obj, NEW f \in Finisher,
             FinishRemove(o, f) \/ FinishCheck(o, f) \/ FinishClose(o, f)
      PROVE  LateInv'
  <2>1. UNCHANGED <<lateResends, loop, state>>
    BY <1>15, Zenon DEF FinishRemove, FinishCheck, FinishClose
  <2> QED
    BY <2>1, Zenon DEF LateInv
<1>16. CASE UNCHANGED vars
  <2>1. UNCHANGED <<lateResends, loop, state>>
    BY <1>16, Zenon DEF vars
  <2> QED
    BY <2>1, Zenon DEF LateInv
<1> QED
  BY Zenon, <1>2, <1>3, <1>4, <1>5, <1>6, <1>7, <1>8, <1>9, <1>10, <1>11, <1>12,
     <1>13, <1>14, <1>15, <1>16
     DEF Next, Packet, Receive, Respond, RespondOn, Loop, Finish

\* The handler is called when an entry is made.
LEMMA CallsStep ==
  ASSUME TypeOK, KeyInv, CallsInv, [Next]_vars
  PROVE  CallsInv'
<1> USE DEF finVars, history
<1>1. /\ txs \in [Key -> Obj \cup {None}]
      /\ calls \in [Key -> Nat]
      /\ removed \in [Key -> Nat]
  BY Zenon DEF TypeOK
<1>2. ASSUME NEW k \in Key, NEW p \in Peer, NEW o \in Obj, NewRequest(k, p, o)
  PROVE CallsInv'
  <2>1. calls'[k] = calls[k] + 1 /\ txs[k] = None /\ txs'[k] = o
    BY <1>1, <1>2, Zenon DEF NewRequest
  <2>2. \A j \in Key \ {k} : calls'[j] = calls[j] /\ txs'[j] = txs[j]
    BY <1>1, <1>2, Zenon DEF NewRequest
  <2>3. o # None /\ removed' = removed
    BY <1>2, ServerTxAssumption, Zenon DEF NewRequest
  <2> QED
    BY <1>1, <2>1, <2>2, <2>3 DEF CallsInv
<1>3. ASSUME NEW o \in Obj, NEW f \in Finisher, FinishRemove(o, f)
  PROVE CallsInv'
  BY <1>1, <1>3 DEF FinishRemove, CallsInv
<1>4. ASSUME NEW k \in Key, NEW p \in Peer,
             KnownRequest(k, p)
      PROVE  CallsInv'
  <2>1. UNCHANGED <<calls, removed, txs>>
    BY <1>4, Zenon DEF KnownRequest
  <2> QED
    BY <2>1, Zenon DEF CallsInv
<1>5. ASSUME NEW b \in Branch,
             Ack(b)
      PROVE  CallsInv'
  <2>1. UNCHANGED <<calls, removed, txs>>
    BY <1>5, Zenon DEF Ack
  <2> QED
    BY <2>1, Zenon DEF CallsInv
<1>6. ASSUME NEW o \in Obj,
             receiveRetransmission(o) \/ ResendFinal(o) \/ receiveACK(o)
             \/ LoopStop(o) \/ LoopWake(o) \/ LoopResend(o)
      PROVE  CallsInv'
  <2>1. UNCHANGED <<calls, removed, txs>>
    BY <1>6, Zenon DEF receiveRetransmission, ResendFinal, receiveACK, LoopStop,
                LoopWake, LoopResend
  <2> QED
    BY <2>1, Zenon DEF CallsInv
<1>7. ASSUME NEW r \in Responder, NEW o \in Obj,
             RespondProvisional(r, o) \/ SendProvisional(r, o)
      PROVE  CallsInv'
  <2>1. UNCHANGED <<calls, removed, txs>>
    BY <1>7, Zenon DEF RespondProvisional, SendProvisional
  <2> QED
    BY <2>1, Zenon DEF CallsInv
<1>8. ASSUME NEW r \in Responder, NEW o \in Obj, NEW c \in Final,
             RespondFinal(r, o, c) \/ SendFinal(r, o, c)
             \/ SendFinalFails(r, o, c) \/ Schedule(r, o, c)
      PROVE  CallsInv'
  <2>1. UNCHANGED <<calls, removed, txs>>
    BY <1>8, Zenon DEF RespondFinal, SendFinal, SendFinalFails, Schedule
  <2> QED
    BY <2>1, Zenon DEF CallsInv
<1>9. ASSUME NEW o \in Obj, NEW f \in Finisher,
             FinishCheck(o, f) \/ FinishClose(o, f)
      PROVE  CallsInv'
  <2>1. UNCHANGED <<calls, removed, txs>>
    BY <1>9, Zenon DEF FinishCheck, FinishClose
  <2> QED
    BY <2>1, Zenon DEF CallsInv
<1>10. CASE UNCHANGED vars
  <2>1. UNCHANGED <<calls, removed, txs>>
    BY <1>10, Zenon DEF vars
  <2> QED
    BY <2>1, Zenon DEF CallsInv
<1> QED
  BY <1>2, <1>3, <1>4, <1>5, <1>6, <1>7, <1>8, <1>9, <1>10, Zenon
     DEF Next, Packet, Receive, Respond, RespondOn, Loop, Finish

\* A second finish needs an ACK.
LEMMA FinStep ==
  ASSUME TypeOK, KeyInv, FinalInv, RespInv, FinInv, [Next]_vars
  PROVE  FinInv'
<1> USE DEF finVars, history
<1>1. /\ state \in [Obj -> {"Idle", "Proceeding", "Completed", "Confirmed"}]
      /\ final \in [Obj -> Final \cup {None}]
      /\ terminated \in [Obj -> BOOLEAN]
      /\ fin \in [Obj -> [Finisher -> FinPhase]]
  BY Zenon DEF TypeOK
<1>2. ASSUME NEW k \in Key, NEW p \in Peer, NEW o \in Obj, NewRequest(k, p, o)
  PROVE FinInv'
  <2>1. Created(k, o)
    BY NewObject, <1>2, Zenon
  <2>2. UNCHANGED <<fin, terminated, final>>
    BY <2>1, Zenon DEF Created
  <2>3. \A u \in Obj : state[u] = "Confirmed" => state'[u] = "Confirmed"
    BY <2>1, Zenon DEF Created
  <2> QED
    BY <2>2, <2>3, FinKept, Zenon
<1>3. ASSUME NEW o \in Obj, receiveACK(o) PROVE FinInv'
  BY <1>1, <1>3 DEF receiveACK, Finisher, FinInv
<1>4. ASSUME NEW r \in Responder, NEW o \in Obj, RespondProvisional(r, o)
  PROVE FinInv'
  <2>1. UNCHANGED <<fin, terminated, final>>
    BY <1>4, Zenon DEF RespondProvisional
  <2>2. \A u \in Obj : state[u] = "Confirmed" => state'[u] = "Confirmed"
    BY <1>1, <1>4, Zenon DEF RespondProvisional
  <2> QED
    BY <2>1, <2>2, FinKept, Zenon
<1>5. ASSUME NEW r \in Responder, NEW o \in Obj, NEW c \in Final,
        RespondFinal(r, o, c)
  PROVE FinInv'
  <2>1. Answered(o, c)
    BY NewFinal, <1>5, Zenon
  <2>2. UNCHANGED <<fin, terminated>>
    BY <2>1, Zenon DEF Answered
  <2>3. \A u \in Obj : /\ state[u] = "Confirmed" => state'[u] = "Confirmed"
                       /\ final[u] # None => final'[u] # None
    BY <2>1, Zenon DEF Answered
  <2> QED
    BY <2>2, <2>3, FinKept, Zenon
<1>6. ASSUME NEW r \in Responder, NEW o \in Obj, NEW c \in Final,
        Schedule(r, o, c)
  PROVE FinInv'
  <2>1. key[o] # None /\ final[o] = c /\ loop[o] = "none"
          /\ fin[o]["timerJ"] = "none"
    <3>1. Sending(r, o) /\ resp[r].code = c
      BY <1>6 DEF Schedule, Sending, Idle
    <3> QED
      BY <3>1, Zenon DEF RespInv
  <2>2. /\ fin'[o]["timerJ"] = "due" /\ fin'[o]["ack"] = fin[o]["ack"]
        /\ \A u \in Obj \ {o} : fin'[u] = fin[u]
    BY <1>1, <1>6, Zenon DEF Schedule, Finisher
  <2>3. final[o] # None /\ Finisher = {"timerJ", "ack"}
    BY <2>1, ServerTxAssumption, Zenon DEF Finisher
  <2>4. UNCHANGED <<state, terminated, final>>
    BY <1>6, Zenon DEF Schedule
  <2> QED
    BY <2>1, <2>2, <2>3, <2>4 DEF FinInv
<1>7. ASSUME NEW o \in Obj, NEW f \in Finisher, FinishRemove(o, f) PROVE FinInv'
  BY <1>1, <1>7 DEF FinishRemove, Finisher, FinInv
<1>8. ASSUME NEW o \in Obj, NEW f \in Finisher, FinishCheck(o, f) PROVE FinInv'
  BY <1>1, <1>8 DEF FinishCheck, Finisher, FinInv
<1>9. ASSUME NEW o \in Obj, NEW f \in Finisher, FinishClose(o, f) PROVE FinInv'
  BY <1>1, <1>9 DEF FinishClose, Finisher, FinInv
<1>10. ASSUME NEW k \in Key, NEW p \in Peer,
             KnownRequest(k, p)
      PROVE  FinInv'
  <2>1. UNCHANGED <<fin, state, terminated, final>>
    BY <1>10, Zenon DEF KnownRequest
  <2> QED
    BY <2>1, FinKept, Zenon
<1>11. ASSUME NEW b \in Branch,
             Ack(b)
      PROVE  FinInv'
  <2>1. UNCHANGED <<fin, state, terminated, final>>
    BY <1>11, Zenon DEF Ack
  <2> QED
    BY <2>1, FinKept, Zenon
<1>12. ASSUME NEW o \in Obj,
             receiveRetransmission(o) \/ ResendFinal(o) \/ LoopStop(o)
             \/ LoopWake(o) \/ LoopResend(o)
      PROVE  FinInv'
  <2>1. UNCHANGED <<fin, state, terminated, final>>
    BY <1>12, Zenon DEF receiveRetransmission, ResendFinal, LoopStop, LoopWake,
                 LoopResend
  <2> QED
    BY <2>1, FinKept, Zenon
<1>13. ASSUME NEW r \in Responder, NEW o \in Obj,
             SendProvisional(r, o)
      PROVE  FinInv'
  <2>1. UNCHANGED <<fin, state, terminated, final>>
    BY <1>13, Zenon DEF SendProvisional
  <2> QED
    BY <2>1, FinKept, Zenon
<1>14. ASSUME NEW r \in Responder, NEW o \in Obj, NEW c \in Final,
             SendFinal(r, o, c) \/ SendFinalFails(r, o, c)
      PROVE  FinInv'
  <2>1. UNCHANGED <<fin, state, terminated, final>>
    BY <1>14, Zenon DEF SendFinal, SendFinalFails
  <2> QED
    BY <2>1, FinKept, Zenon
<1>15. CASE UNCHANGED vars
  <2>1. UNCHANGED <<fin, state, terminated, final>>
    BY <1>15, Zenon DEF vars
  <2> QED
    BY <2>1, FinKept, Zenon
<1> QED
  BY Zenon, <1>2, <1>3, <1>4, <1>5, <1>6, <1>7, <1>8, <1>9, <1>10, <1>11, <1>12,
     <1>13, <1>14, <1>15
     DEF Next, Packet, Receive, Respond, RespondOn, Loop, Finish

\* An entry is removed by its own finish, or by that of an acknowledged INVITE.
LEMMA RegStep ==
  ASSUME TypeOK, KeyInv, FinalInv, RespInv, FinInv, RegInv, [Next]_vars
  PROVE  RegInv'
<1> USE DEF finVars, history, Alive, Outlived
<1>1. /\ txs \in [Key -> Obj \cup {None}]
      /\ key \in [Obj -> Key \cup {None}]
      /\ state \in [Obj -> {"Idle", "Proceeding", "Completed", "Confirmed"}]
      /\ fin \in [Obj -> [Finisher -> FinPhase]]
  BY Zenon DEF TypeOK
<1>2. ASSUME NEW k \in Key, NEW p \in Peer, NEW o \in Obj, NewRequest(k, p, o)
  PROVE RegInv'
  <2>1. Created(k, o)
    BY NewObject, <1>2, Zenon
  <2>2. \A u \in Obj \ {o} : Alive(u)' <=> Alive(u)
    BY <2>1, Zenon DEF Created
  <2>3. ASSUME NEW u \in Obj \ {o}, Outlived(u) PROVE Outlived(u)'
    <3>1. PICK w \in Obj : key[w] = key[u] /\ state[w] = "Confirmed"
            /\ ~Alive(w)
      BY <2>3, Zenon
    <3>2. w # o
      BY <2>1, <3>1, Zenon DEF Created
    <3>3. key'[w] = key[w] /\ state'[w] = state[w] /\ key'[u] = key[u]
      BY <2>1, <3>2, Zenon DEF Created
    <3> HIDE DEF Alive
    <3>4. ~Alive(w)'
      BY <2>2, <3>1, <3>2, Zenon
    <3> QED
      BY <3>1, <3>3, <3>4, Zenon
  <2>4. ASSUME NEW u \in Obj \ {o}, Alive(u), txs[key[u]] = u
    PROVE txs'[key'[u]] = u
    <3>1. key[u] # k /\ key[u] \in Key
      <4>1. u # o /\ key[u] # None
        BY <2>4, Zenon
      <4>2. txs[k] = None /\ None \notin Obj
        BY <2>1, ServerTxAssumption, Zenon DEF Created
      <4> QED
        BY <1>1, <2>4, <4>1, <4>2, Zenon
    <3> QED
      BY <2>1, <2>4, <3>1, ZenonT(60) DEF Created
  <2>5. txs'[key'[o]] = o
    BY <2>1, Zenon DEF Created
  <2> HIDE DEF Alive, Outlived
  <2> QED
    BY <2>2, <2>3, <2>4, <2>5, Zenon DEF RegInv
<1>3. ASSUME NEW o \in Obj, receiveACK(o) PROVE RegInv'
  <2>1. \A u \in Obj : Alive(u)' <=> Alive(u)
    <3>1. \A u \in Obj \ {o} : fin'[u] = fin[u]
      BY <1>1, <1>3, Zenon DEF receiveACK
    <3>2. \A f \in Finisher : \/ fin'[o][f] = fin[o][f]
                              \/ fin'[o][f] = "due" /\ state[o] # "Confirmed"
                                      /\ f = "ack"
      BY <1>1, <1>3 DEF receiveACK, Finisher
    <3>3. state[o] # "Confirmed" => fin[o]["ack"] = "none"
      BY Zenon DEF FinInv
    <3> QED
      BY <1>3, <3>1, <3>2, <3>3, ZenonT(30) DEF receiveACK
  <2>2. \A u \in Obj : state[u] = "Confirmed" => state'[u] = "Confirmed"
    BY <1>1, <1>3, Zenon DEF receiveACK
  <2>3. UNCHANGED <<txs, key>>
    BY <1>3, Zenon DEF receiveACK
  <2>4. \A u \in Obj : Outlived(u) => Outlived(u)'
    <3> HIDE DEF Alive
    <3> QED
      BY <2>1, <2>2, <2>3, Zenon
  <2> HIDE DEF Alive, Outlived
  <2> QED
    BY <2>1, <2>3, <2>4, Zenon DEF RegInv
<1>4. ASSUME NEW r \in Responder, NEW o \in Obj, RespondProvisional(r, o)
  PROVE RegInv'
  <2>1. UNCHANGED <<key, fin, txs>>
    BY <1>4, Zenon DEF RespondProvisional
  <2>2. \A u \in Obj : state[u] = "Confirmed" => state'[u] = "Confirmed"
    BY <1>1, <1>4, Zenon DEF RespondProvisional
  <2> QED
    BY <2>1, <2>2, RegConfirms, Zenon
<1>5. ASSUME NEW r \in Responder, NEW o \in Obj, NEW c \in Final,
        RespondFinal(r, o, c)
  PROVE RegInv'
  <2>1. Answered(o, c)
    BY NewFinal, <1>5, Zenon
  <2>2. \A u \in Obj : state[u] = "Confirmed" => state'[u] = "Confirmed"
    BY <2>1, Zenon DEF Answered
  <2>3. UNCHANGED <<txs, key, fin>>
    BY <2>1, Zenon DEF Answered
  <2> QED
    BY <2>2, <2>3, RegConfirms, Zenon
<1>6. ASSUME NEW r \in Responder, NEW o \in Obj, NEW c \in Final,
        Schedule(r, o, c)
  PROVE RegInv'
  <2>1. fin[o]["timerJ"] = "none"
    <3>1. Sending(r, o)
      BY <1>6 DEF Schedule, Sending, Idle
    <3> QED
      BY <3>1, Zenon DEF RespInv
  <2>2. /\ fin'[o]["timerJ"] = "due" /\ fin'[o]["ack"] = fin[o]["ack"]
        /\ \A u \in Obj \ {o} : fin'[u] = fin[u]
    BY <1>1, <1>6, Zenon DEF Schedule, Finisher
  <2>3. UNCHANGED <<txs, key, state>>
    BY <1>6, Zenon DEF Schedule
  <2>4. \A u \in Obj : Alive(u)' <=> Alive(u)
    BY <2>1, <2>2, <2>3, Zenon DEF Finisher
  <2> HIDE DEF Alive
  <2> QED
    BY <2>3, <2>4, Zenon DEF RegInv
<1>7. ASSUME NEW o \in Obj, NEW f \in Finisher, FinishRemove(o, f) PROVE RegInv'
  <2>1. /\ fin[o][f] = "due" /\ fin'[o][f] = "check"
        /\ \A u \in Obj \ {o} : fin'[u] = fin[u]
        /\ UNCHANGED <<key, state>>
    BY <1>1, <1>7, Zenon DEF FinishRemove
  <2>2. ~Alive(o)' /\ \A u \in Obj \ {o} : Alive(u)' <=> Alive(u)
    BY <2>1, Zenon
  <2>3. key[o] # None
    BY <2>1, Zenon DEF KeyInv
  <2>4. \A j \in Key \ {key[o]} : txs'[j] = txs[j]
    BY <1>1, <1>7, Zenon DEF FinishRemove
  <2>5. ~Alive(o) => state[o] = "Confirmed"
    <3>1. ~Alive(o) => fin[o]["ack"] # "none"
      BY <2>1, <2>3, Zenon DEF Finisher
    <3> QED
      BY <3>1, Zenon DEF FinInv
  <2> HIDE DEF Alive
  <2>6. ASSUME NEW u \in Obj, Outlived(u) PROVE Outlived(u)'
    BY <2>1, <2>2, <2>6, Zenon
  <2>7. ASSUME NEW u \in Obj \ {o}, Alive(u), key[u] = key[o], ~Outlived(u)
        PROVE  Outlived(u)'
    <3>1. txs[key[u]] = u
      BY <2>7, Zenon DEF RegInv
    <3>2. CASE Alive(o)
      <4>1. Outlived(o)
        BY <2>7, <3>1, <3>2, Zenon DEF RegInv
      <4> QED
        BY <2>7, <4>1, Zenon
    <3>3. CASE ~Alive(o)
      BY <2>5, <2>7, <3>3, Zenon
    <3> QED
      BY <3>2, <3>3, Zenon
  <2>8. ASSUME NEW u \in Obj \ {o}, Alive(u), key[u] # key[o], txs[key[u]] = u
        PROVE  txs'[key'[u]] = u
    BY <1>1, <2>1, <2>4, <2>8, ZenonT(30) DEF Alive
  <2> HIDE DEF Outlived
  <2> QED
    BY <2>1, <2>2, <2>6, <2>7, <2>8, Zenon DEF RegInv
<1>8. ASSUME NEW o \in Obj, NEW f \in Finisher, FinishCheck(o, f) PROVE RegInv'
  <2>1. \A u \in Obj : Alive(u)' <=> Alive(u)
    BY <1>1, <1>8, ZenonT(30) DEF FinishCheck
  <2>2. UNCHANGED <<txs, key, state>>
    BY <1>8, Zenon DEF FinishCheck
  <2> HIDE DEF Alive
  <2> QED
    BY <2>1, <2>2, Zenon DEF RegInv
<1>9. ASSUME NEW o \in Obj, NEW f \in Finisher, FinishClose(o, f) PROVE RegInv'
  <2>1. \A u \in Obj : Alive(u)' <=> Alive(u)
    BY <1>1, <1>9, Zenon DEF FinishClose
  <2>2. UNCHANGED <<txs, key, state>>
    BY <1>9, Zenon DEF FinishClose
  <2> HIDE DEF Alive
  <2> QED
    BY <2>1, <2>2, Zenon DEF RegInv
<1>10. ASSUME NEW k \in Key, NEW p \in Peer,
             KnownRequest(k, p)
      PROVE  RegInv'
  <2>1. UNCHANGED <<key, fin, txs, state>>
    BY <1>10, Zenon DEF KnownRequest
  <2> QED
    BY <2>1, RegKept, Zenon
<1>11. ASSUME NEW b \in Branch,
             Ack(b)
      PROVE  RegInv'
  <2>1. UNCHANGED <<key, fin, txs, state>>
    BY <1>11, Zenon DEF Ack
  <2> QED
    BY <2>1, RegKept, Zenon
<1>12. ASSUME NEW o \in Obj,
             receiveRetransmission(o) \/ ResendFinal(o) \/ LoopStop(o)
             \/ LoopWake(o) \/ LoopResend(o)
      PROVE  RegInv'
  <2>1. UNCHANGED <<key, fin, txs, state>>
    BY <1>12, Zenon DEF receiveRetransmission, ResendFinal, LoopStop, LoopWake,
                 LoopResend
  <2> QED
    BY <2>1, RegKept, Zenon
<1>13. ASSUME NEW r \in Responder, NEW o \in Obj,
             SendProvisional(r, o)
      PROVE  RegInv'
  <2>1. UNCHANGED <<key, fin, txs, state>>
    BY <1>13, Zenon DEF SendProvisional
  <2> QED
    BY <2>1, RegKept, Zenon
<1>14. ASSUME NEW r \in Responder, NEW o \in Obj, NEW c \in Final,
             SendFinal(r, o, c) \/ SendFinalFails(r, o, c)
      PROVE  RegInv'
  <2>1. UNCHANGED <<key, fin, txs, state>>
    BY <1>14, Zenon DEF SendFinal, SendFinalFails
  <2> QED
    BY <2>1, RegKept, Zenon
<1>15. CASE UNCHANGED vars
  <2>1. UNCHANGED <<key, fin, txs, state>>
    BY <1>15, Zenon DEF vars
  <2> QED
    BY <2>1, RegKept, Zenon
<1> QED
  BY Zenon, <1>2, <1>3, <1>4, <1>5, <1>6, <1>7, <1>8, <1>9, <1>10, <1>11, <1>12,
     <1>13, <1>14, <1>15
     DEF Next, Packet, Receive, Respond, RespondOn, Loop, Finish

\* Two finishes meet only after an ACK.
LEMMA CrashStep ==
  ASSUME TypeOK, KeyInv, FinalInv, RespInv, FinInv, CrashInv, [Next]_vars
  PROVE  CrashInv'
<1> USE DEF finVars, history
<1>1. /\ state \in [Obj -> {"Idle", "Proceeding", "Completed", "Confirmed"}]
      /\ terminated \in [Obj -> BOOLEAN]
      /\ fin \in [Obj -> [Finisher -> FinPhase]]
      /\ crashed \in BOOLEAN
  BY Zenon DEF TypeOK
<1>2. ASSUME NEW k \in Key, NEW p \in Peer, NEW o \in Obj, NewRequest(k, p, o)
  PROVE CrashInv'
  <2>1. Created(k, o)
    BY NewObject, <1>2, Zenon
  <2> QED
    BY <1>1, <2>1, ZenonT(30) DEF Created, CrashInv
<1>3. ASSUME NEW o \in Obj, receiveACK(o) PROVE CrashInv'
  BY <1>1, <1>3, Zenon DEF receiveACK, CrashInv
<1>4. ASSUME NEW r \in Responder, NEW o \in Obj, RespondProvisional(r, o)
  PROVE CrashInv'
  BY <1>1, <1>4, Zenon DEF RespondProvisional, CrashInv
<1>5. ASSUME NEW r \in Responder, NEW o \in Obj, NEW c \in Final,
        RespondFinal(r, o, c)
  PROVE CrashInv'
  <2>1. Answered(o, c)
    BY NewFinal, <1>5, Zenon
  <2> QED
    BY <1>1, <2>1, Zenon DEF Answered, CrashInv
<1>6. ASSUME NEW o \in Obj, NEW f \in Finisher, FinishClose(o, f)
  PROVE CrashInv'
  <2>1. CASE terminated[o]
    <3>1. PICK g \in Finisher : fin[o][g] = "done"
      BY <2>1, Zenon DEF FinInv
    <3>2. fin[o][f] = "close"
      BY <1>6, Zenon DEF FinishClose
    <3>3. fin[o]["ack"] # "none"
      BY <3>1, <3>2, Zenon DEF Finisher
    <3> QED
      BY <1>6, <3>3, Zenon DEF FinishClose, FinInv, CrashInv
  <2>2. CASE ~terminated[o]
    BY <1>6, <2>2, Zenon DEF FinishClose, CrashInv
  <2> QED
    BY <2>1, <2>2, Zenon
<1>7. ASSUME NEW k \in Key, NEW p \in Peer,
             KnownRequest(k, p)
      PROVE  CrashInv'
  <2>1. UNCHANGED <<crashed, state>>
    BY <1>7, Zenon DEF KnownRequest
  <2> QED
    BY <2>1, Zenon DEF CrashInv
<1>8. ASSUME NEW b \in Branch,
             Ack(b)
      PROVE  CrashInv'
  <2>1. UNCHANGED <<crashed, state>>
    BY <1>8, Zenon DEF Ack
  <2> QED
    BY <2>1, Zenon DEF CrashInv
<1>9. ASSUME NEW o \in Obj,
             receiveRetransmission(o) \/ ResendFinal(o) \/ LoopStop(o)
             \/ LoopWake(o) \/ LoopResend(o)
      PROVE  CrashInv'
  <2>1. UNCHANGED <<crashed, state>>
    BY <1>9, Zenon DEF receiveRetransmission, ResendFinal, LoopStop, LoopWake,
                LoopResend
  <2> QED
    BY <2>1, Zenon DEF CrashInv
<1>10. ASSUME NEW r \in Responder, NEW o \in Obj,
             SendProvisional(r, o)
      PROVE  CrashInv'
  <2>1. UNCHANGED <<crashed, state>>
    BY <1>10, Zenon DEF SendProvisional
  <2> QED
    BY <2>1, Zenon DEF CrashInv
<1>11. ASSUME NEW r \in Responder, NEW o \in Obj, NEW c \in Final,
             SendFinal(r, o, c) \/ SendFinalFails(r, o, c)
             \/ Schedule(r, o, c)
      PROVE  CrashInv'
  <2>1. UNCHANGED <<crashed, state>>
    BY <1>11, Zenon DEF SendFinal, SendFinalFails, Schedule
  <2> QED
    BY <2>1, Zenon DEF CrashInv
<1>12. ASSUME NEW o \in Obj, NEW f \in Finisher,
             FinishRemove(o, f) \/ FinishCheck(o, f)
      PROVE  CrashInv'
  <2>1. UNCHANGED <<crashed, state>>
    BY <1>12, Zenon DEF FinishRemove, FinishCheck
  <2> QED
    BY <2>1, Zenon DEF CrashInv
<1>13. CASE UNCHANGED vars
  <2>1. UNCHANGED <<crashed, state>>
    BY <1>13, Zenon DEF vars
  <2> QED
    BY <2>1, Zenon DEF CrashInv
<1> QED
  BY Zenon, <1>2, <1>3, <1>4, <1>5, <1>6, <1>7, <1>8, <1>9, <1>10, <1>11, <1>12,
     <1>13
     DEF Next, Packet, Receive, Respond, RespondOn, Loop, Finish

-----------------------------------------------------------------------------
(* The theorems *)

\* The inductive invariant holds in every reachable state.
THEOREM Inductive == Spec => []IInv
<1>1. Init => IInv
  <2> SUFFICES ASSUME Init PROVE IInv
    OBVIOUS
  <2>1. TypeOK
    <3>1. fin \in [Obj -> [Finisher -> FinPhase]]
      BY Zenon DEF Init, FinPhase
    <3> QED
      BY <3>1, Zenon DEF Init, TypeOK
  <2>2. KeyInv
    BY Zenon DEF Init, KeyInv
  <2>3. FinalInv
    BY Zenon DEF Init, FinalInv
  <2>4. RespInv
    BY Zenon DEF Init, RespInv, Sending
  <2>5. LateInv
    <3>1. ASSUME NEW o \in Obj
          PROVE  lateResends[o] = 0 /\ lateResends[o] <= 1 /\ lateResends[o] # 1
      BY DEF Init
    <3> QED
      BY <3>1, Zenon DEF LateInv
  <2>6. CallsInv
    BY DEF Init, CallsInv
  <2>7. FinInv
    BY Zenon DEF Init, FinInv, Finisher
  <2>8. RegInv
    BY Zenon DEF Init, RegInv, Alive
  <2>9. CrashInv
    BY Zenon DEF Init, CrashInv
  <2> QED
    BY <2>1, <2>2, <2>3, <2>4, <2>5, <2>6, <2>7, <2>8, <2>9, Zenon DEF IInv
<1>2. IInv /\ [Next]_vars => IInv'
  BY Zenon, TypeStep, KeyStep, FinalStep, RespStep, LateStep, CallsStep, FinStep, RegStep,
     CrashStep DEF IInv
<1> QED
  BY <1>1, <1>2, PTL DEF Spec

\* The transactions' state keeps its types: in particular nothing but a recorded
\* final response is ever sent.
THEOREM TypeCorrect == Spec => []TypeOK
<1>1. IInv => TypeOK
  BY Zenon DEF IInv
<1> QED
  BY <1>1, Inductive, PTL

\* A step of a goroutine settles on a final response, sends the one settled on,
\* or changes neither.
LEMMA ReplyStep ==
  ASSUME IInv, [Next]_vars
  PROVE  R!Next \/ UNCHANGED <<final, wire>>
<1> USE DEF finVars, history
<1>1. final \in [Obj -> Final \cup {None}] /\ wire \in [Obj -> SUBSET Final]
  BY Zenon DEF IInv, TypeOK
<1>2. FinalInv /\ RespInv
  BY Zenon DEF IInv
<1>3. ASSUME NEW o \in Obj, final[o] # None, final' = final,
             wire' = [wire EXCEPT ![o] = wire[o] \cup {final[o]}]
      PROVE  R!Next
  <2>1. R!Emit(o)
    BY <1>3, Zenon DEF R!Emit
  <2> QED
    BY <2>1, Zenon DEF R!Next
<1>4. ASSUME NEW o \in Obj, ResendFinal(o)
      PROVE  R!Next \/ UNCHANGED <<final, wire>>
  <2>1. run # Idle /\ run.pc = "resend" /\ run.tx = o
    BY <1>4, Zenon DEF ResendFinal, Idle
  <2>2. final[o] # None
    BY <1>2, <2>1, Zenon DEF FinalInv
  <2> QED
    BY <1>3, <1>4, <2>2, Zenon DEF ResendFinal
<1>5. ASSUME NEW o \in Obj, LoopResend(o)
      PROVE  R!Next \/ UNCHANGED <<final, wire>>
  <2>1. final[o] # None
    BY <1>2, <1>5, Zenon DEF FinalInv, LoopResend
  <2> QED
    BY <1>3, <1>5, <2>1, Zenon DEF LoopResend
<1>6. ASSUME NEW r \in Responder, NEW o \in Obj, NEW c \in Final, SendFinal(r, o, c)
      PROVE  R!Next
  <2>1. Sending(r, o) /\ resp[r].code = c
    BY <1>6, SendHolds DEF SendFinal
  <2>2. final[o] = c /\ c # None
    BY <1>2, <2>1, ServerTxAssumption, Zenon DEF RespInv
  <2> QED
    <3>1. final' = final /\ wire' = [wire EXCEPT ![o] = wire[o] \cup {c}]
      BY <1>6, Zenon DEF SendFinal
    <3>2. final[o] # None /\ wire' = [wire EXCEPT ![o] = wire[o] \cup {final[o]}]
      BY <2>2, <3>1, Zenon
    <3>3. R!Emit(o)
      BY <3>1, <3>2, Zenon DEF R!Emit
    <3> QED
      BY <3>3, Zenon DEF R!Next
<1>7. ASSUME NEW r \in Responder, NEW o \in Obj, NEW c \in Final, RespondFinal(r, o, c)
      PROVE  R!Next
  <2>1. R!Choose(o, c)
    BY <1>7, Zenon DEF RespondFinal, R!Choose
  <2> QED
    BY <2>1, Zenon DEF R!Next
<1>8. ASSUME NEW o \in Obj,
             receiveRetransmission(o) \/ receiveACK(o) \/ LoopStop(o) \/ LoopWake(o)
      PROVE  UNCHANGED <<final, wire>>
  BY <1>8, Zenon DEF receiveRetransmission, receiveACK, LoopStop, LoopWake
<1>9. ASSUME NEW o \in Obj, NEW f \in Finisher, Finish(o, f)
      PROVE  UNCHANGED <<final, wire>>
  BY <1>9, Zenon DEF Finish, FinishRemove, FinishCheck, FinishClose
<1>10. ASSUME NEW r \in Responder, NEW o \in Obj,
              RespondProvisional(r, o) \/ SendProvisional(r, o)
       PROVE  UNCHANGED <<final, wire>>
  BY <1>10, Zenon DEF RespondProvisional, SendProvisional
<1>11. ASSUME NEW r \in Responder, NEW o \in Obj, NEW c \in Final,
              SendFinalFails(r, o, c) \/ Schedule(r, o, c)
       PROVE  UNCHANGED <<final, wire>>
  BY <1>11, Zenon DEF SendFinalFails, Schedule
<1>12. CASE Packet
  BY <1>12, ZenonT(30) DEF Packet, NewRequest, KnownRequest, Ack
<1>13. CASE UNCHANGED vars
  BY <1>13, Zenon DEF vars
<1> QED
  BY <1>4, <1>5, <1>6, <1>7, <1>8, <1>9, <1>10, <1>11, <1>12, <1>13, Zenon
     DEF Next, Receive, Respond, RespondOn, Loop

\* Respond, the loop and the answers to retransmissions implement Reply: the
\* other side sees at most one final response of a transaction.
THEOREM ServerTxImplementsReply == Spec => OneReply
<1>1. Init => R!Init
  BY Zenon DEF Init, R!Init
<1>2. IInv /\ [Next]_vars => [R!Next]_<<final, wire>>
  BY ReplyStep, Zenon
<1> QED
  BY <1>1, <1>2, Inductive, PTL DEF Spec, OneReply, R!Spec

\* What a step may do to the state of a transaction.
LEMMA StateStep ==
  ASSUME IInv, [Next]_vars, NEW u \in Obj
  PROVE  \/ state'[u] = state[u]
         \/ state[u] = "Idle" /\ state'[u] = "Proceeding"
         \/ state[u] \in {"Idle", "Proceeding"} /\ state'[u] = "Completed"
         \/ state[u] = "Completed" /\ state'[u] = "Confirmed"
<1> DEFINE Fwd == \/ state'[u] = state[u]
                  \/ state[u] = "Idle" /\ state'[u] = "Proceeding"
                  \/ state[u] \in {"Idle", "Proceeding"} /\ state'[u] = "Completed"
                  \/ state[u] = "Completed" /\ state'[u] = "Confirmed"
<1>1. /\ TypeOK /\ KeyInv /\ FinalInv /\ RespInv
      /\ state \in [Obj -> {"Idle", "Proceeding", "Completed", "Confirmed"}]
  BY Zenon DEF IInv, TypeOK
<1>2. ASSUME NEW k \in Key, NEW p \in Peer, NEW o \in Obj, NewRequest(k, p, o)
      PROVE  Fwd
  <2>1. Created(k, o)
    BY <1>1, <1>2, NewObject, Zenon
  <2> QED
    BY <2>1, Zenon DEF Created
<1>3. ASSUME NEW o \in Obj, receiveACK(o) PROVE Fwd
  BY <1>1, <1>3, Zenon DEF receiveACK
<1>4. ASSUME NEW r \in Responder, NEW o \in Obj, RespondProvisional(r, o) PROVE Fwd
  BY <1>1, <1>4, Zenon DEF RespondProvisional
<1>5. ASSUME NEW r \in Responder, NEW o \in Obj, NEW c \in Final, RespondFinal(r, o, c)
      PROVE  Fwd
  <2>1. Answered(o, c)
    BY <1>1, <1>5, NewFinal, Zenon
  <2> QED
    BY <1>1, <2>1, Zenon DEF Answered
<1>6. ASSUME NEW o \in Obj, receiveRetransmission(o) \/ ResendFinal(o) \/ Loop(o)
      PROVE  Fwd
  BY <1>6, Zenon DEF receiveRetransmission, ResendFinal, Loop, LoopStop, LoopWake, LoopResend
<1>7. ASSUME NEW o \in Obj, NEW f \in Finisher, Finish(o, f) PROVE Fwd
  BY <1>7, Zenon DEF Finish, FinishRemove, FinishCheck, FinishClose
<1>8. ASSUME NEW r \in Responder, NEW o \in Obj, RespondOn(r, o) PROVE Fwd
  <2>1. state' = state
    BY <1>8, Zenon DEF RespondOn, SendProvisional, SendFinal, SendFinalFails, Schedule
  <2> QED
    BY <2>1, Zenon
<1>9. ASSUME NEW k \in Key, NEW p \in Peer, KnownRequest(k, p) PROVE Fwd
  BY <1>9, Zenon DEF KnownRequest
<1>10. ASSUME NEW b \in Branch, Ack(b) PROVE Fwd
  BY <1>10, Zenon DEF Ack
<1>11. CASE UNCHANGED vars
  BY <1>11, Zenon DEF vars
<1> QED
  BY <1>2, <1>3, <1>4, <1>5, <1>6, <1>7, <1>8, <1>9, <1>10, <1>11, Zenon
     DEF Next, Packet, Receive, Respond

\* Respond and receiveACK never take a transaction's state back.
THEOREM StateNeverBack == Spec => NeverBack
<1>1. IInv /\ [Next]_vars => [\A o \in Obj : Rank(state'[o]) >= Rank(state[o])]_vars
  <2> SUFFICES ASSUME IInv, [Next]_vars, NEW o \in Obj
               PROVE  Rank(state'[o]) >= Rank(state[o])
    OBVIOUS
  <2>1. /\ Rank("Idle") = 0 /\ Rank("Proceeding") = 1
        /\ Rank("Completed") = 2 /\ Rank("Confirmed") = 3
    BY Zenon DEF Rank
  <2>2. state[o] \in {"Idle", "Proceeding", "Completed", "Confirmed"}
    BY Zenon DEF IInv, TypeOK
  <2>3. CASE state'[o] = state[o]
    <3>1. Rank(state[o]) \in Nat
      BY <2>1, <2>2
    <3> QED
      BY <2>3, <3>1
  <2>4. CASE state[o] = "Idle" /\ state'[o] = "Proceeding"
    BY <2>1, <2>4
  <2>5. CASE state[o] \in {"Idle", "Proceeding"} /\ state'[o] = "Completed"
    BY <2>1, <2>5
  <2>6. CASE state[o] = "Completed" /\ state'[o] = "Confirmed"
    BY <2>1, <2>6
  <2> QED
    BY <2>3, <2>4, <2>5, <2>6, StateStep, Zenon
<1> QED
  BY <1>1, Inductive, PTL DEF Spec, NeverBack

\* After the ACK, the loop sends the final response at most once more.
THEOREM LateResendBound == Spec => []OneLateResend
<1>1. IInv => OneLateResend
  BY Zenon DEF IInv, LateInv, OneLateResend
<1> QED
  BY <1>1, Inductive, PTL

\* Duplicates of a request are absorbed until a finish removes the entry.
THEOREM DuplicatesAbsorbed == Spec => []HandlerOnce
<1>1. IInv => HandlerOnce
  BY DEF IInv, TypeOK, CallsInv, HandlerOnce
<1> QED
  BY <1>1, Inductive, PTL

\* Only an acknowledged INVITE's Timer J can unregister a live transaction.
THEOREM Registered == Spec => []RegisteredUntilFinish
<1>1. IInv => RegisteredUntilFinish
  <2> SUFFICES ASSUME IInv, NEW o \in Obj, key[o] # None,
                      \A f \in Finisher : fin[o][f] \in {"none", "due"}
               PROVE  \/ txs[key[o]] = o
                      \/ \E u \in Obj \ {o} : key[u] = key[o] /\ state[u] = "Confirmed"
    BY Zenon DEF RegisteredUntilFinish
  <2>1. Alive(o)
    BY SMTT(30) DEF Alive
  <2>2. txs[key[o]] = o \/ Outlived(o)
    BY <2>1, Zenon DEF IInv, RegInv
  <2> QED
    BY <2>1, <2>2, Zenon DEF Outlived
<1> QED
  BY <1>1, Inductive, PTL

\* finish panics only for an INVITE that was acknowledged.
THEOREM PanicNeedsAck == Spec => []CrashNeedsAck
<1>1. IInv => CrashNeedsAck
  BY Zenon DEF IInv, CrashInv, CrashNeedsAck
<1> QED
  BY <1>1, Inductive, PTL
=============================================================================
