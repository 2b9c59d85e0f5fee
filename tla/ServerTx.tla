------------------------------ MODULE ServerTx ------------------------------
(***************************************************************************)
(* The server transactions of one TxManager (transaction.go).              *)
(*                                                                         *)
(* Goroutines and what they run:                                           *)
(*   - TxManager.Run, which handles one packet after the other: a request  *)
(*     that opens a transaction, a retransmitted one, a CANCEL, an ACK;    *)
(*   - the application's goroutines, any of which may call Respond on a    *)
(*     transaction the request handler was given;                          *)
(*   - the retransmission loop of an INVITE's final response;              *)
(*   - the time.AfterFunc goroutines that run finish.                      *)
(* A step is what one of them does while it holds a mutex, or one send.    *)
(*                                                                         *)
(* A transaction object is named by a member of Obj; several objects can   *)
(* have one key, one after the other.  The network may deliver a request   *)
(* again at any time, and an ACK once a final response has been sent.      *)
(***************************************************************************)
EXTENDS Naturals

CONSTANTS
  Obj,        \* ServerTx objects; how many there are bounds a TLC run
  Branch,     \* Via branches
  Peer,       \* source addresses
  Final,      \* final status codes
  Responder,  \* goroutines of the application that call Respond
  None

ASSUME ServerTxAssumption ==
  /\ None \notin Obj
  /\ None \notin Branch \X {"INVITE", "CANCEL", "OTHER"}
  /\ None \notin Final
  /\ "provisional" \notin Final

\* serverTxKey: the branch and the method of the CSeq.
Method == {"INVITE", "CANCEL", "OTHER"}
Key    == Branch \X Method

InviteKey(b) == <<b, "INVITE">>

VARIABLES
  txs,         \* TxManager.txs: the registered server transactions
  key, src,    \* ServerTx.key and ServerTx.src; None before it is created
  state,       \* ServerTx.state
  final,       \* ServerTx.final
  stop,        \* ServerTx.stop has been closed
  terminated,  \* ServerTx.terminated has been closed
  loop,        \* progress of the loop startFinalRetransmit starts
  fin,         \* per scheduled finish: how far it has got
  run,         \* what the Run goroutine is doing
  resp,        \* what each application goroutine is doing in Respond
  wire,        \* the final responses a transaction has sent
  crashed,     \* close of a closed channel: the process has panicked
  calls,       \* history: how often the handler was given a key's request
  removed,     \* history: how often finish removed a key's entry
  lateResends, \* history: loop's sends after the ACK was taken
  sendFailed   \* history: sending an INVITE's final response failed

finVars == <<stop, terminated, fin, crashed>>
history == <<calls, removed, lateResends, sendFailed>>
vars    == <<txs, key, src, state, final, loop, finVars, run, resp, wire, history>>

Finisher == {"timerJ", "ack"}
FinPhase == {"none", "due", "check", "close", "done"}
Idle     == [pc |-> "idle"]
RunWork  == [pc : {"ack", "again", "resend"}, tx : Obj]
RespWork == [pc : {"send", "schedule"}, tx : Obj, code : Final \cup {"provisional"}]

IsInvite(o) == \E b \in Branch : key[o] = InviteKey(b)

TypeOK ==
  /\ txs \in [Key -> Obj \cup {None}]
  /\ key \in [Obj -> Key \cup {None}]
  /\ src \in [Obj -> Peer \cup {None}]
  /\ state \in [Obj -> {"Idle", "Proceeding", "Completed", "Confirmed"}]
  /\ final \in [Obj -> Final \cup {None}]
  /\ stop \in [Obj -> BOOLEAN]
  /\ terminated \in [Obj -> BOOLEAN]
  /\ loop \in [Obj -> {"none", "wait", "resend", "exit"}]
  /\ fin \in [Obj -> [Finisher -> FinPhase]]
  /\ run \in {Idle} \cup RunWork
  /\ resp \in [Responder -> {Idle} \cup RespWork]
  /\ wire \in [Obj -> SUBSET Final]
  /\ crashed \in BOOLEAN
  /\ calls \in [Key -> Nat]
  /\ removed \in [Key -> Nat]
  /\ lateResends \in [Obj -> Nat]
  /\ sendFailed \in [Obj -> BOOLEAN]

Init ==
  /\ txs = [k \in Key |-> None]
  /\ key = [o \in Obj |-> None]
  /\ src = [o \in Obj |-> None]
  /\ state = [o \in Obj |-> "Idle"]
  /\ final = [o \in Obj |-> None]
  /\ stop = [o \in Obj |-> FALSE]
  /\ terminated = [o \in Obj |-> FALSE]
  /\ loop = [o \in Obj |-> "none"]
  /\ fin = [o \in Obj |-> [f \in Finisher |-> "none"]]
  /\ run = Idle
  /\ resp = [r \in Responder |-> Idle]
  /\ wire = [o \in Obj |-> {}]
  /\ crashed = FALSE
  /\ calls = [k \in Key |-> 0]
  /\ removed = [k \in Key |-> 0]
  /\ lateResends = [o \in Obj |-> 0]
  /\ sendFailed = [o \in Obj |-> FALSE]

-----------------------------------------------------------------------------
(* TxManager.handleRequest, on the Run goroutine *)

\* A CANCEL from another address than the registered INVITE's is dropped.
Admitted(k, p) ==
  k[2] = "CANCEL" /\ txs[InviteKey(k[1])] # None => src[txs[InviteKey(k[1])]] = p

\* Mutants of Unregistered: the key is taken for free, or for taken.
NeverRegistered(k) == TRUE
AlwaysRegistered(k) == FALSE

Unregistered(k) == txs[k] = None

\* No transaction has the key: one is created and registered in the same
\* critical section, and the handler is called with it.
NewRequest(k, p, o) ==
  /\ run = Idle
  /\ Admitted(k, p)
  /\ Unregistered(k)
  /\ key[o] = None
  /\ txs' = [txs EXCEPT ![k] = o]
  /\ key' = [key EXCEPT ![o] = k]
  /\ src' = [src EXCEPT ![o] = p]
  /\ state' = [state EXCEPT ![o] = "Proceeding"]
  /\ calls' = [calls EXCEPT ![k] = @ + 1]
  /\ UNCHANGED <<final, loop, finVars, run, resp, wire, removed, lateResends,
                 sendFailed>>

\* The transaction is looked up under the manager's mutex and used after it.
KnownRequest(k, p) ==
  /\ run = Idle
  /\ Admitted(k, p)
  /\ ~Unregistered(k)
  /\ run' = [pc |-> "again", tx |-> txs[k]]
  /\ UNCHANGED <<txs, key, src, state, final, loop, finVars, resp, wire, history>>

\* An ACK looks for the INVITE of its branch.  Without one, the handler is
\* called with no transaction, and nothing changes here.
Ack(b) ==
  /\ run = Idle
  /\ \E o \in Obj : key[o] = InviteKey(b) /\ wire[o] # {}
  /\ txs[InviteKey(b)] # None
  /\ run' = [pc |-> "ack", tx |-> txs[InviteKey(b)]]
  /\ UNCHANGED <<txs, key, src, state, final, loop, finVars, resp, wire, history>>

receiveRetransmission(o) ==
  /\ run = [pc |-> "again", tx |-> o]
  /\ run' = IF final[o] # None /\ state[o] \in {"Completed", "Confirmed"}
            THEN [pc |-> "resend", tx |-> o]
            ELSE Idle
  /\ UNCHANGED <<txs, key, src, state, final, loop, finVars, resp, wire, history>>

\* A send may fail; the error is dropped.
ResendFinal(o) ==
  /\ run = [pc |-> "resend", tx |-> o]
  /\ \/ wire' = [wire EXCEPT ![o] = @ \cup {final[o]}]
     \/ UNCHANGED wire
  /\ run' = Idle
  /\ UNCHANGED <<txs, key, src, state, final, loop, finVars, resp, history>>

\* Mutant: the ACK schedules finish but leaves the state.
AckLeavesState == "Completed"

AckedState == "Confirmed"

\* The first ACK stops the retransmissions and schedules finish after T1*4.
\* The finish that Respond schedules stays scheduled.
receiveACK(o) ==
  /\ run = [pc |-> "ack", tx |-> o]
  /\ IF IsInvite(o) /\ state[o] = "Completed"
     THEN /\ state' = [state EXCEPT ![o] = AckedState]
          /\ fin' = [fin EXCEPT ![o]["ack"] = "due"]
     ELSE UNCHANGED <<state, fin>>
  /\ run' = Idle
  /\ UNCHANGED <<txs, key, src, final, loop, stop, terminated, crashed, resp, wire,
                 history>>

-----------------------------------------------------------------------------
(* ServerTx.Respond, on a goroutine of the application *)

\* Mutant: a provisional response is accepted in every state.
AlwaysOpen(o) == key[o] # None

Open(o) == state[o] = "Proceeding"

\* ErrTxTerminated in any other state.
RespondProvisional(r, o) ==
  /\ resp[r] = Idle
  /\ Open(o)
  /\ state' = [state EXCEPT ![o] = "Proceeding"]
  /\ resp' = [resp EXCEPT ![r] = [pc |-> "send", tx |-> o, code |-> "provisional"]]
  /\ UNCHANGED <<txs, key, src, final, loop, finVars, run, wire, history>>

\* Mutant: a later final response replaces the first.
AlwaysUnanswered(o) == TRUE

Unanswered(o) == final[o] = None

\* With a final response recorded already, Respond returns nil and does nothing.
RespondFinal(r, o, c) ==
  /\ resp[r] = Idle
  /\ key[o] # None
  /\ Unanswered(o)
  /\ final' = [final EXCEPT ![o] = c]
  /\ state' = [state EXCEPT ![o] = "Completed"]
  /\ resp' = [resp EXCEPT ![r] = [pc |-> "send", tx |-> o, code |-> c]]
  /\ UNCHANGED <<txs, key, src, loop, finVars, run, wire, history>>

SendProvisional(r, o) ==
  /\ resp[r] = [pc |-> "send", tx |-> o, code |-> "provisional"]
  /\ resp' = [resp EXCEPT ![r] = Idle]
  /\ UNCHANGED <<txs, key, src, state, final, loop, finVars, run, wire, history>>

SendFinal(r, o, c) ==
  /\ resp[r] = [pc |-> "send", tx |-> o, code |-> c]
  /\ wire' = [wire EXCEPT ![o] = @ \cup {c}]
  /\ resp' = [resp EXCEPT ![r] = [pc |-> "schedule", tx |-> o, code |-> c]]
  /\ UNCHANGED <<txs, key, src, state, final, loop, finVars, run, history>>

\* The transport reports an error.  For an INVITE, Respond returns it and
\* neither retransmits nor schedules anything.
SendFinalFails(r, o, c) ==
  /\ resp[r] = [pc |-> "send", tx |-> o, code |-> c]
  /\ resp' = [resp EXCEPT ![r] = IF IsInvite(o) THEN Idle
                                 ELSE [pc |-> "schedule", tx |-> o, code |-> c]]
  /\ sendFailed' = [sendFailed EXCEPT ![o] = IsInvite(o)]
  /\ UNCHANGED <<txs, key, src, state, final, loop, finVars, run, wire, calls, removed,
                 lateResends>>

\* A select entered with stop closed returns at once: its timer is not ready.
Select(o) == IF stop[o] THEN "exit" ELSE "wait"

\* Mutant: Timer J is not scheduled for an INVITE.
ScheduleLoopOnly(r, o, c) ==
  /\ resp[r] = [pc |-> "schedule", tx |-> o, code |-> c]
  /\ IF IsInvite(o)
     THEN loop' = [loop EXCEPT ![o] = Select(o)] /\ UNCHANGED fin
     ELSE fin' = [fin EXCEPT ![o]["timerJ"] = "due"] /\ UNCHANGED loop
  /\ resp' = [resp EXCEPT ![r] = Idle]
  /\ UNCHANGED <<txs, key, src, state, final, stop, terminated, crashed, run,
                 wire, history>>

\* startFinalRetransmit for an INVITE, and finish after Timer J.
Schedule(r, o, c) ==
  /\ resp[r] = [pc |-> "schedule", tx |-> o, code |-> c]
  /\ loop' = IF IsInvite(o) THEN [loop EXCEPT ![o] = Select(o)] ELSE loop
  /\ fin' = [fin EXCEPT ![o]["timerJ"] = "due"]
  /\ resp' = [resp EXCEPT ![r] = Idle]
  /\ UNCHANGED <<txs, key, src, state, final, stop, terminated, crashed, run,
                 wire, history>>

-----------------------------------------------------------------------------
(* The loop of startFinalRetransmit *)

LoopStop(o) ==
  /\ loop[o] = "wait"
  /\ stop[o]
  /\ loop' = [loop EXCEPT ![o] = "exit"]
  /\ UNCHANGED <<txs, key, src, state, final, finVars, run, resp, wire, history>>

\* Mutant: the state is not read.
AlwaysUnacked(o) == TRUE

Unacked(o) == state[o] = "Completed"

\* time.After has fired; the state is read under the mutex, which is let go.
LoopWake(o) ==
  /\ loop[o] = "wait"
  /\ loop' = [loop EXCEPT ![o] = IF Unacked(o) THEN "resend" ELSE "exit"]
  /\ UNCHANGED <<txs, key, src, state, final, finVars, run, resp, wire, history>>

LoopResend(o) ==
  /\ loop[o] = "resend"
  /\ \/ wire' = [wire EXCEPT ![o] = @ \cup {final[o]}]
     \/ UNCHANGED wire
  /\ lateResends' = [lateResends EXCEPT ![o] = IF state[o] = "Confirmed" THEN @ + 1 ELSE @]
  /\ loop' = [loop EXCEPT ![o] = Select(o)]
  /\ UNCHANGED <<txs, key, src, state, final, finVars, run, resp, calls, removed, sendFailed>>

-----------------------------------------------------------------------------
(* ServerTx.finish *)

\* stopOnce closes stop; remove deletes whatever is registered for the key.
FinishRemove(o, f) ==
  /\ fin[o][f] = "due"
  /\ stop' = [stop EXCEPT ![o] = TRUE]
  /\ txs' = [txs EXCEPT ![key[o]] = None]
  /\ removed' = [removed EXCEPT ![key[o]] = IF txs[key[o]] = None THEN @ ELSE @ + 1]
  /\ fin' = [fin EXCEPT ![o][f] = "check"]
  /\ UNCHANGED <<key, src, state, final, loop, terminated, crashed, run, resp, wire, calls,
                 lateResends, sendFailed>>

\* The select that asks whether terminated is closed holds no mutex ...
FinishCheck(o, f) ==
  /\ fin[o][f] = "check"
  /\ fin' = [fin EXCEPT ![o][f] = IF terminated[o] THEN "done" ELSE "close"]
  /\ UNCHANGED <<txs, key, src, state, final, loop, stop, terminated, crashed, run, resp,
                 wire, history>>

\* ... and neither does the close: of a closed channel, it panics.
FinishClose(o, f) ==
  /\ fin[o][f] = "close"
  /\ crashed' = terminated[o]
  /\ terminated' = [terminated EXCEPT ![o] = TRUE]
  /\ fin' = [fin EXCEPT ![o][f] = "done"]
  /\ UNCHANGED <<txs, key, src, state, final, loop, stop, run, resp, wire, history>>

-----------------------------------------------------------------------------
Receive(o) == receiveRetransmission(o) \/ ResendFinal(o) \/ receiveACK(o)

Packet ==
  \/ \E k \in Key, p \in Peer :
       KnownRequest(k, p) \/ \E o \in Obj : NewRequest(k, p, o)
  \/ \E b \in Branch : Ack(b)

Respond(r, o) ==
  \/ RespondProvisional(r, o)
  \/ \E c \in Final : RespondFinal(r, o, c)

\* What Respond does after its critical section.
RespondOn(r, o) ==
  \/ SendProvisional(r, o)
  \/ \E c \in Final : SendFinal(r, o, c) \/ SendFinalFails(r, o, c) \/ Schedule(r, o, c)

Loop(o) == LoopStop(o) \/ LoopWake(o) \/ LoopResend(o)

Finish(o, f) == FinishRemove(o, f) \/ FinishCheck(o, f) \/ FinishClose(o, f)

\* A panic takes the whole process down.
Next ==
  /\ ~crashed
  /\ \/ Packet
     \/ \E o \in Obj :
          \/ Receive(o)
          \/ \E r \in Responder : Respond(r, o) \/ RespondOn(r, o)
          \/ Loop(o)
          \/ \E f \in Finisher : Finish(o, f)

Spec == Init /\ [][Next]_vars

\* What Go's scheduler and timers guarantee: a goroutine that can go on does,
\* and a timer that was set fires.  Packets and the application owe nothing.
Fairness ==
  /\ \A o \in Obj :
       /\ WF_vars(~crashed /\ Receive(o))
       /\ WF_vars(~crashed /\ Loop(o))
       /\ \A f \in Finisher : WF_vars(~crashed /\ Finish(o, f))
  /\ \A r \in Responder : WF_vars(~crashed /\ \E o \in Obj : RespondOn(r, o))

FairSpec == Spec /\ Fairness

-----------------------------------------------------------------------------
(* Properties *)

\* Whoever calls Respond, and however the first copy, the loop's copies and the
\* answers to retransmitted requests interleave: the other side sees at most one
\* final response.
R == INSTANCE Reply WITH chosen <- final, sent <- wire

OneReply == R!Spec

\* Respond and receiveACK never take a transaction back, though a provisional
\* response and a final one may be under way at the same time.
Rank(s) == CASE s = "Idle" -> 0 [] s = "Proceeding" -> 1
             [] s = "Completed" -> 2 [] s = "Confirmed" -> 3

NeverBack == [][\A o \in Obj : Rank(state'[o]) >= Rank(state[o])]_vars

\* After the ACK was taken, the loop sends the final response at most once more.
OneLateResend == \A o \in Obj : lateResends[o] <= 1

\* handleRequest calls the handler again for a key only after a finish has
\* removed its entry: duplicates of a request are absorbed.
HandlerOnce == \A k \in Key : calls[k] <= removed[k] + 1

\* A transaction that no finish of its own has reached is registered, unless an
\* earlier INVITE transaction with its key was acknowledged: that one's Timer J
\* deletes by key.
RegisteredUntilFinish ==
  \A o \in Obj :
    key[o] # None /\ (\A f \in Finisher : fin[o][f] \in {"none", "due"})
      => \/ txs[key[o]] = o
         \/ \E u \in Obj \ {o} : key[u] = key[o] /\ state[u] = "Confirmed"

\* finish does not guard its close with a mutex.  Only an acknowledged INVITE
\* has two finishes that could meet there.
CrashNeedsAck == crashed => \E o \in Obj : state[o] = "Confirmed"

\* A transaction with a final response ends, except an INVITE whose final
\* response could not be sent.
FinalEnds ==
  \A o \in Obj : final[o] # None ~> terminated[o] \/ crashed \/ sendFailed[o]
=============================================================================
