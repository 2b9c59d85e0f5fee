------------------------------ MODULE ClientTx ------------------------------
(***************************************************************************)
(* The client transactions of one TxManager (transaction.go).              *)
(*                                                                         *)
(* Goroutines and what they run:                                           *)
(*   - the caller of TxManager.Request, once per transaction;              *)
(*   - the retransmission loop Request starts (startRetransmit, timeout);  *)
(*   - the single goroutine of TxManager.Run, which handles one packet     *)
(*     after the other (handleResponse, receive);                          *)
(*   - the time.AfterFunc goroutines of Timer D, which run finish;         *)
(*   - the application, which reads Events() and may call Cancel().        *)
(* A step is what one of them does while it holds a mutex, or one send.    *)
(*                                                                         *)
(* Every transaction has a key of its own: NewBranch draws 96 random bits. *)
(* The wire is a growing set: a message in it may arrive at any later time,*)
(* any number of times, or never, so loss, duplication and reordering need *)
(* no action.  A response is known by its class, which is all that receive *)
(* looks at.                                                               *)
(***************************************************************************)
EXTENDS Naturals, Sequences

CONSTANTS
  Tx,        \* the client transactions (their keys)
  Invite,    \* those whose method is INVITE
  T1, T2,    \* TxConfig.T1 and TxConfig.T2, in ticks
  TimerF,    \* TxConfig.TimerF, in ticks
  EventCap   \* capacity of ClientTx.events

ASSUME ClientTxAssumption ==
  /\ Invite \subseteq Tx
  /\ T1 \in Nat \ {0}
  /\ T2 \in Nat \ {0}
  /\ TimerF \in Nat \ {0}
  /\ EventCap \in Nat

VARIABLES
  txs,         \* TxManager.txs: the registered client transactions
  state,       \* ClientTx.state
  events,      \* ClientTx.events, a buffered channel
  stop,        \* ClientTx.stop has been closed
  terminated,  \* ClientTx.terminated has been closed
  caller,      \* progress of TxManager.Request
  loop,        \* progress of the retransmission goroutine
  interval,    \* its interval
  elapsed,     \* its elapsed
  run,         \* what the Run goroutine is doing
  fin,         \* per goroutine that may call finish: how far it has got
  wireReq,     \* requests of a transaction sent so far
  wireResp,    \* responses sent back so far
  crashed,     \* close of a closed channel: the process has panicked
  finals,      \* history: how many final responses were put into events
  expired,     \* history: timeout has gone past its check of the state
  lateResends, \* history: retransmissions after stop was closed
  overwritten  \* history: Request overwrote a state set by a response

loopVars == <<loop, interval, elapsed>>
finVars  == <<stop, terminated, fin, crashed>>
history  == <<finals, expired, lateResends, overwritten>>
vars     == <<txs, state, events, caller, loopVars, run, finVars, wireReq,
              wireResp, history>>

TxState == {"Idle", "Calling", "Trying", "Proceeding", "Completed",
            "Confirmed", "Terminated"}

\* 1xx, 2xx, and everything from 300 up.
FinalClass == {"success", "failure"}
Class      == {"provisional"} \cup FinalClass
Event      == Class \cup {"timeout"}
ReqMethod  == {"request", "ACK", "CANCEL"}

\* The retransmission loop, the Run goroutine and the Timer D goroutines.
\* Only a state set back by Request lets a second Timer D be scheduled.
Finisher  == {"loop", "run", "timer1", "timer2"}
FinPhase  == {"none", "due", "check", "close"}

Idle      == [pc |-> "idle"]
RunWork   == [pc : {"receive", "deliver"}, tx : Tx, class : Class]

TypeOK ==
  /\ txs \subseteq Tx
  /\ state \in [Tx -> TxState]
  /\ events \in [Tx -> Seq(Event)]
  /\ \A t \in Tx : Len(events[t]) <= EventCap
  /\ stop \in [Tx -> BOOLEAN]
  /\ terminated \in [Tx -> BOOLEAN]
  /\ caller \in [Tx -> {"idle", "registered", "sent", "returned", "error"}]
  /\ loop \in [Tx -> {"none", "wait", "resend", "timeout", "expire", "exit"}]
  /\ interval \in [Tx -> Nat]
  /\ elapsed \in [Tx -> Nat]
  /\ run \in {Idle} \cup RunWork
  /\ fin \in [Tx -> [Finisher -> FinPhase]]
  /\ wireReq \in [Tx -> SUBSET ReqMethod]
  /\ wireResp \in [Tx -> SUBSET Class]
  /\ crashed \in BOOLEAN
  /\ finals \in [Tx -> Nat]
  /\ expired \in [Tx -> BOOLEAN]
  /\ lateResends \in [Tx -> Nat]
  /\ overwritten \in [Tx -> BOOLEAN]

Init ==
  /\ txs = {}
  /\ state = [t \in Tx |-> "Idle"]
  /\ events = [t \in Tx |-> <<>>]
  /\ stop = [t \in Tx |-> FALSE]
  /\ terminated = [t \in Tx |-> FALSE]
  /\ caller = [t \in Tx |-> "idle"]
  /\ loop = [t \in Tx |-> "none"]
  /\ interval = [t \in Tx |-> T1]
  /\ elapsed = [t \in Tx |-> 0]
  /\ run = Idle
  /\ fin = [t \in Tx |-> [f \in Finisher |-> "none"]]
  /\ wireReq = [t \in Tx |-> {}]
  /\ wireResp = [t \in Tx |-> {}]
  /\ crashed = FALSE
  /\ finals = [t \in Tx |-> 0]
  /\ expired = [t \in Tx |-> FALSE]
  /\ lateResends = [t \in Tx |-> 0]
  /\ overwritten = [t \in Tx |-> FALSE]

-----------------------------------------------------------------------------
(* TxManager.Request *)

\* The key is looked up and the transaction inserted in one critical section;
\* for a registered key Request returns ErrTxExists and changes nothing.
RequestRegister(t) ==
  /\ caller[t] = "idle"
  /\ t \notin txs
  /\ txs' = txs \cup {t}
  /\ caller' = [caller EXCEPT ![t] = "registered"]
  /\ UNCHANGED <<state, events, loopVars, run, finVars, wireReq, wireResp, history>>

RequestSend(t) ==
  /\ caller[t] = "registered"
  /\ wireReq' = [wireReq EXCEPT ![t] = @ \cup {"request"}]
  /\ caller' = [caller EXCEPT ![t] = "sent"]
  /\ UNCHANGED <<txs, state, events, loopVars, run, finVars, wireResp, history>>

\* The transport refuses the message: nothing is on the wire, the entry goes.
RequestSendFails(t) ==
  /\ caller[t] = "registered"
  /\ txs' = txs \ {t}
  /\ caller' = [caller EXCEPT ![t] = "error"]
  /\ UNCHANGED <<state, events, loopVars, run, finVars, wireReq, wireResp, history>>

\* Mutant: stop is not looked at.
SelectIgnoresStop(t) == "wait"

\* A select entered with stop closed returns at once: its timer is not ready.
Select(t) == IF stop[t] THEN "exit" ELSE "wait"

\* Only now is the state set, whatever a response has made of it meanwhile,
\* and the retransmission goroutine started.
RequestReturn(t) ==
  /\ caller[t] = "sent"
  /\ state' = [state EXCEPT ![t] = IF t \in Invite THEN "Calling" ELSE "Trying"]
  /\ overwritten' = [overwritten EXCEPT ![t] = state[t] # "Idle"]
  /\ caller' = [caller EXCEPT ![t] = "returned"]
  /\ loop' = [loop EXCEPT ![t] = Select(t)]
  /\ UNCHANGED <<txs, events, interval, elapsed, run, finVars, wireReq, wireResp,
                 finals, expired, lateResends>>

-----------------------------------------------------------------------------
(* ClientTx.startRetransmit and ClientTx.timeout *)

capInterval(t) == IF t \in Invite THEN T1 * 2 ELSE T2

\* Mutant: the doubled interval is not capped.
DoubledUncapped(t) == interval[t] * 2

Doubled(t) ==
  IF interval[t] * 2 > capInterval(t) THEN capInterval(t) ELSE interval[t] * 2

\* Mutant: a state no transaction ever has is taken for the recorded one.
RecordedNever(t) == state[t] = "Terminated"

\* A final response has been recorded.
Recorded(t) == state[t] \in {"Completed", "Terminated"}

LoopStop(t) ==
  /\ loop[t] = "wait"
  /\ stop[t]
  /\ loop' = [loop EXCEPT ![t] = "exit"]
  /\ UNCHANGED <<txs, state, events, caller, interval, elapsed, run, finVars,
                 wireReq, wireResp, history>>

\* time.After has fired.  If stop was closed during the wait, select picks
\* either ready case, and stop is not looked at again before the next select.
LoopWake(t) ==
  /\ loop[t] = "wait"
  /\ loop' = [loop EXCEPT ![t] =
                IF \/ Recorded(t)
                   \/ t \in Invite /\ state[t] = "Proceeding"
                THEN "exit" ELSE "resend"]
  /\ UNCHANGED <<txs, state, events, caller, interval, elapsed, run, finVars,
                 wireReq, wireResp, history>>

LoopResend(t) ==
  /\ loop[t] = "resend"
  /\ wireReq' = [wireReq EXCEPT ![t] = @ \cup {"request"}]
  /\ lateResends' = [lateResends EXCEPT ![t] = IF stop[t] THEN @ + 1 ELSE @]
  /\ elapsed' = [elapsed EXCEPT ![t] = @ + interval[t]]
  /\ IF elapsed[t] + interval[t] >= TimerF
     THEN /\ loop' = [loop EXCEPT ![t] = "timeout"]
          /\ UNCHANGED interval
     ELSE /\ loop' = [loop EXCEPT ![t] = Select(t)]
          /\ interval' = [interval EXCEPT ![t] = Doubled(t)]
  /\ UNCHANGED <<txs, state, events, caller, run, finVars, wireResp, finals, expired,
                 overwritten>>

\* timeout looks at the state under the mutex and lets the mutex go.
LoopTimeout(t) ==
  /\ loop[t] = "timeout"
  /\ loop' = [loop EXCEPT ![t] =
                IF Recorded(t) THEN "exit" ELSE "expire"]
  /\ UNCHANGED <<txs, state, events, caller, interval, elapsed, run, finVars,
                 wireReq, wireResp, history>>

\* Mutant: an unbounded channel.
OfferUnbounded(t, e) ==
  /\ events' = [events EXCEPT ![t] = Append(@, e)]
  /\ finals' = [finals EXCEPT ![t] = IF e \in FinalClass THEN @ + 1 ELSE @]

\* A full channel takes no event: the select has a default case.
Offer(t, e) ==
  IF Len(events[t]) < EventCap
  THEN /\ events' = [events EXCEPT ![t] = Append(@, e)]
       /\ finals' = [finals EXCEPT ![t] = IF e \in FinalClass THEN @ + 1 ELSE @]
  ELSE UNCHANGED <<events, finals>>

\* Mutant: the timeout is reported, but the transaction is not finished.
LoopExpireOnly(t) ==
  /\ loop[t] = "expire"
  /\ Offer(t, "timeout")
  /\ loop' = [loop EXCEPT ![t] = "exit"]
  /\ expired' = [expired EXCEPT ![t] = TRUE]
  /\ UNCHANGED <<txs, state, caller, interval, elapsed, run, finVars, wireReq,
                 wireResp, lateResends, overwritten>>

LoopExpire(t) ==
  /\ loop[t] = "expire"
  /\ Offer(t, "timeout")
  /\ loop' = [loop EXCEPT ![t] = "exit"]
  /\ expired' = [expired EXCEPT ![t] = TRUE]
  /\ fin' = [fin EXCEPT ![t]["loop"] = "due"]
  /\ UNCHANGED <<txs, state, caller, interval, elapsed, run, stop, terminated,
                 crashed, wireReq, wireResp, lateResends, overwritten>>

-----------------------------------------------------------------------------
(* TxManager.handleResponse and ClientTx.receive, on the Run goroutine *)

RunIsIdle == run = Idle /\ \A u \in Tx : fin[u]["run"] = "none"

\* The transaction is looked up under the manager's mutex and used after it.
\* A response without a registered transaction only reaches OnError.
LookupResponse(t, c) ==
  /\ RunIsIdle
  /\ c \in wireResp[t]
  /\ t \in txs
  /\ run' = [pc |-> "receive", tx |-> t, class |-> c]
  /\ UNCHANGED <<txs, state, events, caller, loopVars, finVars, wireReq, wireResp,
                 history>>

ReceiveProvisional(t) ==
  /\ run = [pc |-> "receive", tx |-> t, class |-> "provisional"]
  /\ IF Recorded(t)
     THEN /\ run' = Idle
          /\ UNCHANGED state
     ELSE /\ state' = [state EXCEPT ![t] = "Proceeding"]
          /\ run' = [pc |-> "deliver", tx |-> t, class |-> "provisional"]
  /\ UNCHANGED <<txs, events, caller, loopVars, finVars, wireReq, wireResp, history>>

\* A 2xx to an INVITE is acknowledged every time it arrives; a 2xx to another
\* method leaves the state alone.
ReceiveSuccess(t) ==
  /\ run = [pc |-> "receive", tx |-> t, class |-> "success"]
  /\ IF t \in Invite /\ state[t] = "Completed"
     THEN /\ wireReq' = [wireReq EXCEPT ![t] = @ \cup {"ACK"}]
          /\ run' = Idle
     ELSE /\ run' = [pc |-> "deliver", tx |-> t, class |-> "success"]
          /\ UNCHANGED wireReq
  /\ state' = IF t \in Invite THEN [state EXCEPT ![t] = "Completed"] ELSE state
  /\ UNCHANGED <<txs, events, caller, loopVars, finVars, wireResp, history>>

ReceiveFailure(t) ==
  /\ run = [pc |-> "receive", tx |-> t, class |-> "failure"]
  /\ IF Recorded(t)
     THEN /\ run' = Idle
          /\ UNCHANGED state
     ELSE /\ state' = [state EXCEPT ![t] = "Completed"]
          /\ run' = [pc |-> "deliver", tx |-> t, class |-> "failure"]
  /\ UNCHANGED <<txs, events, caller, loopVars, finVars, wireReq, wireResp, history>>

DeliverProvisional(t) ==
  /\ run = [pc |-> "deliver", tx |-> t, class |-> "provisional"]
  /\ Offer(t, "provisional")
  /\ run' = Idle
  /\ UNCHANGED <<txs, state, caller, loopVars, finVars, wireReq, wireResp,
                 expired, lateResends, overwritten>>

\* schedule(TimerD, finish): the AfterFunc goroutine is due from now on.
FreeTimer(t) == IF fin[t]["timer1"] = "none" THEN "timer1" ELSE "timer2"

\* Mutant: Timer D is not scheduled.
DeliverWithoutTimerD(t) ==
  /\ run.pc = "deliver"
  /\ run.tx = t
  /\ \/ run.class = "failure"
     \/ run.class = "success" /\ t \in Invite
  /\ Offer(t, run.class)
  /\ wireReq' = [wireReq EXCEPT ![t] = @ \cup {"ACK"}]
  /\ run' = Idle
  /\ UNCHANGED <<txs, state, caller, loopVars, finVars, wireResp, expired,
                 lateResends, overwritten>>

\* deliver, sendACK and the Timer D of a final response that has been recorded
\* in the state.  The ACK does not depend on the method.
DeliverRecorded(t) ==
  /\ run.pc = "deliver"
  /\ run.tx = t
  /\ \/ run.class = "failure"
     \/ run.class = "success" /\ t \in Invite
  /\ Offer(t, run.class)
  /\ wireReq' = [wireReq EXCEPT ![t] = @ \cup {"ACK"}]
  /\ fin' = [fin EXCEPT ![t][FreeTimer(t)] = "due"]
  /\ run' = Idle
  /\ UNCHANGED <<txs, state, caller, loopVars, stop, terminated, crashed, wireResp,
                 expired, lateResends, overwritten>>

\* deliver, then finish on the Run goroutine itself.
DeliverAndFinish(t) ==
  /\ run = [pc |-> "deliver", tx |-> t, class |-> "success"]
  /\ t \notin Invite
  /\ Offer(t, "success")
  /\ fin' = [fin EXCEPT ![t]["run"] = "due"]
  /\ run' = Idle
  /\ UNCHANGED <<txs, state, caller, loopVars, stop, terminated, crashed, wireReq,
                 wireResp, expired, lateResends, overwritten>>

-----------------------------------------------------------------------------
(* ClientTx.finish *)

\* Mutant: the entry stays in the map.
FinishWithoutRemove(t, f) ==
  /\ fin[t][f] = "due"
  /\ stop' = [stop EXCEPT ![t] = TRUE]
  /\ fin' = [fin EXCEPT ![t][f] = "check"]
  /\ UNCHANGED <<txs, state, events, caller, loopVars, run, terminated, crashed,
                 wireReq, wireResp, history>>

\* stopOnce closes stop; the entry is removed under the manager's mutex.
FinishRemove(t, f) ==
  /\ fin[t][f] = "due"
  /\ stop' = [stop EXCEPT ![t] = TRUE]
  /\ txs' = txs \ {t}
  /\ fin' = [fin EXCEPT ![t][f] = "check"]
  /\ UNCHANGED <<state, events, caller, loopVars, run, terminated, crashed, wireReq,
                 wireResp, history>>

\* The select that asks whether terminated is closed holds no mutex ...
FinishCheck(t, f) ==
  /\ fin[t][f] = "check"
  /\ fin' = [fin EXCEPT ![t][f] = IF terminated[t] THEN "none" ELSE "close"]
  /\ UNCHANGED <<txs, state, events, caller, loopVars, run, stop, terminated, crashed,
                 wireReq, wireResp, history>>

\* ... and neither does the close: of a closed channel, it panics.
FinishClose(t, f) ==
  /\ fin[t][f] = "close"
  /\ crashed' = terminated[t]
  /\ terminated' = [terminated EXCEPT ![t] = TRUE]
  /\ fin' = [fin EXCEPT ![t][f] = "none"]
  /\ UNCHANGED <<txs, state, events, caller, loopVars, run, stop, wireReq, wireResp,
                 history>>

-----------------------------------------------------------------------------
(* The application *)

Consume(t) ==
  /\ caller[t] = "returned"
  /\ events[t] # <<>>
  /\ events' = [events EXCEPT ![t] = Tail(@)]
  /\ UNCHANGED <<txs, state, caller, loopVars, run, finVars, wireReq, wireResp, history>>

\* ErrUnsupported in any other state.  The CANCEL gets no transaction.
Cancel(t) ==
  /\ caller[t] = "returned"
  /\ state[t] \in {"Proceeding", "Calling"}
  /\ wireReq' = [wireReq EXCEPT ![t] = @ \cup {"CANCEL"}]
  /\ UNCHANGED <<txs, state, events, caller, loopVars, run, finVars, wireResp, history>>

-----------------------------------------------------------------------------
(* The server at the other end: it answers a request it may have seen, and *)
(* settles on one final response (ServerTx!OneReply).                       *)

Answer(t, c) ==
  /\ "request" \in wireReq[t]
  /\ c \notin wireResp[t]
  /\ c \in FinalClass => wireResp[t] \cap FinalClass = {}
  /\ wireResp' = [wireResp EXCEPT ![t] = @ \cup {c}]
  /\ UNCHANGED <<txs, state, events, caller, loopVars, run, finVars, wireReq, history>>

-----------------------------------------------------------------------------
Request(t) ==
  \/ RequestRegister(t)
  \/ RequestSend(t)
  \/ RequestSendFails(t)
  \/ RequestReturn(t)

Loop(t) ==
  \/ LoopStop(t)
  \/ LoopWake(t)
  \/ LoopResend(t)
  \/ LoopTimeout(t)
  \/ LoopExpire(t)

Run(t) ==
  \/ \E c \in Class : LookupResponse(t, c)
  \/ ReceiveProvisional(t)
  \/ ReceiveSuccess(t)
  \/ ReceiveFailure(t)
  \/ DeliverProvisional(t)
  \/ DeliverRecorded(t)
  \/ DeliverAndFinish(t)

Finish(t, f) ==
  \/ FinishRemove(t, f)
  \/ FinishCheck(t, f)
  \/ FinishClose(t, f)

Application(t) == Consume(t) \/ Cancel(t)

\* What the manager's own goroutines do.
Manager(t) ==
  \/ Request(t)
  \/ Loop(t)
  \/ Run(t)
  \/ \E f \in Finisher : Finish(t, f)

\* A panic takes the whole process down.
Next ==
  /\ ~crashed
  /\ \E t \in Tx :
       \/ Manager(t)
       \/ Application(t)
       \/ \E c \in Class : Answer(t, c)

Spec == Init /\ [][Next]_vars

\* What Go's scheduler and timers guarantee: a goroutine that can go on does,
\* and a timer that was set fires.  Packets and the application owe nothing.
Fairness ==
  \A t \in Tx :
    /\ WF_vars(~crashed /\ (RequestSend(t) \/ RequestSendFails(t) \/ RequestReturn(t)))
    /\ WF_vars(~crashed /\ Loop(t))
    /\ WF_vars(~crashed /\ (\/ ReceiveProvisional(t) \/ ReceiveSuccess(t)
                            \/ ReceiveFailure(t) \/ DeliverProvisional(t)
                            \/ DeliverRecorded(t) \/ DeliverAndFinish(t)))
    /\ \A f \in Finisher : WF_vars(~crashed /\ Finish(t, f))

FairSpec == Spec /\ Fairness

-----------------------------------------------------------------------------
(* Properties *)

\* receive hands the application one final response per transaction however
\* often the server's final arrives and however late its timers run, as long
\* as no response overtook the assignment of the state in Request.
AtMostOneFinal == \A t \in Tx : ~overwritten[t] => finals[t] <= 1

\* The retransmission loop gives up at the first tick at or after Timer F: not
\* before, and less than one (capped) interval after it.
LongestInterval(t) == IF T1 > capInterval(t) THEN T1 ELSE capInterval(t)

TimeoutOnTime ==
  \A t \in Tx :
    IF expired[t] \/ loop[t] \in {"timeout", "expire"}
    THEN elapsed[t] >= TimerF /\ elapsed[t] < TimerF + LongestInterval(t)
    ELSE loop[t] # "exit" => elapsed[t] < TimerF

\* Whoever sees Terminated() closed finds the key free and the loop stopped.
TerminatedIsUnregistered ==
  \A t \in Tx : terminated[t] => t \notin txs /\ stop[t]

\* After finish has closed stop, the loop puts at most one more copy of the
\* request on the wire.
AtMostOneLateResend == \A t \in Tx : lateResends[t] <= 1

\* finish does not guard its close with a mutex.  The close is reached twice
\* only when Timer F ran out while a final response was coming in, or when a
\* response overtook Request.
CrashNeedsRace ==
  crashed => \E t \in Tx :
    \/ overwritten[t]
    \/ expired[t] /\ wireResp[t] \cap FinalClass # {}

\* Every transaction that Request returned ends, with its key free, except an
\* INVITE that has been answered provisionally: the loop has left it.
EventuallyTerminated ==
  \A t \in Tx :
    caller[t] = "returned" ~> \/ terminated[t] \/ crashed
                              \/ t \in Invite /\ state[t] = "Proceeding"

\* A final response ends the transaction, at the latest with Timer D.
FinalTerminates ==
  \A t \in Tx : finals[t] > 0 ~> terminated[t] \/ crashed

\* TestInviteFinalFailureSendsAck reads the final response of an INVITE from
\* Events() and requires State() to be Completed or Terminated by then.
FinalIsRecorded ==
  \A t \in Invite :
    caller[t] = "returned" /\ finals[t] > 0 => state[t] \in {"Completed", "Terminated"}
=============================================================================
