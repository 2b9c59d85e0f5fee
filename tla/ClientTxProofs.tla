--------------------------- MODULE ClientTxProofs ---------------------------
(***************************************************************************)
(* Proofs about the client transactions, for every set of transactions and *)
(* every setting of the timers and of the event buffer.                    *)
(***************************************************************************)
EXTENDS ClientTx, TLAPS

-----------------------------------------------------------------------------
(* The inductive invariant *)

\* What has happened to a transaction that is not yet sent, or not returned.
CallerInv ==
  \A t \in Tx :
    /\ \/ "request" \in wireReq[t]
       \/ wireResp[t] # {}
       \/ stop[t]
       \/ \E f \in Finisher : fin[t][f] # "none"
       => caller[t] \in {"sent", "returned"}
    /\ caller[t] # "returned" => loop[t] = "none" /\ ~overwritten[t]

\* The Run goroutine works on a response that is on the wire, and on nothing
\* else at the same time.
RunInv ==
  run # Idle =>
    /\ run.class \in wireResp[run.tx]
    /\ \A u \in Tx : fin[u]["run"] = "none"

\* The server has settled on one final response.
ServerInv ==
  \A t \in Tx : ~({"success", "failure"} \subseteq wireResp[t])

\* Why no second final response can be delivered: the first one is recorded in
\* the state, or the transaction is unregistered before Run looks up another.
FinalRecorded(t) ==
  /\ state[t] = "Completed"
  /\ t \in Invite \/ "failure" \in wireResp[t]

FinalClosing(t) ==
  /\ t \notin Invite
  /\ "success" \in wireResp[t]
  /\ run # Idle => run.tx # t
  /\ fin[t]["run"] = "due" \/ t \notin txs

Delivering(t) == run # Idle /\ run.pc = "deliver" /\ run.tx = t /\ run.class \in FinalClass

FinalInv ==
  \A t \in Tx :
    ~overwritten[t] =>
      /\ finals[t] <= 1
      /\ finals[t] = 1 => FinalRecorded(t) \/ FinalClosing(t)
      /\ Delivering(t) =>
           /\ finals[t] = 0
           /\ t \in Invite \/ run.class = "failure" => state[t] = "Completed"

\* The loop's clock.
LoopInv ==
  \A t \in Tx :
    /\ interval[t] <= LongestInterval(t)
    /\ loop[t] \in {"none", "wait", "resend"} =>
         elapsed[t] < TimerF /\ lateResends[t] = 0
    /\ loop[t] \in {"timeout", "expire"} =>
         elapsed[t] >= TimerF /\ elapsed[t] < TimerF + LongestInterval(t)
    /\ expired[t] =>
         /\ loop[t] = "exit"
         /\ elapsed[t] >= TimerF /\ elapsed[t] < TimerF + LongestInterval(t)
    /\ lateResends[t] <= 1

\* finish removes before it closes.
FinishInv ==
  \A t \in Tx :
    /\ terminated[t] \/ (\E f \in Finisher : fin[t][f] \in {"check", "close"})
         => t \notin txs /\ stop[t]

\* Timer F ran out while a final response came in, or one overtook Request.
Raced(t) == overwritten[t] \/ (expired[t] /\ wireResp[t] \cap FinalClass # {})

\* A goroutine has begun to finish the transaction, or one has done it.
Ended(t) == terminated[t] \/ \E f \in Finisher : fin[t][f] # "none"

\* Without a race one goroutine finishes a transaction: the loop, if it expired,
\* and otherwise the one that goes back to the only final response delivered.
SoleInv ==
  \A t \in Tx : ~Raced(t) =>
    /\ \A f, g \in Finisher : fin[t][f] # "none" /\ fin[t][g] # "none" => f = g
    /\ terminated[t] => \A f \in Finisher : fin[t][f] = "none"
    /\ Ended(t) /\ ~expired[t] =>
         /\ wireResp[t] \cap FinalClass # {}
         /\ ~Delivering(t)
         /\ FinalRecorded(t) \/ FinalClosing(t)

IInv ==
  /\ TypeOK /\ CallerInv /\ RunInv /\ ServerInv /\ FinalInv /\ LoopInv /\ FinishInv
  /\ SoleInv /\ CrashNeedsRace

-----------------------------------------------------------------------------
(* Type correctness *)

USE DEF Recorded, Doubled

\* What offering an event does to the channel: it stays within its capacity.
LEMMA OfferType ==
  ASSUME TypeOK, NEW t \in Tx, NEW e \in Event, Offer(t, e)
  PROVE  /\ events' \in [Tx -> Seq(Event)]
         /\ \A u \in Tx : Len(events'[u]) <= EventCap
         /\ finals' \in [Tx -> Nat]
<1>1. CASE Len(events[t]) < EventCap
  <2>1. /\ events' = [events EXCEPT ![t] = Append(events[t], e)]
        /\ finals' = [finals EXCEPT ![t] =
                        IF e \in FinalClass THEN finals[t] + 1 ELSE finals[t]]
    BY <1>1, Zenon DEF Offer
  <2>2. finals' \in [Tx -> Nat]
    BY <2>1 DEF TypeOK
  <2>3. events[t] \in Seq(Event) /\ EventCap \in Nat
    BY ClientTxAssumption, Zenon DEF TypeOK
  <2>4. /\ Append(events[t], e) \in Seq(Event)
        /\ Len(Append(events[t], e)) = Len(events[t]) + 1
    BY <2>3
  <2>5. events' \in [Tx -> Seq(Event)]
    BY <2>1, <2>4, Zenon DEF TypeOK
  <2>6. \A u \in Tx : Len(events'[u]) <= EventCap
    BY <1>1, <2>1, <2>3, <2>4 DEF TypeOK
  <2> QED BY <2>2, <2>5, <2>6, Zenon
<1>2. CASE ~(Len(events[t]) < EventCap)
  BY <1>2, Zenon DEF Offer, TypeOK
<1> QED BY <1>1, <1>2, Zenon

\* The program's state keeps its types: in particular no goroutine that offers
\* an event grows the channel beyond its capacity.
THEOREM TypeCorrect == Spec => []TypeOK
<1>1. Init => TypeOK
  <2> SUFFICES ASSUME Init PROVE TypeOK
    OBVIOUS
  <2>1. events \in [Tx -> Seq(Event)] /\ \A t \in Tx : Len(events[t]) <= EventCap
    BY ClientTxAssumption DEF Init
  <2>2. run \in {Idle} \cup RunWork
    BY Zenon DEF Init
  <2>3. fin \in [Tx -> [Finisher -> FinPhase]]
    BY Zenon DEF Init, FinPhase
  <2> QED BY <2>1, <2>2, <2>3, ClientTxAssumption, Zenon DEF Init, TypeOK, TxState
<1>2. TypeOK /\ [Next]_vars => TypeOK'
  <2> SUFFICES ASSUME TypeOK, [Next]_vars PROVE TypeOK'
    OBVIOUS
  <2> USE DEF TypeOK, loopVars, finVars, history
  <2>1. ASSUME NEW t \in Tx, RequestRegister(t) PROVE TypeOK'
    BY <2>1, Zenon DEF RequestRegister
  <2>2. ASSUME NEW t \in Tx, RequestSend(t) PROVE TypeOK'
    BY <2>2, Zenon DEF RequestSend, ReqMethod
  <2>3. ASSUME NEW t \in Tx, RequestSendFails(t) PROVE TypeOK'
    BY <2>3, Zenon DEF RequestSendFails
  <2>4. ASSUME NEW t \in Tx, RequestReturn(t) PROVE TypeOK'
    BY <2>4, Zenon DEF RequestReturn, TxState, Select
  <2>5. ASSUME NEW t \in Tx, LoopStop(t) PROVE TypeOK'
    BY <2>5, Zenon DEF LoopStop
  <2>6. ASSUME NEW t \in Tx, LoopWake(t) PROVE TypeOK'
    BY <2>6, Zenon DEF LoopWake
  <2>7. ASSUME NEW t \in Tx, LoopResend(t) PROVE TypeOK'
    <3>1. capInterval(t) \in Nat /\ interval[t] \in Nat /\ elapsed[t] \in Nat
      BY ClientTxAssumption DEF capInterval
    <3>2. elapsed' \in [Tx -> Nat] /\ lateResends' \in [Tx -> Nat]
      BY <2>7, <3>1 DEF LoopResend
    <3>3. (IF interval[t] * 2 > capInterval(t) THEN capInterval(t) ELSE interval[t] * 2) \in Nat
      BY <3>1
    <3>4. interval' \in [Tx -> Nat]
      BY <2>7, <3>3, Zenon DEF LoopResend
    <3>5. loop' \in [Tx -> {"none", "wait", "resend", "timeout", "expire", "exit"}]
      <4>1. loop \in [Tx -> {"none", "wait", "resend", "timeout", "expire", "exit"}]
        OBVIOUS
      <4>2. \/ loop' = [loop EXCEPT ![t] = "timeout"]
            \/ loop' = [loop EXCEPT ![t] = Select(t)]
        BY <2>7, Zenon DEF LoopResend
      <4>3. Select(t) \in {"wait", "exit"}
        BY Zenon DEF Select
      <4> HIDE DEF TypeOK
      <4> QED
        BY <4>1, <4>2, <4>3, Zenon
    <3>6. wireReq' \in [Tx -> SUBSET ReqMethod]
      BY <2>7, Zenon DEF LoopResend, ReqMethod
    <3>7. UNCHANGED <<txs, state, events, caller, run, stop, terminated, fin, crashed,
                      wireResp, finals, expired, overwritten>>
      BY <2>7, Zenon DEF LoopResend
    <3> QED BY <3>2, <3>4, <3>5, <3>6, <3>7, Zenon
  <2>8. ASSUME NEW t \in Tx, LoopTimeout(t) PROVE TypeOK'
    BY <2>8, Zenon DEF LoopTimeout
  <2>9. ASSUME NEW t \in Tx, LoopExpire(t) PROVE TypeOK'
    <3>1. "timeout" \in Event /\ Offer(t, "timeout")
      BY <2>9, Zenon DEF LoopExpire, Event
    <3> QED BY <2>9, <3>1, OfferType, Zenon DEF LoopExpire, Finisher, FinPhase
  <2>10. ASSUME NEW t \in Tx, NEW c \in Class, LookupResponse(t, c) PROVE TypeOK'
    BY <2>10, Zenon DEF LookupResponse, RunWork
  <2>11. ASSUME NEW t \in Tx, ReceiveProvisional(t) PROVE TypeOK'
    <3>1. "provisional" \in Class
      BY Zenon DEF Class
    <3>2. run' \in {Idle} \cup RunWork
      BY <2>11, <3>1 DEF ReceiveProvisional, RunWork
    <3>3. state' \in [Tx -> TxState]
      BY <2>11, Zenon DEF ReceiveProvisional, TxState
    <3> QED BY <2>11, <3>2, <3>3, Zenon DEF ReceiveProvisional
  <2>12. ASSUME NEW t \in Tx, ReceiveSuccess(t) PROVE TypeOK'
    <3>1. "success" \in Class
      BY Zenon DEF Class, FinalClass
    <3>2. run' \in {Idle} \cup RunWork
      BY <2>12, <3>1 DEF ReceiveSuccess, RunWork
    <3>3. state' \in [Tx -> TxState]
      BY <2>12, Zenon DEF ReceiveSuccess, TxState
    <3>4. wireReq' = [wireReq EXCEPT ![t] = wireReq[t] \cup {"ACK"}] \/ wireReq' = wireReq
      BY <2>12, Zenon DEF ReceiveSuccess
    <3>5. "ACK" \in ReqMethod
      BY Zenon DEF ReqMethod
    <3>6. wireReq' \in [Tx -> SUBSET ReqMethod]
      <4>1. CASE wireReq' = [wireReq EXCEPT ![t] = wireReq[t] \cup {"ACK"}]
        BY <3>5, <4>1, Zenon
      <4> QED BY <3>4, <4>1, Zenon
    <3> QED BY <2>12, <3>2, <3>3, <3>6, Zenon DEF ReceiveSuccess
  <2>13. ASSUME NEW t \in Tx, ReceiveFailure(t) PROVE TypeOK'
    BY <2>13 DEF ReceiveFailure, RunWork, TxState, Class, FinalClass
  <2>14. ASSUME NEW t \in Tx, DeliverProvisional(t) PROVE TypeOK'
    <3>1. "provisional" \in Event /\ Offer(t, "provisional")
      BY <2>14, Zenon DEF DeliverProvisional, Event, Class
    <3> QED BY <2>14, <3>1, OfferType, Zenon DEF DeliverProvisional
  <2>15. ASSUME NEW t \in Tx, DeliverRecorded(t) PROVE TypeOK'
    <3>1. run.class \in Event /\ Offer(t, run.class)
      BY <2>15, Zenon DEF DeliverRecorded, Event, Class, FinalClass
    <3>2. FreeTimer(t) \in Finisher
      BY Zenon DEF FreeTimer, Finisher
    <3>3. fin' \in [Tx -> [Finisher -> FinPhase]]
      BY <2>15, <3>2, Zenon DEF DeliverRecorded, FinPhase
    <3> QED BY <2>15, <3>1, <3>3, OfferType, Zenon DEF DeliverRecorded, ReqMethod
  <2>16. ASSUME NEW t \in Tx, DeliverAndFinish(t) PROVE TypeOK'
    <3>1. "success" \in Event /\ Offer(t, "success")
      BY <2>16, Zenon DEF DeliverAndFinish, Event, Class, FinalClass
    <3> QED BY <2>16, <3>1, OfferType, Zenon DEF DeliverAndFinish, Finisher, FinPhase
  <2>17. ASSUME NEW t \in Tx, NEW f \in Finisher, FinishRemove(t, f) PROVE TypeOK'
    BY <2>17, Zenon DEF FinishRemove, FinPhase
  <2>18. ASSUME NEW t \in Tx, NEW f \in Finisher, FinishCheck(t, f) PROVE TypeOK'
    BY <2>18, Zenon DEF FinishCheck, FinPhase
  <2>19. ASSUME NEW t \in Tx, NEW f \in Finisher, FinishClose(t, f) PROVE TypeOK'
    BY <2>19, Zenon DEF FinishClose, FinPhase
  <2>20. ASSUME NEW t \in Tx, Consume(t) PROVE TypeOK'
    <3>1. events[t] \in Seq(Event) /\ events[t] # <<>>
      BY <2>20, Zenon DEF Consume
    <3>2. Tail(events[t]) \in Seq(Event) /\ Len(Tail(events[t])) = Len(events[t]) - 1
      BY <3>1
    <3>3. events' \in [Tx -> Seq(Event)]
      BY <2>20, <3>2, Zenon DEF Consume
    <3>4. \A u \in Tx : Len(events'[u]) <= EventCap
      BY <2>20, <3>1, <3>2, ClientTxAssumption DEF Consume
    <3> QED BY <2>20, <3>3, <3>4, Zenon DEF Consume
  <2>21. ASSUME NEW t \in Tx, Cancel(t) PROVE TypeOK'
    BY <2>21, Zenon DEF Cancel, ReqMethod
  <2>22. ASSUME NEW t \in Tx, NEW c \in Class, Answer(t, c) PROVE TypeOK'
    BY <2>22, Zenon DEF Answer
  <2>23. CASE UNCHANGED vars
    BY <2>23, Zenon DEF vars
  <2> QED
    BY ZenonT(30), <2>1, <2>2, <2>3, <2>4, <2>5, <2>6, <2>7, <2>8, <2>9, <2>10, <2>11, <2>12,
       <2>13, <2>14, <2>15, <2>16, <2>17, <2>18, <2>19, <2>20, <2>21, <2>22, <2>23
       DEF Next, Manager, Request, Loop, Run, Finish, Application
<1> QED
  BY <1>1, <1>2, PTL DEF Spec

-----------------------------------------------------------------------------
(* Every conjunct of the invariant is preserved *)

\* Nothing reaches the wire, and nothing finishes, before Request has sent.
LEMMA CallerStep ==
  ASSUME TypeOK, CallerInv, RunInv, LoopInv, [Next]_vars
  PROVE  CallerInv'
<1> USE DEF CallerInv, loopVars, finVars, history, TypeOK
<1>1. ASSUME NEW t \in Tx, RequestRegister(t) PROVE CallerInv'
  BY <1>1, Zenon DEF RequestRegister
<1>2. ASSUME NEW t \in Tx, RequestSend(t) PROVE CallerInv'
  BY <1>2, Zenon DEF RequestSend
<1>3. ASSUME NEW t \in Tx, RequestSendFails(t) PROVE CallerInv'
  BY <1>3, Zenon DEF RequestSendFails
<1>4. ASSUME NEW t \in Tx, RequestReturn(t) PROVE CallerInv'
  BY <1>4, Zenon DEF RequestReturn, Select
<1>5. ASSUME NEW t \in Tx, LoopStop(t) PROVE CallerInv'
  BY <1>5, Zenon DEF LoopStop
<1>6. ASSUME NEW t \in Tx, LoopWake(t) PROVE CallerInv'
  BY <1>6, Zenon DEF LoopWake
<1>7. ASSUME NEW t \in Tx, LoopResend(t) PROVE CallerInv'
  BY <1>7, ZenonT(30) DEF LoopResend, Select
<1>8. ASSUME NEW t \in Tx, LoopTimeout(t) PROVE CallerInv'
  BY <1>8, Zenon DEF LoopTimeout
<1>9. ASSUME NEW t \in Tx, LoopExpire(t) PROVE CallerInv'
  BY <1>9, ZenonT(30) DEF LoopExpire
<1>10. ASSUME NEW t \in Tx, ReceiveSuccess(t) PROVE CallerInv'
  <2>1. run # Idle /\ run.tx = t /\ run.class = "success"
    BY <1>10, Zenon DEF ReceiveSuccess, Idle
  <2>2. wireResp[t] # {}
    BY <2>1, Zenon DEF RunInv
  <2>3. \A u \in Tx : "request" \in wireReq'[u] => "request" \in wireReq[u]
          \/ u = t
    BY <1>10, Zenon DEF ReceiveSuccess
  <2> QED
    BY <1>10, <2>2, <2>3, Zenon DEF ReceiveSuccess
<1>11. ASSUME NEW t \in Tx, DeliverRecorded(t) PROVE CallerInv'
  <2>1. run # Idle
    BY <1>11 DEF DeliverRecorded, Idle
  <2>2. wireResp[t] # {}
    BY <1>11, <2>1, Zenon DEF DeliverRecorded, RunInv
  <2>3. caller[t] \in {"sent", "returned"}
    BY <2>2, Zenon
  <2>4. \A u \in Tx \ {t} : wireReq'[u] = wireReq[u] /\ fin'[u] = fin[u]
    BY <1>11, Zenon DEF DeliverRecorded
  <2> QED
    BY <1>11, <2>3, <2>4 DEF DeliverRecorded
<1>12. ASSUME NEW t \in Tx, DeliverAndFinish(t) PROVE CallerInv'
  <2>1. run # Idle /\ run.tx = t /\ run.class = "success"
    BY <1>12, Zenon DEF DeliverAndFinish, Idle
  <2>2. caller[t] \in {"sent", "returned"}
    BY <2>1, Zenon DEF RunInv
  <2>3. \A u \in Tx \ {t} : fin'[u] = fin[u]
    BY <1>12, Zenon DEF DeliverAndFinish
  <2> QED
    BY <1>12, <2>2, <2>3 DEF DeliverAndFinish
<1>13. ASSUME NEW t \in Tx, NEW f \in Finisher, FinishRemove(t, f)
  PROVE CallerInv'
  BY <1>13, Zenon DEF FinishRemove
<1>14. ASSUME NEW t \in Tx, NEW f \in Finisher, FinishCheck(t, f)
  PROVE CallerInv'
  BY <1>14, Zenon DEF FinishCheck
<1>15. ASSUME NEW t \in Tx, NEW f \in Finisher, FinishClose(t, f)
  PROVE CallerInv'
  BY <1>15, Zenon DEF FinishClose
<1>16. ASSUME NEW t \in Tx, Cancel(t) PROVE CallerInv'
  BY <1>16, Zenon DEF Cancel
<1>17. ASSUME NEW t \in Tx, NEW c \in Class, Answer(t, c) PROVE CallerInv'
  BY <1>17, Zenon DEF Answer
<1>18. CASE UNCHANGED <<wireReq, wireResp, stop, fin, caller, loop, overwritten>>
  BY <1>18, Zenon
<1> QED
  BY Zenon, <1>1, <1>2, <1>3, <1>4, <1>5, <1>6, <1>7, <1>8, <1>9, <1>10, <1>11,
          <1>12,
     <1>13, <1>14, <1>15, <1>16, <1>17, <1>18
     DEF Next, Manager, Request, Loop, Run, Finish, Application, vars,
         LookupResponse, ReceiveProvisional, ReceiveFailure,
         DeliverProvisional, Consume

\* Run takes the next response only when it is through with the last one.
LEMMA RunStep ==
  ASSUME TypeOK, RunInv, [Next]_vars
  PROVE  RunInv'
<1> USE DEF RunInv, loopVars, finVars, history, TypeOK
<1>1. ASSUME NEW t \in Tx, LoopExpire(t) PROVE RunInv'
  BY <1>1 DEF LoopExpire
<1>2. ASSUME NEW t \in Tx, NEW c \in Class, LookupResponse(t, c) PROVE RunInv'
  BY <1>2, Zenon DEF LookupResponse, RunIsIdle, RunWork, Idle
<1>3. ASSUME NEW t \in Tx, ReceiveProvisional(t) PROVE RunInv'
  <2>1. run # Idle /\ run.pc = "receive" /\ run.tx = t
          /\ run.class = "provisional"
    BY <1>3, Zenon DEF ReceiveProvisional, Idle
  <2>2. CASE run' = Idle
    BY <1>3, <2>1, <2>2, Zenon DEF ReceiveProvisional
  <2>3. CASE run' = [pc |-> "deliver", tx |-> t, class |-> "provisional"]
    <3>1. run' # Idle /\ run'.pc = "deliver" /\ run'.tx = t
            /\ run'.class = "provisional"
      BY <2>3, Zenon DEF Idle
    <3> QED
      BY <1>3, <2>1, <3>1, Zenon DEF ReceiveProvisional, FinalClass
  <2> QED
    BY <1>3, <2>2, <2>3, Zenon DEF ReceiveProvisional
<1>4. ASSUME NEW t \in Tx, ReceiveSuccess(t) PROVE RunInv'
  <2>1. run # Idle /\ run.pc = "receive" /\ run.tx = t
          /\ run.class = "success"
    BY <1>4, Zenon DEF ReceiveSuccess, Idle
  <2>2. CASE run' = Idle
    BY <1>4, <2>1, <2>2, Zenon DEF ReceiveSuccess
  <2>3. CASE run' = [pc |-> "deliver", tx |-> t, class |-> "success"]
    <3>1. run' # Idle /\ run'.pc = "deliver" /\ run'.tx = t
            /\ run'.class = "success"
      BY <2>3, Zenon DEF Idle
    <3> QED
      BY <1>4, <2>1, <3>1, Zenon DEF ReceiveSuccess, FinalClass
  <2> QED
    BY <1>4, <2>2, <2>3, Zenon DEF ReceiveSuccess
<1>5. ASSUME NEW t \in Tx, ReceiveFailure(t) PROVE RunInv'
  <2>1. run # Idle /\ run.pc = "receive" /\ run.tx = t
          /\ run.class = "failure"
    BY <1>5, Zenon DEF ReceiveFailure, Idle
  <2>2. CASE run' = Idle
    BY <1>5, <2>1, <2>2, Zenon DEF ReceiveFailure
  <2>3. CASE run' = [pc |-> "deliver", tx |-> t, class |-> "failure"]
    <3>1. run' # Idle /\ run'.pc = "deliver" /\ run'.tx = t
            /\ run'.class = "failure"
      BY <2>3, Zenon DEF Idle
    <3> QED
      BY <1>5, <2>1, <3>1, Zenon DEF ReceiveFailure, FinalClass
  <2> QED
    BY <1>5, <2>2, <2>3, Zenon DEF ReceiveFailure
<1>6. ASSUME NEW t \in Tx, DeliverProvisional(t) PROVE RunInv'
  BY <1>6, Zenon DEF DeliverProvisional
<1>7. ASSUME NEW t \in Tx, DeliverRecorded(t) PROVE RunInv'
  BY <1>7, Zenon DEF DeliverRecorded
<1>8. ASSUME NEW t \in Tx, DeliverAndFinish(t) PROVE RunInv'
  BY <1>8, Zenon DEF DeliverAndFinish
<1>9. ASSUME NEW t \in Tx, NEW f \in Finisher, FinishRemove(t, f)
  PROVE RunInv'
  BY <1>9 DEF FinishRemove
<1>10. ASSUME NEW t \in Tx, NEW f \in Finisher, FinishCheck(t, f)
  PROVE RunInv'
  BY <1>10 DEF FinishCheck
<1>11. ASSUME NEW t \in Tx, NEW f \in Finisher, FinishClose(t, f)
  PROVE RunInv'
  BY <1>11 DEF FinishClose
<1>12. ASSUME NEW t \in Tx, NEW c \in Class, Answer(t, c) PROVE RunInv'
  BY <1>12 DEF Answer
<1>13. CASE UNCHANGED <<run, wireResp, fin>>
  BY <1>13, Zenon
<1> QED
  BY ZenonT(30), <1>1, <1>2, <1>3, <1>4, <1>5, <1>6, <1>7, <1>8, <1>9, <1>10, <1>11,
          <1>12,
     <1>13
     DEF Next, Manager, Request, Loop, Run, Finish, Application, vars,
         RequestRegister, RequestSend, RequestSendFails, RequestReturn,
         LoopStop, LoopWake, LoopResend, LoopTimeout, Consume, Cancel

\* The environment never answers with two different finals.
LEMMA ServerStep ==
  ASSUME TypeOK, ServerInv, [Next]_vars
  PROVE  ServerInv'
<1> USE DEF ServerInv, loopVars, finVars, history, TypeOK
<1>1. ASSUME NEW t \in Tx, NEW c \in Class, Answer(t, c) PROVE ServerInv'
  BY <1>1, Zenon DEF Answer, FinalClass
<1>2. CASE UNCHANGED <<wireResp>>
  BY <1>2, Zenon
<1> QED
  BY <1>1, <1>2, ZenonT(60)
     DEF Next, Manager, Request, Loop, Run, Finish, Application, vars,
         RequestRegister, RequestSend, RequestSendFails, RequestReturn,
         LoopStop, LoopWake, LoopResend, LoopTimeout, LoopExpire,
         LookupResponse, ReceiveProvisional, ReceiveSuccess, ReceiveFailure,
         DeliverProvisional, DeliverRecorded, DeliverAndFinish, FinishRemove,
         FinishCheck, FinishClose, Consume, Cancel

\* The first final response bars every later one.
LEMMA FinalStep ==
  ASSUME TypeOK, CallerInv, RunInv, ServerInv, FinalInv, [Next]_vars
  PROVE  FinalInv'
<1> USE DEF FinalInv, FinalRecorded, FinalClosing, Delivering, loopVars, finVars,
        history
<1>1. ASSUME NEW t \in Tx, RequestRegister(t) PROVE FinalInv'
  <2>1. wireResp[t] = {}
    BY <1>1, Zenon DEF RequestRegister, CallerInv
  <2> QED
    BY <1>1, <2>1, Zenon DEF RequestRegister
<1>2. ASSUME NEW t \in Tx, RequestSendFails(t) PROVE FinalInv'
  BY <1>2, Zenon DEF RequestSendFails
<1>3. ASSUME NEW t \in Tx, RequestReturn(t) PROVE FinalInv'
  <2>1. ~overwritten[t]
    BY <1>3, Zenon DEF RequestReturn, CallerInv
  <2>2. \A u \in Tx \ {t} : state'[u] = state[u]
          /\ overwritten'[u] = overwritten[u]
    BY <1>3, Zenon DEF RequestReturn, TypeOK
  <2>5. overwritten \in [Tx -> BOOLEAN]
    BY Zenon DEF TypeOK
  <2>6. overwritten' = [overwritten EXCEPT ![t] = state[t] # "Idle"]
    BY <1>3, Zenon DEF RequestReturn
  <2>3. overwritten'[t] <=> state[t] # "Idle"
    BY <2>5, <2>6, Zenon
  <2>4. ASSUME NEW u \in Tx, ~overwritten'[u]
    PROVE ~overwritten[u] /\ (state'[u] = state[u] \/ state[u] = "Idle")
    BY <2>1, <2>2, <2>3, <2>4, Zenon
  <2> QED
    BY <1>3, <2>4, ZenonT(30) DEF RequestReturn
<1>4. ASSUME NEW t \in Tx, LoopExpire(t) PROVE FinalInv'
  <2>1. finals' = finals
    BY <1>4, Zenon DEF LoopExpire, Offer, FinalClass, TypeOK
  <2>2. \A u \in Tx : fin'[u]["run"] = fin[u]["run"]
    BY <1>4 DEF LoopExpire, TypeOK, Finisher
  <2> QED
    BY <1>4, <2>1, <2>2, Zenon DEF LoopExpire
<1>5. ASSUME NEW t \in Tx, NEW c \in Class, LookupResponse(t, c)
  PROVE FinalInv'
  <2>1. run = Idle /\ fin[t]["run"] = "none"
    BY <1>5, Zenon DEF LookupResponse, RunIsIdle
  <2>2. run' # Idle /\ run'.pc = "receive" /\ run'.tx = t
    BY <1>5, Zenon DEF LookupResponse, Idle
  <2> QED
    BY <1>5, <2>1, <2>2, Zenon DEF LookupResponse
<1>6. ASSUME NEW t \in Tx, ReceiveProvisional(t) PROVE FinalInv'
  <2>1. run # Idle /\ run.pc = "receive" /\ run.tx = t
          /\ run.class = "provisional"
    BY <1>6, Zenon DEF ReceiveProvisional, Idle
  <2>2. ~overwritten[t] => finals[t] = 0
          \/ (finals[t] = 1 /\ FinalRecorded(t))
    <3>1. ~FinalClosing(t)
      BY <2>1, Zenon
    <3>2. finals[t] \in Nat
      BY Zenon DEF TypeOK
    <3> HIDE DEF FinalRecorded, FinalClosing, Delivering
    <3> QED
      BY <3>1, <3>2
  <2>3. "provisional" \in wireResp[t]
    BY <2>1, Zenon DEF RunInv
  <2>4. \A u \in Tx \ {t} : state'[u] = state[u]
    BY <1>6, Zenon DEF ReceiveProvisional, TypeOK
  <2>5. UNCHANGED <<txs, fin, wireResp, finals, overwritten>>
    BY <1>6, Zenon DEF ReceiveProvisional
  <2>6. CASE run' = Idle
    <3>1. state'[t] = state[t]
      BY <1>6, <2>6, Zenon DEF ReceiveProvisional, Idle, TypeOK
    <3>2. ASSUME NEW u \in Tx PROVE ~Delivering(u)'
      BY <2>6, Zenon
    <3>3. ASSUME NEW u \in Tx
      PROVE (FinalRecorded(u) => FinalRecorded(u)')
              /\ (FinalClosing(u) => FinalClosing(u)')
      BY <2>4, <2>5, <2>6, <3>1, Zenon
    <3> QED
      BY <2>5, <3>2, <3>3, Zenon
  <2>7. CASE run' = [pc |-> "deliver", tx |-> t, class |-> "provisional"]
    <3>1. run' # Idle /\ run'.pc = "deliver" /\ run'.tx = t
            /\ run'.class = "provisional"
      BY <2>7, Zenon DEF Idle
    <3>2. ~overwritten[t] => finals[t] = 0
      BY <1>6, <2>2, <2>3, <3>1, Zenon DEF ReceiveProvisional, ServerInv, Idle
    <3>3. ASSUME NEW u \in Tx \ {t}
          PROVE  (FinalRecorded(u) => FinalRecorded(u)')
                  /\ (FinalClosing(u) => FinalClosing(u)') /\ ~Delivering(u)'
      BY <2>4, <2>5, <3>1, Zenon
    <3>4. Delivering(t)' /\ (t \in Invite \/ run'.class = "failure")
            => state'[t] = "Completed"
      BY <1>6, <3>1, Zenon DEF ReceiveProvisional, FinalClass, TypeOK, Idle
    <3> QED
      BY <2>5, <3>2, <3>3, <3>4
  <2> QED
    BY <1>6, <2>6, <2>7, Zenon DEF ReceiveProvisional
<1>7. ASSUME NEW t \in Tx, ReceiveSuccess(t) PROVE FinalInv'
  <2>1. run # Idle /\ run.pc = "receive" /\ run.tx = t
          /\ run.class = "success"
    BY <1>7, Zenon DEF ReceiveSuccess, Idle
  <2>2. ~overwritten[t] => finals[t] = 0
          \/ (finals[t] = 1 /\ FinalRecorded(t))
    <3>1. ~FinalClosing(t)
      BY <2>1, Zenon
    <3>2. finals[t] \in Nat
      BY Zenon DEF TypeOK
    <3> HIDE DEF FinalRecorded, FinalClosing, Delivering
    <3> QED
      BY <3>1, <3>2
  <2>3. "success" \in wireResp[t]
    BY <2>1, Zenon DEF RunInv
  <2>4. \A u \in Tx \ {t} : state'[u] = state[u]
    BY <1>7, Zenon DEF ReceiveSuccess, TypeOK
  <2>5. UNCHANGED <<txs, fin, wireResp, finals, overwritten>>
    BY <1>7, Zenon DEF ReceiveSuccess
  <2>6. CASE run' = Idle
    <3>1. state'[t] = state[t]
      BY <1>7, <2>6, Zenon DEF ReceiveSuccess, Idle, TypeOK
    <3>2. ASSUME NEW u \in Tx PROVE ~Delivering(u)'
      BY <2>6, Zenon
    <3>3. ASSUME NEW u \in Tx
      PROVE (FinalRecorded(u) => FinalRecorded(u)')
              /\ (FinalClosing(u) => FinalClosing(u)')
      BY <2>4, <2>5, <2>6, <3>1, Zenon
    <3> QED
      BY <2>5, <3>2, <3>3, Zenon
  <2>7. CASE run' = [pc |-> "deliver", tx |-> t, class |-> "success"]
    <3>1. run' # Idle /\ run'.pc = "deliver" /\ run'.tx = t
            /\ run'.class = "success"
      BY <2>7, Zenon DEF Idle
    <3>2. ~overwritten[t] => finals[t] = 0
      BY <1>7, <2>2, <2>3, <3>1, Zenon DEF ReceiveSuccess, ServerInv, Idle
    <3>3. ASSUME NEW u \in Tx \ {t}
          PROVE  (FinalRecorded(u) => FinalRecorded(u)')
                  /\ (FinalClosing(u) => FinalClosing(u)') /\ ~Delivering(u)'
      BY <2>4, <2>5, <3>1, Zenon
    <3>4. Delivering(t)' /\ (t \in Invite \/ run'.class = "failure")
            => state'[t] = "Completed"
      BY <1>7, <3>1, Zenon DEF ReceiveSuccess, FinalClass, TypeOK, Idle
    <3> QED
      BY <2>5, <3>2, <3>3, <3>4
  <2> QED
    BY <1>7, <2>6, <2>7, Zenon DEF ReceiveSuccess
<1>8. ASSUME NEW t \in Tx, ReceiveFailure(t) PROVE FinalInv'
  <2>1. run # Idle /\ run.pc = "receive" /\ run.tx = t
          /\ run.class = "failure"
    BY <1>8, Zenon DEF ReceiveFailure, Idle
  <2>2. ~overwritten[t] => finals[t] = 0
          \/ (finals[t] = 1 /\ FinalRecorded(t))
    <3>1. ~FinalClosing(t)
      BY <2>1, Zenon
    <3>2. finals[t] \in Nat
      BY Zenon DEF TypeOK
    <3> HIDE DEF FinalRecorded, FinalClosing, Delivering
    <3> QED
      BY <3>1, <3>2
  <2>3. "failure" \in wireResp[t]
    BY <2>1, Zenon DEF RunInv
  <2>4. \A u \in Tx \ {t} : state'[u] = state[u]
    BY <1>8, Zenon DEF ReceiveFailure, TypeOK
  <2>5. UNCHANGED <<txs, fin, wireResp, finals, overwritten>>
    BY <1>8, Zenon DEF ReceiveFailure
  <2>6. CASE run' = Idle
    <3>1. state'[t] = state[t]
      BY <1>8, <2>6, Zenon DEF ReceiveFailure, Idle, TypeOK
    <3>2. ASSUME NEW u \in Tx PROVE ~Delivering(u)'
      BY <2>6, Zenon
    <3>3. ASSUME NEW u \in Tx
      PROVE (FinalRecorded(u) => FinalRecorded(u)')
              /\ (FinalClosing(u) => FinalClosing(u)')
      BY <2>4, <2>5, <2>6, <3>1, Zenon
    <3> QED
      BY <2>5, <3>2, <3>3, Zenon
  <2>7. CASE run' = [pc |-> "deliver", tx |-> t, class |-> "failure"]
    <3>1. run' # Idle /\ run'.pc = "deliver" /\ run'.tx = t
            /\ run'.class = "failure"
      BY <2>7, Zenon DEF Idle
    <3>2. ~overwritten[t] => finals[t] = 0
      BY <1>8, <2>2, <2>3, <3>1, Zenon DEF ReceiveFailure, ServerInv, Idle
    <3>3. ASSUME NEW u \in Tx \ {t}
          PROVE  (FinalRecorded(u) => FinalRecorded(u)')
                  /\ (FinalClosing(u) => FinalClosing(u)') /\ ~Delivering(u)'
      BY <2>4, <2>5, <3>1, Zenon
    <3>4. Delivering(t)' /\ (t \in Invite \/ run'.class = "failure")
            => state'[t] = "Completed"
      BY <1>8, <3>1, Zenon DEF ReceiveFailure, FinalClass, TypeOK, Idle
    <3> QED
      BY <2>5, <3>2, <3>3, <3>4
  <2> QED
    BY <1>8, <2>6, <2>7, Zenon DEF ReceiveFailure
<1>9. ASSUME NEW t \in Tx, DeliverProvisional(t) PROVE FinalInv'
  <2>1. finals' = finals
    BY <1>9, Zenon DEF DeliverProvisional, Offer, FinalClass, TypeOK
  <2> QED
    BY <1>9, <2>1, Zenon DEF DeliverProvisional
<1>10. ASSUME NEW t \in Tx, DeliverRecorded(t) PROVE FinalInv'
  <2>1. /\ run # Idle /\ run.tx = t /\ run.class \in FinalClass
        /\ t \in Invite \/ run.class = "failure"
    BY <1>10 DEF DeliverRecorded, Idle, FinalClass
  <2>2. ~overwritten[t] => finals[t] = 0 /\ FinalRecorded(t)
    BY <1>10, <2>1, Zenon DEF DeliverRecorded, RunInv
  <2>3. finals'[t] \in {finals[t], finals[t] + 1}
          /\ \A u \in Tx \ {t} : finals'[u] = finals[u]
    BY <1>10, Zenon DEF DeliverRecorded, Offer, TypeOK
  <2>4. \A u \in Tx \ {t} : fin'[u] = fin[u]
    BY <1>10, Zenon DEF DeliverRecorded, TypeOK
  <2>5. run' = Idle /\ UNCHANGED <<txs, state, wireResp, overwritten>>
    BY <1>10, Zenon DEF DeliverRecorded
  <2>8. ~overwritten[t] => FinalRecorded(t)' \/ FinalClosing(t)'
    BY <2>1, <2>2, <2>3, <2>4, <2>5, Zenon
  <2>9. ASSUME NEW u \in Tx \ {t}
        PROVE  (FinalRecorded(u) => FinalRecorded(u)')
                /\ (FinalClosing(u) => FinalClosing(u)')
    BY <2>1, <2>2, <2>3, <2>4, <2>5, Zenon
  <2>10. finals[t] \in Nat
    BY Zenon DEF TypeOK
  <2>11. ASSUME NEW u \in Tx, ~overwritten'[u]
         PROVE  /\ finals'[u] <= 1
                /\ finals'[u] = 1 => FinalRecorded(u)' \/ FinalClosing(u)'
    <3>1. ~overwritten[u]
      BY <2>5, <2>11, Zenon
    <3>2. CASE u = t
      BY <2>2, <2>3, <2>8, <2>10, <3>1, <3>2
    <3>3. CASE u # t
      <4>1. finals'[u] = finals[u] /\ u \in Tx \ {t}
        BY <2>3, <3>3, Zenon
      <4>2. finals[u] <= 1 /\ (finals[u] = 1 => FinalRecorded(u) \/ FinalClosing(u))
        BY <3>1, Zenon
      <4> QED
        BY <2>9, <4>1, <4>2, Zenon
    <3> QED
      BY <3>2, <3>3, Zenon
  <2>12. ASSUME NEW u \in Tx PROVE ~Delivering(u)'
    BY <2>5, Zenon
  <2> QED
    BY <2>11, <2>12, Zenon
<1>11. ASSUME NEW t \in Tx, DeliverAndFinish(t) PROVE FinalInv'
  <2>1. run # Idle /\ run.pc = "deliver" /\ run.tx = t
          /\ run.class = "success"
    BY <1>11, Zenon DEF DeliverAndFinish, Idle
  <2>2. ~overwritten[t] => finals[t] = 0
    BY <2>1, Zenon DEF FinalClass
  <2>3. t \notin Invite /\ "success" \in wireResp[t]
    BY <1>11, <2>1, Zenon DEF DeliverAndFinish, RunInv
  <2>4. finals'[t] \in {finals[t], finals[t] + 1}
          /\ \A u \in Tx \ {t} : finals'[u] = finals[u]
    BY <1>11, Zenon DEF DeliverAndFinish, Offer, TypeOK
  <2>5. fin'[t]["run"] = "due" /\ \A u \in Tx \ {t} : fin'[u] = fin[u]
    BY <1>11, ZenonT(60) DEF DeliverAndFinish, TypeOK, Finisher
  <2>6. run' = Idle /\ UNCHANGED <<txs, state, wireResp, overwritten>>
    BY <1>11, Zenon DEF DeliverAndFinish
  <2>8. ~overwritten[t] => FinalRecorded(t)' \/ FinalClosing(t)'
    BY <2>1, <2>2, <2>3, <2>4, <2>5, <2>6, Zenon
  <2>9. ASSUME NEW u \in Tx \ {t}
        PROVE  (FinalRecorded(u) => FinalRecorded(u)')
                /\ (FinalClosing(u) => FinalClosing(u)')
    BY <2>1, <2>2, <2>3, <2>4, <2>5, <2>6, Zenon
  <2>10. finals[t] \in Nat
    BY Zenon DEF TypeOK
  <2>11. ASSUME NEW u \in Tx, ~overwritten'[u]
         PROVE  /\ finals'[u] <= 1
                /\ finals'[u] = 1 => FinalRecorded(u)' \/ FinalClosing(u)'
    <3>1. ~overwritten[u]
      BY <2>6, <2>11, Zenon
    <3>2. CASE u = t
      BY <2>2, <2>4, <2>8, <2>10, <3>1, <3>2
    <3>3. CASE u # t
      <4>1. finals'[u] = finals[u] /\ u \in Tx \ {t}
        BY <2>4, <3>3, Zenon
      <4>2. finals[u] <= 1 /\ (finals[u] = 1 => FinalRecorded(u) \/ FinalClosing(u))
        BY <3>1, Zenon
      <4> QED
        BY <2>9, <4>1, <4>2, Zenon
    <3> QED
      BY <3>2, <3>3, Zenon
  <2>12. ASSUME NEW u \in Tx PROVE ~Delivering(u)'
    BY <2>6, Zenon
  <2> QED
    BY <2>11, <2>12, Zenon
<1>12. ASSUME NEW t \in Tx, NEW f \in Finisher, FinishRemove(t, f)
  PROVE FinalInv'
  BY <1>12 DEF FinishRemove
<1>13. ASSUME NEW t \in Tx, NEW f \in Finisher, FinishCheck(t, f)
  PROVE FinalInv'
  BY <1>13 DEF FinishCheck
<1>14. ASSUME NEW t \in Tx, NEW f \in Finisher, FinishClose(t, f)
  PROVE FinalInv'
  BY <1>14 DEF FinishClose
<1>15. ASSUME NEW t \in Tx, NEW c \in Class, Answer(t, c) PROVE FinalInv'
  BY <1>15 DEF Answer
<1>16. CASE UNCHANGED <<overwritten, finals, state, txs, fin, run, wireResp>>
  BY <1>16, Zenon
<1> QED
  BY Zenon, <1>1, <1>2, <1>3, <1>4, <1>5, <1>6, <1>7, <1>8, <1>9, <1>10, <1>11,
          <1>12,
     <1>13, <1>14, <1>15, <1>16
     DEF Next, Manager, Request, Loop, Run, Finish, Application, vars,
         RequestSend, LoopStop, LoopWake, LoopResend, LoopTimeout, Consume,
         Cancel

\* The loop's arithmetic: it is below Timer F until it gives up.
LEMMA LoopStep ==
  ASSUME TypeOK, CallerInv, LoopInv, [Next]_vars
  PROVE  LoopInv'
<1> USE DEF LoopInv, loopVars, finVars, history
<1>1. ASSUME NEW t \in Tx, RequestReturn(t) PROVE LoopInv'
  <2>1. loop[t] = "none" /\ ~expired[t]
    BY <1>1, Zenon DEF RequestReturn, CallerInv
  <2> QED
    BY <1>1, <2>1, Zenon DEF RequestReturn, Select, TypeOK
<1>2. ASSUME NEW t \in Tx, LoopStop(t) PROVE LoopInv'
  BY <1>2, Zenon DEF LoopStop, TypeOK
<1>3. ASSUME NEW t \in Tx, LoopWake(t) PROVE LoopInv'
  BY <1>3, Zenon DEF LoopWake, TypeOK
<1>4. ASSUME NEW t \in Tx, LoopResend(t) PROVE LoopInv'
  <2>1. /\ interval[t] <= LongestInterval(t) /\ elapsed[t] < TimerF
        /\ lateResends[t] = 0 /\ ~expired[t]
    BY <1>4, Zenon DEF LoopResend
  <2>2. interval[t] \in Nat /\ elapsed[t] \in Nat /\ TimerF \in Nat
    BY ClientTxAssumption, Zenon DEF TypeOK
  <2>3. capInterval(t) \in Nat /\ capInterval(t) <= LongestInterval(t)
          /\ LongestInterval(t) \in Nat
    BY ClientTxAssumption DEF capInterval, LongestInterval
  <2>4. lateResends'[t] <= 1 /\ elapsed'[t] = elapsed[t] + interval[t]
    BY <1>4, <2>1 DEF LoopResend, TypeOK
  <2>5. \A u \in Tx \ {t} : /\ loop'[u] = loop[u]
          /\ interval'[u] = interval[u]
                            /\ elapsed'[u] = elapsed[u]
                                    /\ lateResends'[u] = lateResends[u]
    BY <1>4, ZenonT(30) DEF LoopResend, TypeOK
  <2>6. CASE elapsed[t] + interval[t] >= TimerF
    <3>1. loop'[t] = "timeout" /\ interval'[t] = interval[t]
      BY <1>4, <2>6, Zenon DEF LoopResend, TypeOK
    <3> QED
      BY <1>4, <2>1, <2>2, <2>3, <2>4, <2>5, <2>6, <3>1 DEF LoopResend
  <2>7. CASE ~(elapsed[t] + interval[t] >= TimerF)
    <3>1. loop'[t] = Select(t) /\ interval'[t] <= capInterval(t)
      BY <1>4, <2>2, <2>3, <2>7 DEF LoopResend, TypeOK
    <3>2. Select(t) = "exit" \/ (Select(t) = "wait" /\ ~stop[t])
      BY SMTT(30) DEF Select
    <3>3. interval'[t] \in Nat
      BY <1>4, <2>2, <2>3, <2>7 DEF LoopResend, TypeOK
    <3>4. ~stop[t] => lateResends'[t] = 0
      BY <1>4, <2>1, Zenon DEF LoopResend, TypeOK
    <3> QED
      <4>1. expired' = expired
        BY <1>4, Zenon DEF LoopResend
      <4>2. loop'[t] \notin {"none", "resend", "timeout", "expire"}
              /\ interval'[t] <= LongestInterval(t)
        BY <2>3, <3>1, <3>2, <3>3
      <4>3. loop'[t] = "wait" => lateResends'[t] = 0
        BY <3>1, <3>2, <3>4, Zenon
      <4>4. elapsed'[t] < TimerF
        BY <2>2, <2>4, <2>7
      <4>5. ASSUME NEW u \in Tx \ {t}
            PROVE  /\ loop'[u] = loop[u] /\ interval'[u] = interval[u]
                   /\ elapsed'[u] = elapsed[u] /\ expired'[u] = expired[u]
                   /\ lateResends'[u] = lateResends[u]
        BY <2>5, <4>1, Zenon
      <4> QED
        BY <2>1, <2>4, <4>1, <4>2, <4>3, <4>4, <4>5, Zenon
  <2> QED
    BY <2>6, <2>7, Zenon
<1>5. ASSUME NEW t \in Tx, LoopTimeout(t) PROVE LoopInv'
  BY <1>5, Zenon DEF LoopTimeout, TypeOK
<1>6. ASSUME NEW t \in Tx, LoopExpire(t) PROVE LoopInv'
  <2>1. loop' = [loop EXCEPT ![t] = "exit"]
          /\ expired' = [expired EXCEPT ![t] = TRUE]
    BY <1>6, Zenon DEF LoopExpire
  <2>2. UNCHANGED <<interval, elapsed, lateResends>>
    BY <1>6, Zenon DEF LoopExpire
  <2> QED
    BY <1>6, <2>1, <2>2, ZenonT(30) DEF LoopExpire, TypeOK
<1>7. CASE UNCHANGED <<interval, elapsed, loop, lateResends, expired>>
  BY <1>7, Zenon
<1> HIDE DEF LoopInv
<1> QED
  BY <1>1, <1>2, <1>3, <1>4, <1>5, <1>6, <1>7, ZenonT(60)
     DEF Next, Manager, Request, Loop, Run, Finish, Application, vars,
         RequestRegister, RequestSend, RequestSendFails, LookupResponse,
         ReceiveProvisional, ReceiveSuccess, ReceiveFailure,
         DeliverProvisional, DeliverRecorded, DeliverAndFinish, FinishRemove,
         FinishCheck, FinishClose, Consume, Cancel, Answer

\* finish closes stop and removes the entry before it closes terminated.
LEMMA FinishStep ==
  ASSUME TypeOK, CallerInv, FinishInv, [Next]_vars
  PROVE  FinishInv'
<1> USE DEF FinishInv, loopVars, finVars, history, TypeOK
<1>1. ASSUME NEW t \in Tx, RequestRegister(t) PROVE FinishInv'
  <2>1. ~stop[t] /\ \A f \in Finisher : fin[t][f] = "none"
    BY <1>1, Zenon DEF RequestRegister, CallerInv
  <2> QED
    BY <1>1, <2>1, Zenon DEF RequestRegister
<1>2. ASSUME NEW t \in Tx, RequestSendFails(t) PROVE FinishInv'
  BY <1>2, Zenon DEF RequestSendFails
<1>3. ASSUME NEW t \in Tx, LoopExpire(t) PROVE FinishInv'
  BY <1>3, Zenon DEF LoopExpire
<1>4. ASSUME NEW t \in Tx, DeliverRecorded(t) PROVE FinishInv'
  BY <1>4 DEF DeliverRecorded
<1>5. ASSUME NEW t \in Tx, DeliverAndFinish(t) PROVE FinishInv'
  BY <1>5, ZenonT(30) DEF DeliverAndFinish
<1>6. ASSUME NEW t \in Tx, NEW f \in Finisher, FinishRemove(t, f)
  PROVE FinishInv'
  <2>1. t \notin txs' /\ stop'[t]
    BY <1>6, Zenon DEF FinishRemove
  <2>2. \A u \in Tx \ {t} : /\ u \in txs' <=> u \in txs
                            /\ stop'[u] = stop[u] /\ fin'[u] = fin[u]
    BY <1>6, Zenon DEF FinishRemove
  <2> QED
    BY <1>6, <2>1, <2>2, ZenonT(30) DEF FinishRemove
<1>7. ASSUME NEW t \in Tx, NEW f \in Finisher, FinishCheck(t, f)
  PROVE FinishInv'
  BY <1>7, Zenon DEF FinishCheck
<1>8. ASSUME NEW t \in Tx, NEW f \in Finisher, FinishClose(t, f)
  PROVE FinishInv'
  BY <1>8, Zenon DEF FinishClose
<1>9. CASE UNCHANGED <<terminated, fin, txs, stop>>
  BY <1>9, Zenon
<1> QED
  BY <1>1, <1>2, <1>3, <1>4, <1>5, <1>6, <1>7, <1>8, <1>9, ZenonT(30)
     DEF Next, Manager, Request, Loop, Run, Finish, Application, vars,
         RequestSend, RequestReturn, LoopStop, LoopWake, LoopResend,
         LoopTimeout, LookupResponse, ReceiveProvisional, ReceiveSuccess,
         ReceiveFailure, DeliverProvisional, Consume, Cancel, Answer

\* Without a race no second goroutine begins to finish a transaction.
LEMMA SoleStep ==
  ASSUME TypeOK, CallerInv, RunInv, ServerInv, FinalInv, LoopInv, FinishInv, SoleInv,
         [Next]_vars
  PROVE  SoleInv'
<1> USE DEF SoleInv, Raced, Ended, loopVars, finVars, history
<1>1. ASSUME NEW t \in Tx, RequestRegister(t) PROVE SoleInv'
  <2>1. wireResp[t] = {} /\ ~terminated[t] /\ \A f \in Finisher : fin[t][f] = "none"
    BY <1>1, Zenon DEF RequestRegister, CallerInv, FinishInv
  <2>2. /\ \A u \in Tx \ {t} : u \in txs' => u \in txs
        /\ UNCHANGED <<state, run, terminated, fin, wireResp, expired, overwritten>>
    BY <1>1, Zenon DEF RequestRegister
  <2> QED
    BY <2>1, <2>2 DEF FinalRecorded, FinalClosing, Delivering
<1>2. ASSUME NEW t \in Tx, RequestSendFails(t) PROVE SoleInv'
  BY <1>2, ZenonT(30) DEF RequestSendFails, FinalRecorded, FinalClosing, Delivering
<1>3. ASSUME NEW t \in Tx, RequestReturn(t) PROVE SoleInv'
  <2>1. overwritten \in [Tx -> BOOLEAN] /\ ~overwritten[t]
    BY <1>3, Zenon DEF TypeOK, RequestReturn, CallerInv
  <2>2. overwritten' = [overwritten EXCEPT ![t] = state[t] # "Idle"]
    BY <1>3, Zenon DEF RequestReturn
  <2>3. overwritten'[t] <=> state[t] # "Idle"
    BY <2>1, <2>2, Zenon
  <2>4. \A u \in Tx \ {t} : state'[u] = state[u] /\ overwritten'[u] = overwritten[u]
    BY <1>3, Zenon DEF RequestReturn, TypeOK
  <2>5. ASSUME NEW u \in Tx, ~overwritten'[u]
        PROVE  ~overwritten[u] /\ (state'[u] = state[u] \/ state[u] = "Idle")
    BY <2>1, <2>3, <2>4, <2>5, Zenon
  <2>6. UNCHANGED <<txs, run, terminated, fin, wireResp, expired>>
    BY <1>3, Zenon DEF RequestReturn
  <2> QED
    BY <2>5, <2>6, Zenon DEF FinalRecorded, FinalClosing, Delivering
<1>4. ASSUME NEW t \in Tx, LoopExpire(t) PROVE SoleInv'
  <2>1. ~expired[t]
    BY <1>4, Zenon DEF LoopExpire, LoopInv
  <2>2. expired'[t] /\ \A u \in Tx \ {t} : expired'[u] = expired[u] /\ fin'[u] = fin[u]
    BY <1>4, Zenon DEF LoopExpire, TypeOK
  <2>3. \A f \in Finisher \ {"loop"} : fin'[t][f] = fin[t][f]
    BY <1>4, Zenon DEF LoopExpire, TypeOK
  <2>4. UNCHANGED <<txs, state, run, terminated, wireResp, overwritten>>
    BY <1>4, Zenon DEF LoopExpire
  <2>5. ~Raced(t)' => ~Ended(t)
    BY <2>1, <2>2, <2>4, Zenon
  <2>6. ASSUME NEW u \in Tx \ {t}
        PROVE  /\ FinalRecorded(u) => FinalRecorded(u)'
               /\ FinalClosing(u) => FinalClosing(u)'
               /\ Delivering(u)' => Delivering(u)
    BY <2>2, <2>4, Zenon DEF FinalRecorded, FinalClosing, Delivering
  <2> QED
    BY <2>2, <2>3, <2>4, <2>5, <2>6
<1>5. ASSUME NEW t \in Tx, NEW c \in Class, LookupResponse(t, c) PROVE SoleInv'
  <2>1. fin[t]["run"] = "none" /\ t \in txs
    BY <1>5, Zenon DEF LookupResponse, RunIsIdle
  <2>2. run' # Idle /\ run'.pc = "receive" /\ run'.tx = t
    BY <1>5, Zenon DEF LookupResponse, Idle
  <2>3. UNCHANGED <<txs, state, terminated, fin, wireResp, expired, overwritten>>
    BY <1>5, Zenon DEF LookupResponse
  <2> QED
    BY <2>1, <2>2, <2>3 DEF FinalRecorded, FinalClosing, Delivering
<1>6. ASSUME NEW t \in Tx, ReceiveProvisional(t) PROVE SoleInv'
  <2>1. run # Idle /\ run.tx = t /\ run.class = "provisional"
    BY <1>6, Zenon DEF ReceiveProvisional, Idle
  <2>2. "provisional" \in wireResp[t]
    BY <2>1, Zenon DEF RunInv
  <2>3. UNCHANGED <<txs, terminated, fin, wireResp, expired, overwritten>>
    BY <1>6, Zenon DEF ReceiveProvisional
  <2>4. \A u \in Tx \ {t} : state'[u] = state[u] /\ (run' # Idle => run'.tx # u)
    <3>1. \A u \in Tx \ {t} : state'[u] = state[u]
      BY <1>6, Zenon DEF ReceiveProvisional, TypeOK
    <3>2. run' = Idle \/ run' = [pc |-> "deliver", tx |-> t, class |-> "provisional"]
      BY <1>6, Zenon DEF ReceiveProvisional
    <3>3. run' = Idle \/ run'.tx = t
      BY <3>2
    <3> QED
      BY <3>1, <3>3, Zenon
  <2>5. FinalRecorded(t) => FinalRecorded(t)' /\ ~Delivering(t)'
    BY <1>6, <2>2, Zenon DEF ReceiveProvisional, FinalRecorded, Delivering, TypeOK, ServerInv
  <2>6. ~FinalClosing(t)
    BY <2>1, Zenon DEF FinalClosing
  <2>7. ASSUME NEW u \in Tx \ {t}
        PROVE  /\ FinalRecorded(u) => FinalRecorded(u)'
               /\ FinalClosing(u) => FinalClosing(u)'
               /\ ~Delivering(u)'
    BY <2>3, <2>4, Zenon DEF FinalRecorded, FinalClosing, Delivering
  <2> QED
    BY <2>3, <2>5, <2>6, <2>7, Zenon
<1>7. ASSUME NEW t \in Tx, ReceiveSuccess(t) PROVE SoleInv'
  <2>1. run # Idle /\ run.tx = t /\ run.class = "success"
    BY <1>7, Zenon DEF ReceiveSuccess, Idle
  <2>2. "success" \in wireResp[t]
    BY <2>1, Zenon DEF RunInv
  <2>3. UNCHANGED <<txs, terminated, fin, wireResp, expired, overwritten>>
    BY <1>7, Zenon DEF ReceiveSuccess
  <2>4. \A u \in Tx \ {t} : state'[u] = state[u] /\ (run' # Idle => run'.tx # u)
    <3>1. \A u \in Tx \ {t} : state'[u] = state[u]
      BY <1>7, Zenon DEF ReceiveSuccess, TypeOK
    <3>2. run' = Idle \/ run' = [pc |-> "deliver", tx |-> t, class |-> "success"]
      BY <1>7, Zenon DEF ReceiveSuccess
    <3>3. run' = Idle \/ run'.tx = t
      BY <3>2
    <3> QED
      BY <3>1, <3>3, Zenon
  <2>5. FinalRecorded(t) => FinalRecorded(t)' /\ ~Delivering(t)'
    BY <1>7, <2>2, ZenonT(30) DEF ReceiveSuccess, FinalRecorded, Delivering, TypeOK, ServerInv
  <2>6. ~FinalClosing(t)
    BY <2>1, Zenon DEF FinalClosing
  <2>7. ASSUME NEW u \in Tx \ {t}
        PROVE  /\ FinalRecorded(u) => FinalRecorded(u)'
               /\ FinalClosing(u) => FinalClosing(u)'
               /\ ~Delivering(u)'
    BY <2>3, <2>4, Zenon DEF FinalRecorded, FinalClosing, Delivering
  <2> QED
    BY <2>3, <2>5, <2>6, <2>7, Zenon
<1>8. ASSUME NEW t \in Tx, ReceiveFailure(t) PROVE SoleInv'
  <2>1. run # Idle /\ run.tx = t /\ run.class = "failure"
    BY <1>8, Zenon DEF ReceiveFailure, Idle
  <2>2. "failure" \in wireResp[t]
    BY <2>1, Zenon DEF RunInv
  <2>3. UNCHANGED <<txs, terminated, fin, wireResp, expired, overwritten>>
    BY <1>8, Zenon DEF ReceiveFailure
  <2>4. \A u \in Tx \ {t} : state'[u] = state[u] /\ (run' # Idle => run'.tx # u)
    <3>1. \A u \in Tx \ {t} : state'[u] = state[u]
      BY <1>8, ZenonT(30) DEF ReceiveFailure, TypeOK
    <3>2. run' = Idle \/ run' = [pc |-> "deliver", tx |-> t, class |-> "failure"]
      BY <1>8, Zenon DEF ReceiveFailure
    <3>3. run' = Idle \/ run'.tx = t
      BY <3>2
    <3> QED
      BY <3>1, <3>3, Zenon
  <2>5. FinalRecorded(t) => FinalRecorded(t)' /\ ~Delivering(t)'
    BY <1>8, <2>2, Zenon DEF ReceiveFailure, FinalRecorded, Delivering, TypeOK, ServerInv
  <2>6. ~FinalClosing(t)
    BY <2>1, Zenon DEF FinalClosing
  <2>7. ASSUME NEW u \in Tx \ {t}
        PROVE  /\ FinalRecorded(u) => FinalRecorded(u)'
               /\ FinalClosing(u) => FinalClosing(u)'
               /\ ~Delivering(u)'
    BY <2>3, <2>4, Zenon DEF FinalRecorded, FinalClosing, Delivering
  <2> QED
    BY <2>3, <2>5, <2>6, <2>7, Zenon
<1>9. ASSUME NEW t \in Tx, DeliverProvisional(t) PROVE SoleInv'
  BY <1>9, ZenonT(30) DEF DeliverProvisional, FinalRecorded, FinalClosing, Delivering
<1>10. ASSUME NEW t \in Tx, DeliverRecorded(t) PROVE SoleInv'
  <2>1. /\ Delivering(t) /\ run.class \in wireResp[t]
        /\ t \in Invite \/ run.class = "failure"
    BY <1>10 DEF DeliverRecorded, Delivering, Idle, FinalClass, RunInv
  <2>2. wireResp[t] \cap FinalClass # {}
    BY <2>1, Zenon DEF Delivering
  <2>3. FreeTimer(t) \in Finisher
    BY SMTT(30) DEF FreeTimer, Finisher
  <2>4. fin' = [fin EXCEPT ![t] = [fin[t] EXCEPT ![FreeTimer(t)] = "due"]]
    BY <1>10, Zenon DEF DeliverRecorded
  <2>5. /\ \A u \in Tx \ {t} : fin'[u] = fin[u]
        /\ fin'[t][FreeTimer(t)] = "due"
        /\ \A g \in Finisher \ {FreeTimer(t)} : fin'[t][g] = fin[t][g]
    BY <2>3, <2>4, ZenonT(30) DEF TypeOK
  <2>6. run' = Idle /\ UNCHANGED <<txs, state, terminated, wireResp, expired, overwritten>>
    BY <1>10, Zenon DEF DeliverRecorded
  <2>7. ~Raced(t) => ~Ended(t) /\ ~expired[t]
    BY <2>1, <2>2, Zenon
  <2>8. ~overwritten[t] => FinalRecorded(t)' \/ FinalClosing(t)'
    BY <2>1, <2>5, <2>6, Zenon DEF FinalInv, FinalRecorded, FinalClosing, Delivering
  <2>9. ASSUME NEW u \in Tx \ {t}
        PROVE  /\ FinalRecorded(u) => FinalRecorded(u)'
               /\ FinalClosing(u) => FinalClosing(u)'
    BY <2>5, <2>6, Zenon DEF FinalRecorded, FinalClosing
  <2>10. ASSUME NEW u \in Tx PROVE ~Delivering(u)'
    BY <2>6, Zenon DEF Delivering
  <2>11. ASSUME NEW u \in Tx, ~Raced(u)'
         PROVE  /\ \A f, g \in Finisher : fin'[u][f] # "none" /\ fin'[u][g] # "none" => f = g
                /\ terminated'[u] => \A f \in Finisher : fin'[u][f] = "none"
                /\ Ended(u)' /\ ~expired'[u] =>
                     /\ wireResp'[u] \cap FinalClass # {}
                     /\ FinalRecorded(u)' \/ FinalClosing(u)'
    <3>1. ~Raced(u)
      BY <2>6, <2>11, Zenon
    <3>2. CASE u = t
      <4>1. ~terminated[t] /\ \A f \in Finisher : fin[t][f] = "none"
        BY <2>7, <3>1, <3>2, Zenon
      <4> QED
        BY <2>2, <2>5, <2>6, <2>8, <3>1, <3>2, <4>1, Zenon
    <3>3. CASE u # t
      <4>1. fin'[u] = fin[u]
        BY <2>5, <3>3, Zenon
      <4> QED
        BY <2>6, <2>9, <3>1, <3>3, <4>1, ZenonT(30)
    <3> QED
      BY <3>2, <3>3, Zenon
  <2> QED
    BY <2>10, <2>11, Zenon
<1>11. ASSUME NEW t \in Tx, DeliverAndFinish(t) PROVE SoleInv'
  <2>1. /\ Delivering(t) /\ run.class \in wireResp[t]
        /\ t \notin Invite /\ run.class = "success"
    BY <1>11, Zenon DEF DeliverAndFinish, Delivering, Idle, FinalClass, RunInv
  <2>2. wireResp[t] \cap FinalClass # {}
    BY <2>1, Zenon DEF Delivering
  <2>3. "run" \in Finisher
    BY Zenon DEF Finisher
  <2>4. fin' = [fin EXCEPT ![t] = [fin[t] EXCEPT !["run"] = "due"]]
    BY <1>11, Zenon DEF DeliverAndFinish
  <2>5. /\ \A u \in Tx \ {t} : fin'[u] = fin[u]
        /\ fin'[t]["run"] = "due"
        /\ \A g \in Finisher \ {"run"} : fin'[t][g] = fin[t][g]
    BY <2>3, <2>4, ZenonT(30) DEF TypeOK
  <2>6. run' = Idle /\ UNCHANGED <<txs, state, terminated, wireResp, expired, overwritten>>
    BY <1>11, Zenon DEF DeliverAndFinish
  <2>7. ~Raced(t) => ~Ended(t) /\ ~expired[t]
    BY <2>1, <2>2, Zenon
  <2>8. ~overwritten[t] => FinalRecorded(t)' \/ FinalClosing(t)'
    BY <2>1, <2>5, <2>6, Zenon DEF FinalInv, FinalRecorded, FinalClosing, Delivering
  <2>9. ASSUME NEW u \in Tx \ {t}
        PROVE  /\ FinalRecorded(u) => FinalRecorded(u)'
               /\ FinalClosing(u) => FinalClosing(u)'
    BY <2>5, <2>6, Zenon DEF FinalRecorded, FinalClosing
  <2>10. ASSUME NEW u \in Tx PROVE ~Delivering(u)'
    BY <2>6, Zenon DEF Delivering
  <2>11. ASSUME NEW u \in Tx, ~Raced(u)'
         PROVE  /\ \A f, g \in Finisher : fin'[u][f] # "none" /\ fin'[u][g] # "none" => f = g
                /\ terminated'[u] => \A f \in Finisher : fin'[u][f] = "none"
                /\ Ended(u)' /\ ~expired'[u] =>
                     /\ wireResp'[u] \cap FinalClass # {}
                     /\ FinalRecorded(u)' \/ FinalClosing(u)'
    <3>1. ~Raced(u)
      BY <2>6, <2>11, Zenon
    <3>2. CASE u = t
      <4>1. ~terminated[t] /\ \A f \in Finisher : fin[t][f] = "none"
        BY <2>7, <3>1, <3>2, Zenon
      <4> QED
        BY <2>2, <2>5, <2>6, <2>8, <3>1, <3>2, <4>1, Zenon
    <3>3. CASE u # t
      <4>1. fin'[u] = fin[u]
        BY <2>5, <3>3, Zenon
      <4> QED
        BY <2>6, <2>9, <3>1, <3>3, <4>1, ZenonT(30)
    <3> QED
      BY <3>2, <3>3, Zenon
  <2> QED
    BY <2>10, <2>11, Zenon
<1>12. ASSUME NEW t \in Tx, NEW f \in Finisher, FinishRemove(t, f) PROVE SoleInv'
  BY <1>12 DEF FinishRemove, TypeOK, FinalRecorded, FinalClosing, Delivering
<1>13. ASSUME NEW t \in Tx, NEW f \in Finisher, FinishCheck(t, f) PROVE SoleInv'
  BY <1>13 DEF FinishCheck, TypeOK, FinalRecorded, FinalClosing, Delivering
<1>14. ASSUME NEW t \in Tx, NEW f \in Finisher, FinishClose(t, f) PROVE SoleInv'
  BY <1>14 DEF FinishClose, TypeOK, FinalRecorded, FinalClosing, Delivering
<1>15. ASSUME NEW t \in Tx, NEW c \in Class, Answer(t, c) PROVE SoleInv'
  BY <1>15 DEF Answer, TypeOK, FinalRecorded, FinalClosing, Delivering
<1>16. CASE UNCHANGED <<overwritten, expired, terminated, state, txs, fin, run, wireResp>>
  BY <1>16, Zenon DEF FinalRecorded, FinalClosing, Delivering
<1> HIDE DEF SoleInv
<1> QED
  BY ZenonT(30), <1>1, <1>2, <1>3, <1>4, <1>5, <1>6, <1>7, <1>8, <1>9, <1>10, <1>11, <1>12,
     <1>13, <1>14, <1>15, <1>16
     DEF Next, Manager, Request, Loop, Run, Finish, Application, vars,
         RequestSend, LoopStop, LoopWake, LoopResend, LoopTimeout, Consume, Cancel

\* A close of a closed channel needs a second goroutine, and so a race.
LEMMA CrashStep ==
  ASSUME TypeOK, SoleInv, CrashNeedsRace, [Next]_vars
  PROVE  CrashNeedsRace'
<1> USE DEF CrashNeedsRace
<1>1. ASSUME NEW t \in Tx, NEW f \in Finisher, FinishClose(t, f) PROVE CrashNeedsRace'
  <2>1. crashed' => Raced(t)
    BY <1>1, Zenon DEF FinishClose, SoleInv
  <2> QED
    BY <1>1, <2>1, Zenon DEF FinishClose, Raced, history
<1>2. CASE UNCHANGED vars
  BY <1>2, Zenon DEF vars, history, finVars
<1>3. CASE ~crashed /\ UNCHANGED crashed
  BY <1>3, Zenon
<1> HIDE DEF CrashNeedsRace
<1> QED
  BY <1>1, <1>2, <1>3, ZenonT(30)
     DEF Next, Manager, Request, Loop, Run, Finish, Application, finVars,
         RequestRegister, RequestSend, RequestSendFails, RequestReturn, LoopStop,
         LoopWake, LoopResend, LoopTimeout, LoopExpire, LookupResponse,
         ReceiveProvisional, ReceiveSuccess, ReceiveFailure, DeliverProvisional,
         DeliverRecorded, DeliverAndFinish, FinishRemove, FinishCheck, Consume,
         Cancel, Answer

-----------------------------------------------------------------------------
(* The theorems *)

\* The inductive invariant holds in every reachable state.
THEOREM Inductive == Spec => []IInv
<1>1. Init => CallerInv /\ RunInv /\ ServerInv /\ FinalInv /\ LoopInv /\ FinishInv
  <2> SUFFICES ASSUME Init
               PROVE  CallerInv /\ RunInv /\ ServerInv /\ FinalInv /\ LoopInv /\ FinishInv
    OBVIOUS
  <2>1. CallerInv /\ RunInv /\ ServerInv /\ FinishInv
    BY Zenon DEF Init, CallerInv, RunInv, ServerInv, FinishInv
  <2>2. FinalInv
    BY DEF Init, FinalInv, Delivering
  <2>3. LoopInv
    <3>1. ASSUME NEW t \in Tx PROVE interval[t] <= LongestInterval(t)
      <4>1. T1 <= LongestInterval(t)
        BY ClientTxAssumption DEF LongestInterval, capInterval
      <4> QED
        BY <4>1, Zenon DEF Init
    <3>2. ASSUME NEW t \in Tx PROVE elapsed[t] < TimerF /\ lateResends[t] = 0
      BY ClientTxAssumption DEF Init
    <3>3. ASSUME NEW t \in Tx PROVE loop[t] = "none" /\ expired[t] = FALSE
      BY Zenon DEF Init
    <3>4. ASSUME NEW t \in Tx PROVE lateResends[t] <= 1
      BY DEF Init
    <3>5. ASSUME NEW t \in Tx PROVE loop[t] \notin {"timeout", "expire"}
      BY <3>3, Zenon
    <3> QED
      BY <3>1, <3>2, <3>3, <3>4, <3>5, Zenon DEF LoopInv
  <2> QED
    BY <2>1, <2>2, <2>3, Zenon
<1>2. IInv /\ [Next]_vars
        => (CallerInv /\ RunInv /\ ServerInv /\ FinalInv /\ LoopInv /\ FinishInv)'
  BY CallerStep, RunStep, ServerStep, FinalStep, LoopStep, FinishStep, Zenon DEF IInv
<1>3. Init => SoleInv /\ CrashNeedsRace
  BY DEF Init, SoleInv, Ended, CrashNeedsRace
<1>4. IInv /\ [Next]_vars => (SoleInv /\ CrashNeedsRace)'
  BY SoleStep, CrashStep, Zenon DEF IInv
<1> QED
  BY <1>1, <1>2, <1>3, <1>4, TypeCorrect, PTL DEF Spec, IInv

\* receive delivers at most one final response to a transaction whose state
\* Request has not overwritten, however the goroutines interleave.
THEOREM OneFinalDelivered == Spec => []AtMostOneFinal
<1>1. IInv => AtMostOneFinal
  BY Zenon DEF IInv, FinalInv, AtMostOneFinal
<1> QED
  BY <1>1, Inductive, PTL

\* startRetransmit gives up neither before Timer F nor an interval after it.
THEOREM TimeoutIsOnTime == Spec => []TimeoutOnTime
<1>1. IInv => TimeoutOnTime
  BY Zenon DEF IInv, TypeOK, LoopInv, TimeoutOnTime
<1> QED
  BY <1>1, Inductive, PTL

\* finish frees the key and stops the loop before it closes terminated.
THEOREM TerminatedFreesKey == Spec => []TerminatedIsUnregistered
<1>1. IInv => TerminatedIsUnregistered
  BY ZenonT(30), Zenon DEF IInv, FinishInv, TerminatedIsUnregistered
<1> QED
  BY <1>1, Inductive, PTL

\* startRetransmit sends at most once more after finish has closed stop.
THEOREM OneLateResend == Spec => []AtMostOneLateResend
<1>1. IInv => AtMostOneLateResend
  BY Zenon DEF IInv, LoopInv, AtMostOneLateResend
<1> QED
  BY <1>1, Inductive, PTL

\* finish closes a closed channel only if Timer F ran out while a final response
\* came in, or if a response overtook Request.
THEOREM PanicNeedsRace == Spec => []CrashNeedsRace
<1>1. IInv => CrashNeedsRace
  BY Zenon DEF IInv
<1> QED
  BY <1>1, Inductive, PTL
=============================================================================
