--------------------------- MODULE ConnPoolProofs ---------------------------
(* Proofs that SharedDial, NoLeak and StaleUnderName are invariants of      *)
(* ConnPool, and that it implements SingleFlight, for any senders, peers,   *)
(* names and connections.                                                   *)
EXTENDS ConnPool, TLAPS

\* Who dials for a key is in inflight, and the other way round.
Dials ==
  /\ \A k \in Key : inflight[k] # None =>
       pc[inflight[k]] = "dial" /\ key[inflight[k]] = k
  /\ \A s \in Sender : pc[s] \in {"dial", "signal", "wait", "woken"} => key[s] \in Key
  /\ \A s \in Sender : call[s] # None => pc[s] = "wait"
  /\ SharedDial

\* Connections that are referred to were made, and an entry of the table is
\* under the address the reader knows or under a name.
Made ==
  /\ \A s \in Sender : conn[s] # None => remote[conn[s]] # None
  /\ \A s \in Sender : pc[s] = "write" => conn[s] # None
  /\ \A c \in Conn : remote[c] = None => reader[c] = "none" /\ c \notin open
  /\ \A k \in Key : tcpConns[k] # None =>
       remote[tcpConns[k]] # None /\ (k \in Name \/ k = remote[tcpConns[k]])

\* The inductive invariant.
IInv == TypeOK /\ Dials /\ Made /\ NoLeak /\ StaleUnderName

\* The initial states satisfy the invariant: nothing is open, nobody sends.
LEMMA InitInv == Init => IInv
<1> SUFFICES ASSUME Init PROVE IInv
  OBVIOUS
<1>1. TypeOK
  BY ZenonT(30) DEF Init, TypeOK
<1>2. Dials
  BY DEF Init, Dials, SharedDial, Dialling
<1>3. Made
  BY DEF Init, Made
<1>4. NoLeak /\ StaleUnderName
  BY DEF Init, NoLeak, StaleUnderName
<1> QED
  BY <1>1, <1>2, <1>3, <1>4 DEF IInv

\* A step that changes no variable keeps the invariant.
LEMMA StutterInv == IInv /\ UNCHANGED vars => IInv'
  BY DEF IInv, TypeOK, Dials, SharedDial, Dialling, Made, NoLeak, StaleUnderName, vars

\* A sender asks for a connection: only its own place changes, and inflight.
LEMMA GetStreamConnInv == ASSUME IInv, NEW s \in Sender, NEW k \in Key, getStreamConn(s, k) PROVE IInv'
<1> USE ConnPoolAssumption
<1>1. TypeOK'
  BY DEF IInv, TypeOK, Made, Key, getStreamConn, Shares, connVars, sendVars
<1>2. Dials'
  BY DEF IInv, TypeOK, Dials, SharedDial, Dialling, getStreamConn, Shares, connVars, sendVars
<1>3. Made'
  BY DEF IInv, TypeOK, Made, Key, getStreamConn, Shares, connVars, sendVars
<1>4. NoLeak'
  BY DEF IInv, TypeOK, NoLeak, Made, getStreamConn, Shares, connVars, sendVars
<1>5. StaleUnderName'
  BY DEF IInv, TypeOK, StaleUnderName, Made, getStreamConn, Shares, connVars, sendVars
<1> QED
  BY <1>1, <1>2, <1>3, <1>4, <1>5 DEF IInv

\* The dial is over: the connection is one that was not used before.
LEMMA DialDoneInv == ASSUME IInv, NEW s \in Sender, DialDone(s) PROVE IInv'
<1> USE ConnPoolAssumption
<1>0. key[s] \in Key
  BY DEF IInv, Dials, DialDone
<1>1. TypeOK'
  BY <1>0 DEF IInv, TypeOK, Made, Key, DialDone, Fresh
<1>2. Dials'
  BY DEF IInv, TypeOK, Dials, SharedDial, Dialling, DialDone, Fresh
<1>3. Made'
  BY <1>0 DEF IInv, TypeOK, Made, Key, DialDone, Fresh
<1>4. NoLeak'
  BY DEF IInv, TypeOK, NoLeak, Made, DialDone, Fresh
<1>5. StaleUnderName'
  BY DEF IInv, TypeOK, StaleUnderName, Made, DialDone, Fresh
<1> QED
  BY <1>1, <1>2, <1>3, <1>4, <1>5 DEF IInv

\* The sender that dialled wakes exactly those that wait for it.
LEMMA SignalInv == ASSUME IInv, NEW s \in Sender, Signal(s) PROVE IInv'
<1> USE ConnPoolAssumption
<1>1. TypeOK'
  BY DEF IInv, TypeOK, Made, Key, Signal, Waiters, Start
<1>2. Dials'
  BY DEF IInv, TypeOK, Dials, SharedDial, Dialling, Signal, Waiters, Start
<1>3. Made'
  BY DEF IInv, TypeOK, Made, Key, Signal, Waiters, Start
<1>4. NoLeak'
  BY DEF IInv, TypeOK, NoLeak, Made, Signal, Waiters, Start
<1>5. StaleUnderName'
  BY DEF IInv, TypeOK, StaleUnderName, Made, Signal, Waiters, Start
<1> QED
  BY <1>1, <1>2, <1>3, <1>4, <1>5 DEF IInv

\* A sender that has waited takes a connection from the table or the dial.
LEMMA WokenInv == ASSUME IInv, NEW s \in Sender, Woken(s) PROVE IInv'
<1> USE ConnPoolAssumption
<1>0. key[s] \in Key
  BY DEF IInv, Dials, Woken
<1>1. TypeOK'
  BY <1>0 DEF IInv, TypeOK, Made, Key, Woken, connVars
<1>2. Dials'
  BY DEF IInv, TypeOK, Dials, SharedDial, Dialling, Woken, connVars
<1>3. Made'
  BY <1>0 DEF IInv, TypeOK, Made, Key, Woken, connVars
<1>4. NoLeak'
  BY DEF IInv, TypeOK, NoLeak, Made, Woken, connVars
<1>5. StaleUnderName'
  BY DEF IInv, TypeOK, StaleUnderName, Made, Woken, connVars
<1> QED
  BY <1>1, <1>2, <1>3, <1>4, <1>5 DEF IInv

\* The write ends a Send.
LEMMA WriteInv == ASSUME IInv, NEW s \in Sender, Write(s) PROVE IInv'
<1> USE ConnPoolAssumption
<1>1. TypeOK'
  BY DEF IInv, TypeOK, Made, Key, Write, connVars
<1>2. Dials'
  BY DEF IInv, TypeOK, Dials, SharedDial, Dialling, Write, connVars
<1>3. Made'
  BY DEF IInv, TypeOK, Made, Key, Write, connVars
<1>4. NoLeak'
  BY DEF IInv, TypeOK, NoLeak, Made, Write, connVars
<1>5. StaleUnderName'
  BY DEF IInv, TypeOK, StaleUnderName, Made, Write, connVars
<1> QED
  BY <1>1, <1>2, <1>3, <1>4, <1>5 DEF IInv

\* A connection that is accepted gets a reader.
LEMMA AcceptInv == ASSUME IInv, NEW c \in Conn, Accept(c) PROVE IInv'
<1> USE ConnPoolAssumption
<1>1. TypeOK'
  BY DEF IInv, TypeOK, Made, Key, Accept, Fresh, Start, sendVars
<1>2. Dials'
  BY DEF IInv, TypeOK, Dials, SharedDial, Dialling, Accept, Fresh, Start, sendVars
<1>3. Made'
  BY DEF IInv, TypeOK, Made, Key, Accept, Fresh, Start, sendVars
<1>4. NoLeak'
  BY DEF IInv, TypeOK, NoLeak, Made, Accept, Fresh, Start, sendVars
<1>5. StaleUnderName'
  BY DEF IInv, TypeOK, StaleUnderName, Made, Accept, Fresh, Start, sendVars
<1> QED
  BY <1>1, <1>2, <1>3, <1>4, <1>5 DEF IInv

\* A reader stores its connection under the address it knows.
LEMMA ReaderStartInv == ASSUME IInv, NEW c \in Conn, ReaderStart(c) PROVE IInv'
<1> USE ConnPoolAssumption
<1>1. TypeOK'
  BY DEF IInv, TypeOK, Made, Key, ReaderStart, sendVars
<1>2. Dials'
  BY DEF IInv, TypeOK, Dials, SharedDial, Dialling, ReaderStart, sendVars
<1>3. Made'
  BY DEF IInv, TypeOK, Made, Key, ReaderStart, sendVars
<1>4. NoLeak'
  BY DEF IInv, TypeOK, NoLeak, Made, ReaderStart, sendVars
<1>5. StaleUnderName'
  BY DEF IInv, TypeOK, StaleUnderName, Made, ReaderStart, sendVars
<1> QED
  BY <1>1, <1>2, <1>3, <1>4, <1>5 DEF IInv

\* A reader that ends leaves no entry under that address and closes both.
LEMMA ReaderEndInv == ASSUME IInv, NEW c \in Conn, ReaderEnd(c) PROVE IInv'
<1> USE ConnPoolAssumption
<1>1. TypeOK'
  BY DEF IInv, TypeOK, Made, Key, ReaderEnd, Dropped, sendVars
<1>2. Dials'
  BY DEF IInv, TypeOK, Dials, SharedDial, Dialling, ReaderEnd, Dropped, sendVars
<1>3. Made'
  BY DEF IInv, TypeOK, Made, Key, ReaderEnd, Dropped, sendVars
<1>4. NoLeak'
  BY DEF IInv, TypeOK, NoLeak, Made, ReaderEnd, Dropped, sendVars
<1>5. StaleUnderName'
  BY DEF IInv, TypeOK, StaleUnderName, Made, ReaderEnd, Dropped, sendVars
<1> QED
  BY <1>1, <1>2, <1>3, <1>4, <1>5 DEF IInv

\* The janitor only takes entries out and closes connections.
LEMMA JanitorInv == ASSUME IInv, NEW k \in Key, janitor(k) PROVE IInv'
<1> USE ConnPoolAssumption
<1>1. TypeOK'
  BY DEF IInv, TypeOK, Made, Key, janitor, Dropped, sendVars
<1>2. Dials'
  BY DEF IInv, TypeOK, Dials, SharedDial, Dialling, janitor, Dropped, sendVars
<1>3. Made'
  BY DEF IInv, TypeOK, Made, Key, janitor, Dropped, sendVars
<1>4. NoLeak'
  BY DEF IInv, TypeOK, NoLeak, Made, janitor, Dropped, sendVars
<1>5. StaleUnderName'
  BY DEF IInv, TypeOK, StaleUnderName, Made, janitor, Dropped, sendVars
<1> QED
  BY <1>1, <1>2, <1>3, <1>4, <1>5 DEF IInv

\* Close only takes entries out and closes connections.
LEMMA CloseInv == ASSUME IInv, Close PROVE IInv'
<1> USE ConnPoolAssumption
<1>1. TypeOK'
  BY DEF IInv, TypeOK, Made, Key, Close, sendVars
<1>2. Dials'
  BY DEF IInv, TypeOK, Dials, SharedDial, Dialling, Close, sendVars
<1>3. Made'
  BY DEF IInv, TypeOK, Made, Key, Close, sendVars
<1>4. NoLeak'
  BY DEF IInv, TypeOK, NoLeak, Made, Close, sendVars
<1>5. StaleUnderName'
  BY DEF IInv, TypeOK, StaleUnderName, Made, Close, sendVars
<1> QED
  BY <1>1, <1>2, <1>3, <1>4, <1>5 DEF IInv

\* The invariant holds in every reachable state.
THEOREM Invariance == Spec => []IInv
<1>1. ASSUME IInv, [Next]_vars PROVE IInv'
  <2>1. ASSUME NEW s \in Sender, NEW k \in Key, getStreamConn(s, k) PROVE IInv'
    BY <1>1, <2>1, GetStreamConnInv
  <2>2. ASSUME NEW s \in Sender, Send(s) PROVE IInv'
    BY <1>1, <2>2, DialDoneInv, SignalInv, WokenInv, WriteInv DEF Send
  <2>3. ASSUME NEW c \in Conn, Accept(c) \/ ReaderStart(c) \/ ReaderEnd(c) PROVE IInv'
    BY <1>1, <2>3, AcceptInv, ReaderStartInv, ReaderEndInv
  <2>4. ASSUME NEW k \in Key, janitor(k) PROVE IInv'
    BY <1>1, <2>4, JanitorInv
  <2>5. CASE Close
    BY <1>1, <2>5, CloseInv
  <2>6. CASE UNCHANGED vars
    BY <1>1, <2>6, StutterInv
  <2> QED
    BY <1>1, <2>1, <2>2, <2>3, <2>4, <2>5, <2>6 DEF Next
<1> QED
  BY InitInv, <1>1, PTL DEF Spec

\* getStreamConn never dials twice for an address at the same time, and a
\* sender that waits for a dial is waiting for one that is going on.
THEOREM SharedDialHolds == Spec => []SharedDial
<1>1. IInv => SharedDial
  BY DEF IInv, Dials
<1> QED
  BY Invariance, <1>1, PTL

\* No open connection is without a reader for longer than it takes to start it.
THEOREM NoLeakHolds == Spec => []NoLeak
<1>1. IInv => NoLeak
  BY DEF IInv
<1> QED
  BY Invariance, <1>1, PTL

\* An entry whose reader has ended is an entry under a host name.
THEOREM StaleUnderNameHolds == Spec => []StaleUnderName
<1>1. IInv => StaleUnderName
  BY DEF IInv
<1> QED
  BY Invariance, <1>1, PTL

-----------------------------------------------------------------------------
(* ConnPool implements SingleFlight.                                        *)

\* What the refinement mapping looks at.
flight == <<inflight, call, pc, conn>>

\* A step of the readers, of the accept loop, of the janitor or of Close is none
\* of SingleFlight's.
LEMMA FlightKept == ASSUME UNCHANGED flight PROVE UNCHANGED F!fvars
  BY DEF flight, F!fvars, Landed, Told

\* Landed and Told after a step, by sender.
LEMMA MappingTypes ==
  /\ Landed = [s \in Sender |-> Landed[s]]
  /\ Told = [s \in Sender |-> Told[s]]
  /\ \A s \in Sender :
       /\ Landed[s] = IF pc[s] = "signal" THEN <<conn[s]>> ELSE <<>>
       /\ Told[s] = IF pc[s] = "woken" THEN <<conn[s]>> ELSE <<>>
  BY DEF Landed, Told

\* A sender that begins neither dials nor waits.
LEMMA IdleIsFree == ASSUME IInv, NEW s \in Sender, pc[s] = "idle" PROVE F!Free(s)
<1>1. \A k \in Key : inflight[k] # s
  BY ConnPoolAssumption DEF IInv, TypeOK, Dials
<1>2. call[s] = None
  BY DEF IInv, Dials
<1>3. Landed[s] = <<>> /\ Told[s] = <<>>
  BY MappingTypes
<1> QED
  BY <1>1, <1>2, <1>3 DEF F!Free

\* The first critical section of getStreamConn takes the dial, joins one, or
\* is of no concern.
LEMMA GetStreamConnFlies ==
  ASSUME IInv, NEW s \in Sender, NEW k \in Key, getStreamConn(s, k)
  PROVE  F!Take(s, k) \/ F!Join(s, k) \/ UNCHANGED F!fvars
<1>1. pc[s] = "idle" /\ F!Free(s)
  BY IdleIsFree DEF getStreamConn
<1>2. ASSUME NEW l \in {"write", "wait", "dial"}, pc' = [pc EXCEPT ![s] = l],
             UNCHANGED conn \/ (l = "write" /\ \E c : conn' = [conn EXCEPT ![s] = c])
      PROVE  UNCHANGED <<Landed, Told>>
  <2>1. \A t \in Sender : Landed'[t] = Landed[t] /\ Told'[t] = Told[t]
    BY <1>1, <1>2 DEF Landed, Told, IInv, TypeOK
  <2> QED
    BY <2>1 DEF Landed, Told
<1>3. CASE tcpConns[k] # None
  <2>1. UNCHANGED <<inflight, call>> /\ UNCHANGED <<Landed, Told>>
    BY <1>2, <1>3 DEF getStreamConn, sendVars
  <2> QED
    BY <2>1 DEF F!fvars
<1>4. CASE tcpConns[k] = None /\ Shares(k)
  <2>1. /\ inflight[k] # None
        /\ call' = [call EXCEPT ![s] = inflight[k]]
        /\ UNCHANGED <<inflight, Landed, Told>>
    BY <1>2, <1>4 DEF getStreamConn, Shares, sendVars
  <2> QED
    BY <1>1, <2>1 DEF F!Join
<1>5. CASE tcpConns[k] = None /\ ~Shares(k) /\ UNCHANGED sendVars
  BY <1>5, FlightKept DEF flight, sendVars
<1>6. CASE tcpConns[k] = None /\ ~Shares(k) /\ ~UNCHANGED sendVars
  <2>1. /\ inflight[k] = None
        /\ inflight' = [inflight EXCEPT ![k] = s]
        /\ UNCHANGED <<call, Landed, Told>>
    BY <1>2, <1>6 DEF getStreamConn, Shares, sendVars
  <2> QED
    BY <1>1, <2>1 DEF F!Take
<1> QED
  BY <1>3, <1>4, <1>5, <1>6

\* The second critical section ends the dial.
LEMMA DialDoneLands ==
  ASSUME IInv, NEW s \in Sender, DialDone(s)
  PROVE  \E k \in Key, r \in Conn \cup {None} : F!Land(k, r)
<1> USE ConnPoolAssumption
<1> DEFINE k == key[s]
<1>1. k \in Key /\ inflight[k] = s /\ pc[s] = "dial"
  BY DEF DialDone, IInv, Dials, SharedDial
<1>2. /\ inflight' = [inflight EXCEPT ![k] = None]
      /\ pc' = [pc EXCEPT ![s] = "signal"]
      /\ \E r \in Conn \cup {None} : conn' = [conn EXCEPT ![s] = r]
      /\ UNCHANGED call
  BY DEF DialDone
<1> HIDE DEF k
<1>3. PICK r \in Conn \cup {None} : conn' = [conn EXCEPT ![s] = r]
  BY <1>2, Zenon
<1>4. /\ Landed' = [Landed EXCEPT ![s] = <<r>>]
      /\ UNCHANGED Told
  <2>1. \A t \in Sender : /\ pc'[t] = IF t = s THEN "signal" ELSE pc[t]
                          /\ conn'[t] = IF t = s THEN r ELSE conn[t]
    BY <1>2, <1>3 DEF IInv, TypeOK
  <2>2. \A t \in Sender : /\ Landed'[t] = IF t = s THEN <<r>> ELSE Landed[t]
                          /\ Told'[t] = Told[t]
    BY <1>1, <2>1 DEF Landed, Told
  <2> QED
    BY <2>2, Zenon DEF Landed, Told
<1>5. inflight[k] # None
  BY <1>1
<1>6. F!Land(k, r)
  BY <1>1, <1>2, <1>4, <1>5 DEF F!Land
<1> QED
  BY <1>1, <1>6

\* wg.Done tells those that wait.
LEMMA SignalTells == ASSUME IInv, NEW s \in Sender, Signal(s) PROVE F!Tell(s)
<1> USE ConnPoolAssumption
<1>1. \A w \in Sender : w \in Waiters(s) <=> call[w] = s
  BY DEF Waiters, IInv, Dials
<1>2. pc[s] = "signal" /\ s \notin Waiters(s)
  BY DEF Signal, Waiters
<1>3. \A w \in Sender :
        /\ conn'[w] = IF w \in Waiters(s) THEN conn[s] ELSE conn[w]
        /\ w \in Waiters(s) => pc'[w] = "woken" /\ pc[w] = "wait"
        /\ w # s /\ w \notin Waiters(s) => pc'[w] = pc[w]
        /\ pc'[s] \in {"idle", "write"}
  BY <1>2, Zenon DEF Signal, Waiters
<1>4. Landed[s] = <<conn[s]>>
  BY <1>2 DEF Landed
<1>5. \A w \in Sender : Told'[w] = IF call[w] = s THEN Landed[s] ELSE Told[w]
  BY <1>1, <1>2, <1>3, <1>4 DEF Told
<1>6. \A w \in Sender : Landed'[w] = IF w = s THEN <<>> ELSE Landed[w]
  BY <1>1, <1>2, <1>3 DEF Landed
<1>7. /\ Told' = [w \in Sender |-> IF call[w] = s THEN Landed[s] ELSE Told[w]]
      /\ Landed' = [Landed EXCEPT ![s] = <<>>]
  BY <1>5, <1>6, Zenon DEF Told, Landed
<1>8. /\ call' = [w \in Sender |-> IF call[w] = s THEN None ELSE call[w]]
      /\ UNCHANGED inflight
  BY <1>1 DEF Signal
<1>9. Landed[s] # <<>>
  BY <1>4
<1> QED
  BY <1>7, <1>8, <1>9 DEF F!Tell

\* A sender that was woken looks at the table.
LEMMA WokenUses == ASSUME IInv, NEW s \in Sender, Woken(s) PROVE F!Use(s)
<1>1. /\ pc[s] = "woken"
      /\ \E l \in {"idle", "write"} : pc' = [pc EXCEPT ![s] = l]
      /\ \E c : conn' = [conn EXCEPT ![s] = c]
      /\ UNCHANGED <<inflight, call>>
  BY Zenon DEF Woken
<1>2. /\ pc'[s] \in {"idle", "write"}
      /\ \A t \in Sender \ {s} : pc'[t] = pc[t] /\ conn'[t] = conn[t]
  BY <1>1 DEF IInv, TypeOK
<1>3. Told[s] # <<>>
  BY <1>1 DEF Told
<1>4. Told' = [Told EXCEPT ![s] = <<>>] /\ UNCHANGED Landed
  BY <1>1, <1>2, Zenon DEF Told, Landed
<1> QED
  BY <1>1, <1>3, <1>4 DEF F!Use

\* The write ends a Send that is none of SingleFlight's any more.
LEMMA WriteKeeps == ASSUME IInv, NEW s \in Sender, Write(s) PROVE UNCHANGED F!fvars
<1>1. /\ pc[s] = "write"
      /\ pc' = [pc EXCEPT ![s] = "idle"]
      /\ conn' = [conn EXCEPT ![s] = None]
      /\ UNCHANGED <<inflight, call>>
  BY DEF Write
<1>2. /\ pc'[s] = "idle"
      /\ \A t \in Sender \ {s} : pc'[t] = pc[t] /\ conn'[t] = conn[t]
  BY <1>1 DEF IInv, TypeOK
<1>3. UNCHANGED <<Landed, Told>>
  BY <1>1, <1>2 DEF Told, Landed
<1> QED
  BY <1>1, <1>3 DEF F!fvars

\* getStreamConn implements SingleFlight: one dial for an address at a time, whose
\* result all of the senders that joined it are told.
THEOREM ConnPoolImplementsSingleFlight == Spec => OneDial
<1>1. Init => F!Init
  BY DEF Init, F!Init, Landed, Told
<1>2. IInv /\ [Next]_vars => [F!Next]_(F!fvars)
  <2> SUFFICES ASSUME IInv, [Next]_vars PROVE F!Next \/ UNCHANGED F!fvars
    OBVIOUS
  <2>1. ASSUME NEW s \in Sender, NEW k \in Key, getStreamConn(s, k)
        PROVE  F!Next \/ UNCHANGED F!fvars
    BY <2>1, GetStreamConnFlies DEF F!Next
  <2>2. ASSUME NEW s \in Sender, Send(s) PROVE F!Next \/ UNCHANGED F!fvars
    <3>1. CASE DialDone(s)
      BY <3>1, DialDoneLands DEF F!Next
    <3>2. CASE Signal(s) \/ Woken(s)
      BY <3>2, SignalTells, WokenUses DEF F!Next
    <3>3. CASE Write(s)
      BY <3>3, WriteKeeps
    <3> QED
      BY <2>2, <3>1, <3>2, <3>3 DEF Send
  <2>3. CASE UNCHANGED flight
    BY <2>3, FlightKept
  <2> QED
    BY <2>1, <2>2, <2>3 DEF Next, vars, flight, sendVars, Accept, ReaderStart, ReaderEnd,
       janitor, Close
<1> QED
  BY <1>1, <1>2, Invariance, PTL DEF Spec, OneDial, F!Spec
=============================================================================
