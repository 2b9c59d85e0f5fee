------------------------------ MODULE ConnPool ------------------------------
(* The stream connections of the transport (transport.go): senders that     *)
(* share a dial, a reader per connection, the accept loop, the janitor and  *)
(* Close.  Send keys a connection by the address it was given, which may be *)
(* a host name; the reader keys it by the IP address it is connected to.    *)
(* Each step is a critical section of mu, or what a goroutine does between  *)
(* two of them; a connection is used once and the peer may end it any time. *)
EXTENDS Naturals, FiniteSets

CONSTANTS Sender,
          Peer,          \* addresses with an IP, of the peers that are dialled
          Name,          \* addresses with a host name
          Ip,            \* Ip[n]: the address of the peer that n resolves to
          Conn,          \* connections, in the order of their making
          MaxTCPConns,
          None

ASSUME ConnPoolAssumption ==
  /\ Ip \in [Name -> Peer]
  /\ Peer \cap Name = {} /\ Peer \cap Conn = {} /\ Name \cap Conn = {}
  /\ None \notin Peer \cup Name \cup Conn \cup Sender
  /\ MaxTCPConns \in Nat

\* A connection that was accepted has a remote address of its own: itself.
Key == Peer \cup Name \cup Conn

VARIABLES
  tcpConns,    \* tcpConns[k]: the connection stored under k, or None
  lastUse,     \* the keys of connLastUse
  inflight,    \* inflight[k]: the sender that dials for k, or None
  pc,          \* pc[s]: where a Send is
  key,         \* key[s]: the address it was given, None when there is no Send
  conn,        \* conn[s]: the connection it got; None is an error
  call,        \* call[s]: the sender whose dial it waits for, or None
  remote,      \* remote[c]: connKey of the connection, None before it is made
  open,        \* the connections that were made and not closed here
  reader,      \* reader[c]: where its readTCP is
  closed       \* Close was called

vars == <<tcpConns, lastUse, inflight, pc, key, conn, call,
          remote, open, reader, closed>>

sendVars == <<inflight, pc, key, conn, call>>
connVars == <<remote, open, reader>>

Init ==
  /\ tcpConns = [k \in Key |-> None]
  /\ lastUse = {}
  /\ inflight = [k \in Key |-> None]
  /\ pc = [s \in Sender |-> "idle"]
  /\ key = [s \in Sender |-> None]
  /\ conn = [s \in Sender |-> None]
  /\ call = [s \in Sender |-> None]
  /\ remote = [c \in Conn |-> None]
  /\ open = {}
  /\ reader = [c \in Conn |-> "none"]
  /\ closed = FALSE

Len(conns) == Cardinality({k \in Key : conns[k] # None})

Fresh(c) == remote[c] = None

-----------------------------------------------------------------------------
(* Send and getStreamConn.                                                  *)

\* Mutant: a dial for the key is not looked for.
SharesNever(k) == FALSE

\* Another sender dials for the key already.
Shares(k) == inflight[k] # None

\* The first critical section: a connection, a dial to wait for, an error, or
\* a dial of one's own.  The address of a peer that has connected to us is one
\* to answer to.
getStreamConn(s, k) ==
  /\ pc[s] = "idle"
  /\ k \in Conn => remote[k] = k
  /\ \/ /\ tcpConns[k] # None
        /\ key' = [key EXCEPT ![s] = k]
        /\ conn' = [conn EXCEPT ![s] = tcpConns[k]]
        /\ pc' = [pc EXCEPT ![s] = "write"]
        /\ UNCHANGED <<inflight, call>>
     \/ /\ tcpConns[k] = None /\ Shares(k)
        /\ key' = [key EXCEPT ![s] = k]
        /\ call' = [call EXCEPT ![s] = inflight[k]]
        /\ pc' = [pc EXCEPT ![s] = "wait"]
        /\ UNCHANGED <<inflight, conn>>
     \/ /\ tcpConns[k] = None /\ ~Shares(k)
        /\ Len(tcpConns) < MaxTCPConns
        /\ key' = [key EXCEPT ![s] = k]
        /\ inflight' = [inflight EXCEPT ![k] = s]
        /\ pc' = [pc EXCEPT ![s] = "dial"]
        /\ UNCHANGED <<conn, call>>
     \/ /\ tcpConns[k] = None /\ ~Shares(k)
        /\ Len(tcpConns) >= MaxTCPConns    \* an error
        /\ UNCHANGED sendVars
  /\ UNCHANGED <<tcpConns, lastUse, connVars, closed>>

\* dial, and the second critical section.  Whether the transport was closed in
\* the meantime is not looked at; nobody listens at the address of a peer that
\* has connected to us.
DialDone(s) ==
  LET k == key[s]
  IN /\ pc[s] = "dial"
     /\ inflight' = [inflight EXCEPT ![k] = None]
     /\ pc' = [pc EXCEPT ![s] = "signal"]
     /\ \/ /\ k \notin Conn
           /\ \E c \in Conn :
                /\ Fresh(c)
                /\ remote' = [remote EXCEPT ![c] = IF k \in Name THEN Ip[k] ELSE k]
                /\ open' = open \cup {c}
                /\ tcpConns' = [tcpConns EXCEPT ![k] = c]
                /\ conn' = [conn EXCEPT ![s] = c]
           /\ lastUse' = lastUse \cup {k}
        \/ /\ conn' = [conn EXCEPT ![s] = None]
           /\ UNCHANGED <<tcpConns, lastUse, remote, open>>
     /\ UNCHANGED <<key, call, reader, closed>>

\* Mutant: the senders that wait are not woken.
WaitersNone(s) == {}

\* The senders that wait for the dial of s.
Waiters(s) == {w \in Sender : pc[w] = "wait" /\ call[w] = s}

\* Mutant: no reader for a connection that was dialled.
StartNothing(c) == reader

\* go readTCP.
Start(c) == [reader EXCEPT ![c] = "start"]

\* wg.Done wakes the senders that wait; the result is the same for all.
Signal(s) ==
  /\ pc[s] = "signal"
  /\ conn' = [w \in Sender |-> IF w \in Waiters(s) THEN conn[s] ELSE conn[w]]
  /\ call' = [w \in Sender |-> IF w \in Waiters(s) THEN None ELSE call[w]]
  /\ pc' = [w \in Sender |->
              CASE w = s -> IF conn[s] = None THEN "idle" ELSE "write"
                [] w \in Waiters(s) -> "woken"
                [] OTHER -> pc[w]]
  /\ key' = IF conn[s] = None THEN [key EXCEPT ![s] = None] ELSE key
  /\ reader' = IF conn[s] = None THEN reader ELSE Start(conn[s])
  /\ UNCHANGED <<tcpConns, lastUse, inflight, remote, open, closed>>

\* A sender that has waited prefers what is in the table to what was dialled.
Woken(s) ==
  /\ pc[s] = "woken"
  /\ LET c == IF tcpConns[key[s]] # None THEN tcpConns[key[s]] ELSE conn[s]
     IN /\ conn' = [conn EXCEPT ![s] = c]
        /\ key' = IF c = None THEN [key EXCEPT ![s] = None] ELSE key
        /\ pc' = [pc EXCEPT ![s] = IF c = None THEN "idle" ELSE "write"]
  /\ UNCHANGED <<tcpConns, lastUse, inflight, call, connVars, closed>>

\* touchConn with the reader's key, then Write, which fails on a closed one.
Write(s) ==
  /\ pc[s] = "write"
  /\ lastUse' = lastUse \cup {remote[conn[s]]}
  /\ pc' = [pc EXCEPT ![s] = "idle"]
  /\ key' = [key EXCEPT ![s] = None]
  /\ conn' = [conn EXCEPT ![s] = None]
  /\ UNCHANGED <<tcpConns, inflight, call, connVars, closed>>

-----------------------------------------------------------------------------
(* Connections.                                                             *)

\* acceptStream: the limit is compared with what the readers have stored.
Accept(c) ==
  /\ ~closed
  /\ Fresh(c)
  /\ Len(tcpConns) <= MaxTCPConns
  /\ remote' = [remote EXCEPT ![c] = c]
  /\ open' = open \cup {c}
  /\ reader' = Start(c)
  /\ UNCHANGED <<tcpConns, lastUse, sendVars, closed>>

\* readTCP stores the connection, in the place of any other.
ReaderStart(c) ==
  /\ reader[c] = "start"
  /\ tcpConns' = [tcpConns EXCEPT ![remote[c]] = c]
  /\ lastUse' = lastUse \cup {remote[c]}
  /\ reader' = [reader EXCEPT ![c] = "read"]
  /\ UNCHANGED <<sendVars, remote, open, closed>>

\* Mutant: nothing is dropped.
DroppedNothing(k) == tcpConns

\* The table without the entry under k.
Dropped(k) == [tcpConns EXCEPT ![k] = None]

\* The read fails, because of the peer, of what was read or of a close here:
\* dropConn closes the connection stored under the key, whichever it is.
ReaderEnd(c) ==
  /\ reader[c] = "read"
  /\ tcpConns' = Dropped(remote[c])
  /\ lastUse' = IF tcpConns[remote[c]] = None THEN lastUse ELSE lastUse \ {remote[c]}
  /\ open' = open \ {c, tcpConns[remote[c]]}
  /\ reader' = [reader EXCEPT ![c] = "ended"]
  /\ UNCHANGED <<sendVars, remote, closed>>

\* The janitor finds the key idle.
janitor(k) ==
  /\ ~closed
  /\ k \in lastUse
  /\ open' = open \ {tcpConns[k]}
  /\ tcpConns' = Dropped(k)
  /\ lastUse' = lastUse \ {k}
  /\ UNCHANGED <<sendVars, remote, reader, closed>>

Close ==
  /\ ~closed
  /\ closed' = TRUE
  /\ open' = open \ {tcpConns[k] : k \in Key}
  /\ tcpConns' = [k \in Key |-> None]
  /\ UNCHANGED <<lastUse, sendVars, remote, reader>>

-----------------------------------------------------------------------------

Send(s) == DialDone(s) \/ Signal(s) \/ Woken(s) \/ Write(s)

Next ==
  \/ \E s \in Sender, k \in Key : getStreamConn(s, k)
  \/ \E s \in Sender : Send(s)
  \/ \E c \in Conn : Accept(c) \/ ReaderStart(c) \/ ReaderEnd(c)
  \/ \E k \in Key : janitor(k)
  \/ Close

Spec == Init /\ [][Next]_vars

\* A dial has a timeout and a write a deadline.
FairSpec ==
  /\ Spec
  /\ \A s \in Sender : WF_vars(Send(s))

-----------------------------------------------------------------------------

\* Every variable has its type.
TypeOK ==
  /\ tcpConns \in [Key -> Conn \cup {None}]
  /\ lastUse \subseteq Key
  /\ inflight \in [Key -> Sender \cup {None}]
  /\ pc \in [Sender -> {"idle", "wait", "dial", "signal", "woken", "write"}]
  /\ key \in [Sender -> Key \cup {None}]
  /\ conn \in [Sender -> Conn \cup {None}]
  /\ call \in [Sender -> Sender \cup {None}]
  /\ remote \in [Conn -> Key \cup {None}]
  /\ open \subseteq Conn
  /\ reader \in [Conn -> {"none", "start", "read", "ended"}]
  /\ closed \in BOOLEAN

Dialling(s) == pc[s] \in {"dial", "signal"}

\* At most one sender dials for a key, the one in inflight, and a sender that
\* waits has another one that will wake it.
SharedDial ==
  /\ \A s \in Sender : pc[s] = "dial" => inflight[key[s]] = s
  /\ \A w \in Sender :
       pc[w] = "wait" =>
         call[w] \in Sender /\ Dialling(call[w]) /\ key[call[w]] = key[w]

\* A dial that has ended and of which the senders that wait do not know yet, and
\* a sender that was woken and has not looked at the table.
Landed == [s \in Sender |-> IF pc[s] = "signal" THEN <<conn[s]>> ELSE <<>>]
Told == [s \in Sender |-> IF pc[s] = "woken" THEN <<conn[s]>> ELSE <<>>]

F == INSTANCE SingleFlight WITH
       Result <- Conn \cup {None}, leader <- inflight, joined <- call,
       result <- Landed, told <- Told

\* getStreamConn implements it: no second dial for a key is begun while one is
\* under way, and a sender that waits is told the result of the dial it joined,
\* whatever the readers, the janitor and Close do to the table meanwhile.
OneDial == F!Spec

\* A connection that is open has a reader, or a sender that is about to start
\* one: none is forgotten, however it left the table.
NoLeak ==
  \A c \in open :
    \/ reader[c] \in {"start", "read"}
    \/ \E s \in Sender : pc[s] = "signal" /\ conn[s] = c

\* A connection whose reader has ended is not in the table under the address
\* that the reader knows.  Under a host name it may be.
StaleUnderName ==
  \A k \in Key :
    tcpConns[k] # None /\ reader[tcpConns[k]] = "ended" => k \in Name

\* Every Send returns.
SendReturns == \A s \in Sender : pc[s] # "idle" ~> pc[s] = "idle"
=============================================================================
