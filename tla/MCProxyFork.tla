---------------------------- MODULE MCProxyFork ----------------------------
(* An INVITE to two targets, enough for a winner and a loser; and a request
   that handleRequest forks twice, to one target. *)
EXTENDS ProxyFork

CONSTANTS t1, t2

One == <<t1>>
Two == <<t1, t2>>

Invite  == [invite : {TRUE}, passes : {1}, hops : BOOLEAN]
Message == [invite : {FALSE}, passes : {2}, hops : BOOLEAN]
Both    == Invite \cup Message

\* A request that is forked twice goes to the first target only, as if the other
\* could not be sent to, and has no provisional answer and no 480 there.
Bounded ==
  req.passes = 2 => \A p \in 1..2 : /\ tx[<<p, t2>>] = "none"
                                    /\ tx[<<p, t1>>] # "proceeding"
                                    /\ event[<<p, t1>>] # 480
=============================================================================
