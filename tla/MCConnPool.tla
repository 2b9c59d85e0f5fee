----------------------------- MODULE MCConnPool -----------------------------
(* One peer with an address and a name, connections made in order.          *)
EXTENDS ConnPool

CONSTANTS p1, n1, c1, c2

MCIp == [n \in {n1} |-> p1]

InOrder == remote[c2] # None => remote[c1] # None
=============================================================================
