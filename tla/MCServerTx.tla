----------------------------- MODULE MCServerTx -----------------------------
(* An instance of ServerTx with one branch.  No symmetry, because of the    *)
(* liveness property; the constraint keeps one of several like behaviours.  *)
EXTENDS ServerTx

CONSTANTS b1, o1, o2, p1, p2, r1, r2, c1, c2

Code(r) == IF resp[r] = Idle THEN None ELSE resp[r].code

\* The first object is o1 and its source p1; only a CANCEL comes from p2.  r1
\* responds with c1, to either object, and r2 with c2, to the first.
Bounded ==
  /\ key[o1] = None => key[o2] = None
  /\ src[o1] # p2
  /\ src[o2] = p2 => key[o2][2] = "CANCEL"
  /\ Code(r1) # c2
  /\ Code(r2) \in {None, c2}
  /\ Code(r2) = c2 => resp[r2].tx = o1
=============================================================================
