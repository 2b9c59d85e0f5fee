------------------------------ MODULE MCB2BUA -------------------------------
(* Two INVITEs, with one Call-ID or with two.                               *)
EXTENDS B2BUA

CONSTANTS i1, i2, c1, c2,
          MaxRequests    \* requests within dialogs, over all the legs

MCMaxSeq == [u \in {"in", "out"} |-> IF u = "in" THEN 3 ELSE 2]

\* The tag and the contact come together.
Plain(d) == d = None \/ (d.remoteTag = NoTag <=> d.target = NoHost)

\* i1 arrives first and its Call-ID is c1: any other state is one of these with
\* the names exchanged.  The callee of i2 answers by the book.
Bounded ==
  /\ callID[i1] # c2
  /\ callID[i2] # None => callID[i1] # None
  /\ Plain(dlg["out"][i2])
  /\ dlg["out"][i1] # None /\ dlg["out"][i1].state = "early" => Plain(dlg["out"][i1])
  /\ final[i2] # "2xx"
  /\ Cardinality({<<u, i, s>> \in Side \X Inv \X (2..3) :
       s \in Seqs(u) /\ reply[u][i][s] # "none"}) <= MaxRequests
=============================================================================
