----------------------------- MODULE MCClientTx -----------------------------
(* Instances of ClientTx: t1 is an INVITE transaction, t2 is not.           *)
EXTENDS ClientTx

CONSTANTS t1, t2

\* Transactions share nothing but the Run goroutine and the process; one of
\* either kind at a time is looked at.
OneStarted == \E t \in Tx : \A u \in Tx \ {t} : caller[u] = "idle"
=============================================================================
