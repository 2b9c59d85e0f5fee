--------------------------- MODULE MCRegistration ---------------------------
(* Two devices, one of which reports the channel.                           *)
EXTENDS Registration

CONSTANTS d1, d2, c1, k1, Right, Wrong,
          MaxMessages,   \* MESSAGEs in flight
          MaxEvents      \* faults, calls and stops, taken together

\* Every pair of a fault, a call and a stop; not all the triples.
Bounded ==
  /\ Cardinality(mail) + Cardinality(queries) <= MaxMessages
  /\ faults + Cardinality({k \in Call : calls[k].at # "none"})
            + Cardinality({d \in Dev : pc[d] = "stopped"}) <= MaxEvents

MCPasswords == {[d \in Dev |-> IF d = d1 THEN Right ELSE p] : p \in {Right, Wrong, None}}

MCOwner == [c \in {c1} |-> d1]
=============================================================================
