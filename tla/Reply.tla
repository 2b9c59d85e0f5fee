------------------------------- MODULE Reply --------------------------------
(***************************************************************************)
(* What a server transaction promises the other side: it settles on one    *)
(* final response, at most once, and every final response it ever sends is *)
(* that one.                                                               *)
(***************************************************************************)
CONSTANTS Obj, Final, None

VARIABLES
  chosen,  \* the final response a transaction has settled on
  sent     \* the final responses it has put on the wire

Init ==
  /\ chosen = [o \in Obj |-> None]
  /\ sent = [o \in Obj |-> {}]

Choose(o, c) ==
  /\ chosen[o] = None
  /\ chosen' = [chosen EXCEPT ![o] = c]
  /\ UNCHANGED sent

Emit(o) ==
  /\ chosen[o] # None
  /\ sent' = [sent EXCEPT ![o] = @ \cup {chosen[o]}]
  /\ UNCHANGED chosen

Next == \E o \in Obj : (\E c \in Final : Choose(o, c)) \/ Emit(o)

Spec == Init /\ [][Next]_<<chosen, sent>>
=============================================================================
