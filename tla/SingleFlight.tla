---------------------------- MODULE SingleFlight ----------------------------
(***************************************************************************)
(* What the senders to one address promise each other: one of them dials   *)
(* at a time, the others wait for that dial, and all of those that waited  *)
(* are told its one result, at the same time and once.                     *)
(***************************************************************************)
CONSTANTS Sender, Key, Result, None

VARIABLES
  leader,  \* leader[k]: who dials for k, or None
  joined,  \* joined[s]: whose dial s waits for, or None
  result,  \* result[s]: <<r>> when its dial has ended and the others do not know
  told     \* told[s]: <<r>> when it was told a result it has not used

fvars == <<leader, joined, result, told>>

Init ==
  /\ leader = [k \in Key |-> None]
  /\ joined = [s \in Sender |-> None]
  /\ result = [s \in Sender |-> <<>>]
  /\ told = [s \in Sender |-> <<>>]

Free(s) ==
  /\ \A k \in Key : leader[k] # s
  /\ joined[s] = None
  /\ result[s] = <<>>
  /\ told[s] = <<>>

Take(s, k) ==
  /\ Free(s)
  /\ leader[k] = None
  /\ leader' = [leader EXCEPT ![k] = s]
  /\ UNCHANGED <<joined, result, told>>

Join(s, k) ==
  /\ Free(s)
  /\ leader[k] # None
  /\ joined' = [joined EXCEPT ![s] = leader[k]]
  /\ UNCHANGED <<leader, result, told>>

Land(k, r) ==
  /\ leader[k] # None
  /\ leader' = [leader EXCEPT ![k] = None]
  /\ result' = [result EXCEPT ![leader[k]] = <<r>>]
  /\ UNCHANGED <<joined, told>>

Tell(s) ==
  /\ result[s] # <<>>
  /\ joined' = [w \in Sender |-> IF joined[w] = s THEN None ELSE joined[w]]
  /\ told' = [w \in Sender |-> IF joined[w] = s THEN result[s] ELSE told[w]]
  /\ result' = [result EXCEPT ![s] = <<>>]
  /\ UNCHANGED leader

Use(s) ==
  /\ told[s] # <<>>
  /\ told' = [told EXCEPT ![s] = <<>>]
  /\ UNCHANGED <<leader, joined, result>>

Next ==
  \/ \E s \in Sender, k \in Key : Take(s, k) \/ Join(s, k)
  \/ \E k \in Key, r \in Result : Land(k, r)
  \/ \E s \in Sender : Tell(s) \/ Use(s)

Spec == Init /\ [][Next]_fvars
=============================================================================
