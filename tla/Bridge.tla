------------------------------- MODULE Bridge -------------------------------
(***************************************************************************)
(* What the back-to-back user agent does for its callers and callees: one  *)
(* answer to each INVITE; media only after a 200; and, for one call at a   *)
(* time, the caller's BYE, the end of the media, and a few BYEs at most to *)
(* the callee.                                                             *)
(*                                                                         *)
(* The calls have one relay.  Whenever a call is taken down the media of   *)
(* all of them stop.  A call may be over before its media start: nothing   *)
(* takes it down then, and the media go on until another call ends.        *)
(***************************************************************************)
EXTENDS Naturals

CONSTANTS Inv, Refusal, Attempts, None

VARIABLES
  answer,  \* answer[i]: the final response the caller was given
  media,   \* the INVITEs whose media the relay carries
  over,    \* the INVITEs whose call the caller has ended
  busy,    \* the one that is being taken down, or None
  byes     \* byes[i]: how often the callee was sent BYE

bvars == <<answer, media, over, busy, byes>>

Init ==
  /\ answer = [i \in Inv |-> "none"]
  /\ media = {}
  /\ over = {}
  /\ busy = None
  /\ byes = [i \in Inv |-> 0]

Answer(i, code) ==
  /\ answer[i] = "none"
  /\ answer' = [answer EXCEPT ![i] = code]
  /\ UNCHANGED <<media, over, busy, byes>>

StartMedia(i) ==
  /\ answer[i] = "200"
  /\ byes[i] = 0
  /\ media' = media \cup {i}
  /\ UNCHANGED <<answer, over, busy, byes>>

EndCall(i) ==
  /\ answer[i] = "200"
  /\ i \notin over
  /\ busy = None
  /\ over' = over \cup {i}
  /\ busy' = i
  /\ UNCHANGED <<answer, media, byes>>

StopMedia ==
  /\ busy # None
  /\ media' = {}
  /\ busy' \in {busy, None}
  /\ UNCHANGED <<answer, over, byes>>

SendBye(i) ==
  /\ busy = i
  /\ i \notin media
  /\ byes[i] < Attempts
  /\ byes' = [byes EXCEPT ![i] = @ + 1]
  /\ busy' \in {i, None}
  /\ UNCHANGED <<answer, media, over>>

Release ==
  /\ busy # None
  /\ busy' = None
  /\ UNCHANGED <<answer, media, over, byes>>

Next ==
  \/ \E i \in Inv :
       \/ \E code \in Refusal \cup {"200"} : Answer(i, code)
       \/ StartMedia(i)
       \/ EndCall(i)
       \/ SendBye(i)
  \/ StopMedia
  \/ Release

Spec == Init /\ [][Next]_bvars
=============================================================================
