------------------------------- MODULE Dialog -------------------------------
(* Dialogs and the dialog table of a user agent (dialog.go, ua.go).  A      *)
(* dialog is a record; the table is a set of <<ID, name>> pairs, because a  *)
(* dialog is stored under the ID it had when it was added and its ID may    *)
(* change afterwards.  Of addresses only the host is kept, NoHost for a     *)
(* target that is not set.  Route sets are left out: a request goes to the  *)
(* remote target whatever its routes are.                                   *)
EXTENDS Naturals

CONSTANTS NoTag, NoHost

DialogState == {"early", "confirmed", "terminated"}

DialogID(CallID, Tag) == CallID \X Tag \X (Tag \cup {NoTag})

DialogType(CallID, Tag, Host) ==
  [callID: CallID, localTag: Tag, remoteTag: Tag \cup {NoTag},
   remote: Host, target: Host \cup {NoHost}, state: DialogState,
   localSeq: Nat, remoteSeq: Nat]

ID(d) == <<d.callID, d.localTag, d.remoteTag>>

\* The caller's side of an INVITE to host to, whose own tag is localTag.
NewClientDialog(callID, localTag, to) ==
  [callID |-> callID, localTag |-> localTag, remoteTag |-> NoTag,
   remote |-> to, target |-> NoHost, state |-> "early",
   localSeq |-> 1, remoteSeq |-> 0]

\* The called side: the remote target is taken from the request URI.
NewServerDialog(req, localTag) ==
  [callID |-> req.callID, localTag |-> localTag, remoteTag |-> req.fromTag,
   remote |-> req.from, target |-> req.uri, state |-> "early",
   localSeq |-> 0, remoteSeq |-> req.seq]

SetState(d, s) == [d EXCEPT !.state = s]

Terminate(d) == SetState(d, "terminated")

\* A response brings the peer's tag and contact, if it has them.
updateFromResponse(d, resp) ==
  [d EXCEPT !.remoteTag = IF resp.tag = NoTag THEN @ ELSE resp.tag,
            !.target = IF resp.contact = NoHost THEN @ ELSE resp.contact]

\* What pump makes of a 2xx: the peer's address stands in for a contact.
Confirm(d) ==
  [SetState(d, "confirmed") EXCEPT !.target = IF @ = NoHost THEN d.remote ELSE @]

updateFromRequest(d, seq) ==
  [d EXCEPT !.remoteSeq = IF seq > @ THEN seq ELSE @]

\* CreateRequest refuses a terminated dialog and numbers the request.
CanCreateRequest(d) == d.state # "terminated"

CreateRequest(d) == [d EXCEPT !.localSeq = @ + 1]

dialogSourceAllowed(d, src) ==
  src = IF d.target # NoHost THEN d.target ELSE d.remote

Add(table, d, name) == {e \in table : e[1] # ID(d)} \cup {<<ID(d), name>>}

\* Mutant: the entry stays.
RemoveNothing(table, d) == table

Remove(table, d) == {e \in table : e[1] # ID(d)}

\* The dialogs Get finds for an incoming request: none or one.
Get(table, callID, localTag, remoteTag) ==
  {e[2] : e \in {x \in table : x[1] = <<callID, localTag, remoteTag>>}}
=============================================================================
