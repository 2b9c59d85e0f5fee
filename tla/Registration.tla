---------------------------- MODULE Registration ----------------------------
(* A GB28181 platform and its devices (gb28181/device.go, platform.go):     *)
(* registration with a digest, keepalives, catalog queries, the INVITE that *)
(* opens a stream and the BYE that should close it.                         *)
(*                                                                          *)
(* A REGISTER stays in flight, sent again by the transaction layer of the   *)
(* device, until it is answered or Timer F ends it, also when register has  *)
(* given up on it; the platform hands it to onRegister once, but a platform *)
(* that was restarted in between hands it over again.  MESSAGEs are delayed *)
(* and lost.  Nothing compares the values of nonces, so only whether a      *)
(* device has one is kept: a digest is right if the password in it is.      *)
(* LastSeen is left out: only IsOnline reads it.  Faults are timeouts,      *)
(* sends that fail and restarts of the platform.                            *)
EXTENDS Dialog, FiniteSets

CONSTANTS Dev, Channel, Call,
          Owner,         \* Owner[c]: the device that reports channel c
          Passwords,     \* what the platform may have on file for the devices
          Secret,        \* the one the devices use
          OnError,       \* the devices whose OnError callback is set
          PlatformHost,  \* where the platform's requests come from
          DeviceHost,    \* what it has in the request URI of an INVITE
          MaxTx,         \* REGISTERs of a device in flight
          MaxFaults,
          None

ASSUME RegistrationAssumption ==
  /\ IsFiniteSet(Dev)
  /\ Owner \in [Channel -> Dev]
  /\ OnError \subseteq Dev
  /\ MaxTx \in Nat \ {0, 1} /\ MaxFaults \in Nat
  /\ None \notin Dev \cup Call \cup {Secret}
  /\ NoHost \notin {PlatformHost, DeviceHost}

TxId == 1..MaxTx
Register == [dev: Dev, tx: TxId, auth: BOOLEAN]
Answer == [dev: Dev, tx: TxId, code: {"200", "401", "403"}, challenge: BOOLEAN]

\* The n-th tag that is made for call k; NewTag makes no tag twice.
NewTag(k, n) == <<k, n>>
Tag == Call \X (0..2)

DialogEntry == DialogID(Call, Tag) \X DialogType(Call, Tag, {PlatformHost, DeviceHost})

CallType == [id: Dev \cup Channel \cup {None}, dev: Dev \cup {None}, guess: BOOLEAN,
             at: {"none", "sent", "up", "bye", "lost"}, tag: Tag \cup {NoTag}]

VARIABLES
  password,    \* password[d]: of the platform's configuration; never changes
  pc,          \* pc[d]: where run is, "auth" and "challenge" within register
  cur,         \* cur[d]: the transaction register waits for
  nonce,       \* the devices that have kept a nonce
  regOk,       \* the devices whose Registered() is true
  open,        \* the devices whose transport is open
  streams,     \* streams[d]: the calls in the device's table
  dialogs,     \* dialogs[d]: the dialogs of its user agent
  requests,    \* REGISTERs in flight
  answers,     \* responses to them in flight
  seen,        \* the ones this platform has a server transaction for
  devices,     \* the devices the platform has a DeviceStatus for
  lastReg,     \* those whose lastReg is set
  registered,  \* those whose Registered is true
  channelOf,   \* channelOf[c]: the parent device, None if not known
  mail,        \* MESSAGEs on their way to the platform
  queries,     \* devices a query is on its way to
  calls,       \* calls[k]: what was called, which device, how far it got, and
               \* the device's tag in the platform's dialog
  restarted,   \* the platform lost its state at least once
  faults

devVars == <<pc, cur, nonce, regOk, open>>
netVars == <<requests, answers>>
platVars == <<seen, devices, lastReg, registered, channelOf>>
msgVars == <<mail, queries>>
callVars == <<calls, streams, dialogs>>
vars == <<password, devVars, netVars, platVars, msgVars, callVars, restarted, faults>>

NoCall == [id |-> None, dev |-> None, guess |-> FALSE, at |-> "none", tag |-> NoTag]

Init ==
  /\ password \in Passwords
  /\ pc = [d \in Dev |-> "register"]
  /\ cur = [d \in Dev |-> 1]
  /\ nonce = {} /\ regOk = {}
  /\ open = Dev
  /\ streams = [d \in Dev |-> {}]
  /\ dialogs = [d \in Dev |-> {}]
  /\ requests = {} /\ answers = {}
  /\ seen = {} /\ devices = {} /\ lastReg = {} /\ registered = {}
  /\ channelOf = [c \in Channel |-> None]
  /\ mail = {} /\ queries = {}
  /\ calls = [k \in Call |-> NoCall]
  /\ restarted = FALSE
  /\ faults = 0

Fault == faults < MaxFaults /\ faults' = faults + 1

-----------------------------------------------------------------------------
(* The device: run and register.                                            *)

\* The transactions of d in flight, and a number that none of them has.
InUse(d) == {m.tx : m \in {n \in requests : n.dev = d}}
NewTx(d, t) == t \notin InUse(d) /\ 1..(t - 1) \subseteq InUse(d)

Of(set, d) == {m \in set : m.dev = d /\ m.tx = cur[d]}

\* The first REGISTER, or an error from Request.
SendRegister(d) ==
  /\ pc[d] = "register"
  /\ \/ \E t \in TxId :
          /\ NewTx(d, t)
          /\ cur' = [cur EXCEPT ![d] = t]
          /\ requests' = requests \cup {[dev |-> d, tx |-> t, auth |-> FALSE]}
          /\ pc' = [pc EXCEPT ![d] = "challenge"]
          /\ UNCHANGED faults
     \/ /\ Fault
        /\ pc' = [pc EXCEPT ![d] = "backoff"]
        /\ UNCHANGED <<cur, requests>>
  /\ UNCHANGED <<password, nonce, regOk, open, answers, platVars, msgVars, callVars, restarted>>

\* Mutant: a failure is taken for success.
AfterAnswerAny(d, a) ==
  IF pc[d] = "challenge" /\ a.code = "401" /\ a.challenge THEN "auth" ELSE "loop"

\* Mutant: a challenge is not answered.
AfterAnswerGivesUp(d, a) == IF a.code = "200" THEN "loop" ELSE "backoff"

\* What register does next.  A 401 without a challenge is answered with the
\* nonce of an earlier one, if there is one; the second answer must be a 200.
AfterAnswer(d, a) ==
  CASE a.code = "200" -> "loop"
    [] pc[d] = "challenge" /\ a.code = "401" /\ (a.challenge \/ d \in nonce) -> "auth"
    [] OTHER -> "backoff"

\* The nonce of a challenge is kept.
Nonces(d, a) ==
  IF pc[d] = "challenge" /\ a.code = "401" /\ a.challenge THEN nonce \cup {d} ELSE nonce

\* The answer that register waits for; a challenge is answered at once by the
\* second REGISTER, a transaction of its own.
RecvAnswer(d) ==
  /\ pc[d] \in {"challenge", "auth"}
  /\ \E a \in Of(answers, d) :
       LET rest == requests \ Of(requests, d)
           next == AfterAnswer(d, a)
       IN /\ answers' = answers \ Of(answers, d)
          /\ nonce' = Nonces(d, a)
          /\ seen' = seen \ Of(requests, d)
          /\ \/ /\ next = "auth"
                /\ \E t \in TxId :
                     /\ NewTx(d, t)
                     /\ cur' = [cur EXCEPT ![d] = t]
                     /\ requests' = rest \cup {[dev |-> d, tx |-> t, auth |-> TRUE]}
                /\ pc' = [pc EXCEPT ![d] = "auth"]
                /\ UNCHANGED <<regOk, faults>>
             \/ /\ next = "auth"
                /\ Fault
                /\ requests' = rest
                /\ pc' = [pc EXCEPT ![d] = "backoff"]
                /\ UNCHANGED <<cur, regOk>>
             \/ /\ next # "auth"
                /\ requests' = rest
                /\ pc' = [pc EXCEPT ![d] = next]
                /\ regOk' = IF next = "loop" THEN regOk \cup {d} ELSE regOk
                /\ UNCHANGED <<cur, faults>>
  /\ UNCHANGED <<password, open, devices, lastReg, registered, channelOf,
                 msgVars, callVars, restarted>>

\* RegisterTimeout, or the timeout of the transaction.
RegisterTimeout(d) ==
  /\ pc[d] \in {"challenge", "auth"}
  /\ Fault
  /\ pc' = [pc EXCEPT ![d] = "backoff"]
  /\ UNCHANGED <<password, cur, nonce, regOk, open, netVars, platVars, msgVars, callVars,
                 restarted>>

\* Timer F ends a REGISTER that register no longer waits for.
TimerF(m) ==
  /\ m \in requests
  /\ pc[m.dev] \in {"challenge", "auth"} => m.tx # cur[m.dev]
  /\ requests' = requests \ {m}
  /\ answers' = {a \in answers : a.dev # m.dev \/ a.tx # m.tx}
  /\ seen' = seen \ {m}
  /\ UNCHANGED <<password, devVars, devices, lastReg, registered, channelOf,
                 msgVars, callVars, restarted, faults>>

Backoff(d) ==
  /\ pc[d] = "backoff"
  /\ pc' = [pc EXCEPT ![d] = "register"]
  /\ UNCHANGED <<password, cur, nonce, regOk, open, netVars, platVars, msgVars, callVars,
                 restarted, faults>>

\* A tick of the keepalive timer.  Nobody waits for the answer; only an error
\* from the send, and only with OnError set, makes run register again.
Tick(d) ==
  /\ pc[d] = "loop"
  /\ \/ /\ mail' = mail \cup {[dev |-> d, cmd |-> "keepalive"]}
        /\ UNCHANGED <<pc, faults>>
     \/ /\ Fault
        /\ pc' = [pc EXCEPT ![d] = IF d \in OnError THEN "register" ELSE @]
        /\ UNCHANGED mail
  /\ UNCHANGED <<password, cur, nonce, regOk, open, netVars, platVars, queries, callVars,
                 restarted>>

\* The context is done.  Out of the backoff run returns without Close.
Stop(d) ==
  /\ pc[d] \in {"backoff", "loop"}
  /\ pc' = [pc EXCEPT ![d] = "stopped"]
  /\ open' = IF pc[d] = "loop" THEN open \ {d} ELSE open
  /\ UNCHANGED <<password, cur, nonce, regOk, netVars, platVars, msgVars, callVars,
                 restarted, faults>>

-----------------------------------------------------------------------------
(* The platform.                                                            *)

\* Mutant: no entry is made.
KnownNot(d) == devices

\* The entries after device(d): it makes the one that is missing.
Known(d) == devices \cup {d}

\* The digest of the second REGISTER against the password on file.
Verify(d) ==
  CASE password[d] = None -> "403"
    [] password[d] = Secret -> "200"
    [] OTHER -> "401"

\* Mutant: the address is not kept.
ChallengedForgets(d) == lastReg

\* The devices with an address after a challenge: lastReg is set here only.
Challenged(d) == lastReg \cup {d}

onRegister(m) ==
  LET d == m.dev
      code == IF m.auth THEN Verify(d) ELSE "401"
  IN /\ m \in requests \ seen
     /\ seen' = seen \cup {m}
     /\ answers' = answers \cup {[dev |-> d, tx |-> m.tx, code |-> code,
                                  challenge |-> ~m.auth]}
     /\ devices' = IF m.auth /\ code # "200" THEN devices ELSE Known(d)
     /\ lastReg' = IF m.auth THEN lastReg ELSE Challenged(d)
     /\ registered' = IF code = "200" THEN registered \cup {d} ELSE registered
     /\ UNCHANGED <<password, devVars, requests, channelOf, msgVars, callVars,
                    restarted, faults>>

\* Mutant: the channels are booked to another device.
ParentOther(d, c) == IF Owner[c] = d THEN CHOOSE e \in Dev : e # d ELSE channelOf[c]

\* The parent of channel c after a catalog of device d.
Parent(d, c) == IF Owner[c] = d THEN d ELSE channelOf[c]

\* Any MESSAGE makes an entry; a catalog names channels.
onMessage(m) ==
  /\ m \in mail
  /\ mail' = mail \ {m}
  /\ devices' = Known(m.dev)
  /\ channelOf' = IF m.cmd = "catalog" THEN [c \in Channel |-> Parent(m.dev, c)]
                  ELSE channelOf
  /\ UNCHANGED <<password, devVars, netVars, seen, lastReg, registered, queries,
                 callVars, restarted, faults>>

\* The platform is started anew: its tables and its dialogs are gone.
Restart ==
  /\ Fault
  /\ seen' = {} /\ devices' = {} /\ lastReg' = {} /\ registered' = {}
  /\ channelOf' = [c \in Channel |-> None]
  /\ calls' = [k \in Call |-> IF calls[k].at = "up" THEN [calls[k] EXCEPT !.at = "lost"]
                              ELSE calls[k]]
  /\ restarted' = TRUE
  /\ UNCHANGED <<password, devVars, netVars, msgVars, streams, dialogs>>

\* The device a SIP ID stands for, by the three rules of resolveDevice.
resolveDevice(id) ==
  CASE id \in registered -> id
    [] id \in Channel /\ channelOf[id] \in registered -> channelOf[id]
    [] Cardinality(registered) = 1 -> CHOOSE d \in registered : TRUE
    [] OTHER -> None

Guessed(id) ==
  /\ id \notin registered
  /\ ~(id \in Channel /\ channelOf[id] \in registered)

\* Where a request for id is sent: lastReg's Via of the device, if there is one.
deviceAddr(id) ==
  LET d == IF resolveDevice(id) = None THEN id ELSE resolveDevice(id)
  IN IF d \in lastReg THEN d ELSE None

\* sendMessage of a catalog query.
QueryCatalog(id) ==
  /\ deviceAddr(id) # None
  /\ queries' = queries \cup {deviceAddr(id)}
  /\ UNCHANGED <<password, devVars, netVars, platVars, mail, callVars, restarted,
                 faults>>

\* Device.onMessage answers with a MESSAGE of its own.
AnswerQuery(d) ==
  /\ d \in queries \cap open
  /\ queries' = queries \ {d}
  /\ mail' = mail \cup {[dev |-> d, cmd |-> "catalog"]}
  /\ UNCHANGED <<password, devVars, netVars, platVars, callVars, restarted, faults>>

-----------------------------------------------------------------------------
(* Streams.                                                                 *)

\* InviteLive and InvitePlayback.
invite(k, id) ==
  /\ calls[k].at = "none"
  /\ deviceAddr(id) # None
  /\ calls' = [calls EXCEPT ![k] =
                 [id |-> id, dev |-> deviceAddr(id), guess |-> Guessed(id),
                  at |-> "sent", tag |-> NoTag]]
  /\ UNCHANGED <<password, devVars, netVars, platVars, msgVars, streams, dialogs,
                 restarted, faults>>

\* The dialog that handleInvite of the device makes.
StreamDialog(k) ==
  NewServerDialog([callID |-> k, fromTag |-> NewTag(k, 0), from |-> PlatformHost,
                   uri |-> DeviceHost, seq |-> 1], NewTag(k, 1))

\* The tag in the 200, which onInvite makes itself.
AnswerTag(k) == NewTag(k, 2)

\* handleInvite adds the dialog; onInvite answers 200, which brings its tag to
\* the platform, and keeps the stream; if the send fails it does not.
onInvite(k) ==
  LET d == calls[k].dev
  IN /\ calls[k].at = "sent"
     /\ d \in open
     /\ dialogs' = [dialogs EXCEPT ![d] = Add(@, StreamDialog(k), StreamDialog(k))]
     /\ \/ /\ streams' = [streams EXCEPT ![d] = @ \cup {k}]
           /\ calls' = [calls EXCEPT ![k].at = "up", ![k].tag = AnswerTag(k)]
           /\ UNCHANGED faults
        \/ /\ Fault
           /\ calls' = [calls EXCEPT ![k].at = "lost"]
           /\ UNCHANGED streams
     /\ UNCHANGED <<password, devVars, netVars, platVars, msgVars, restarted>>

\* The dialogs that handleBye of device d accepts a BYE for call k in: the tags
\* are the ones that the platform has.
ByeAccepted(d, k) ==
  {dlg \in Get(dialogs[d], k, calls[k].tag, NewTag(k, 0)) :
     dialogSourceAllowed(dlg, PlatformHost)}

\* The platform hangs up.  handleBye removes the dialog, and OnBye of the device
\* the stream, if the BYE is accepted.
Hangup(k) ==
  LET d == calls[k].dev
      found == IF d \in open THEN ByeAccepted(d, k) ELSE {}
  IN /\ calls[k].at = "up"
     /\ calls' = [calls EXCEPT ![k].at = "bye"]
     /\ IF found = {} THEN UNCHANGED <<dialogs, streams>>
        ELSE /\ \E dlg \in found : dialogs' = [dialogs EXCEPT ![d] = Remove(@, dlg)]
             /\ streams' = [streams EXCEPT ![d] = @ \ {k}]
     /\ UNCHANGED <<password, devVars, netVars, platVars, msgVars, restarted, faults>>

-----------------------------------------------------------------------------

Device(d) == SendRegister(d) \/ RecvAnswer(d) \/ Backoff(d)

Next ==
  \/ \E d \in Dev : Device(d) \/ RegisterTimeout(d) \/ Tick(d) \/ Stop(d)
                    \/ AnswerQuery(d)
  \/ \E m \in requests : TimerF(m) \/ onRegister(m)
  \/ \E m \in mail : onMessage(m)
  \/ Restart
  \/ \E id \in Dev \cup Channel :
       QueryCatalog(id) \/ \E k \in Call : invite(k, id)
  \/ \E k \in Call : onInvite(k) \/ Hangup(k)

Spec == Init /\ [][Next]_vars

\* The goroutine of a device runs, Timer F fires, and a REGISTER that is sent
\* again and again arrives.
FairSpec ==
  /\ Spec
  /\ \A d \in Dev :
       /\ WF_vars(Device(d))
       /\ WF_vars(\E m \in requests : m.dev = d /\ TimerF(m))
       /\ WF_vars(\E m \in Of(requests, d) : onRegister(m))

-----------------------------------------------------------------------------

\* Every variable has its type.
TypeOK ==
  /\ password \in Passwords
  /\ pc \in [Dev -> {"register", "challenge", "auth", "backoff", "loop", "stopped"}]
  /\ cur \in [Dev -> TxId]
  /\ nonce \subseteq Dev /\ regOk \subseteq Dev /\ open \subseteq Dev
  /\ streams \in [Dev -> SUBSET Call]
  /\ dialogs \in [Dev -> SUBSET DialogEntry]
  /\ requests \subseteq Register /\ seen \subseteq requests
  /\ answers \subseteq Answer
  /\ registered \subseteq devices /\ lastReg \subseteq devices
  /\ devices \subseteq Dev
  /\ channelOf \in [Channel -> Dev \cup {None}]
  /\ mail \subseteq [dev: Dev, cmd: {"keepalive", "catalog"}]
  /\ queries \subseteq Dev
  /\ calls \in [Call -> CallType]
  /\ restarted \in BOOLEAN
  /\ faults \in 0..MaxFaults

\* A device that reports itself registered is registered on the platform, and
\* both only with the right password; a platform that was restarted since may
\* have forgotten it, which the device does not notice.
RegistrationAgrees ==
  \A d \in Dev :
    /\ d \in regOk \/ d \in registered => password[d] = Secret
    /\ d \in regOk => d \in registered \/ restarted

\* The platform can reach a device it lists as registered: lastReg is set by
\* the challenge and so before.  After a restart the second REGISTER of a pair
\* may come without the first.
RegisteredHasAddress == registered \subseteq lastReg \/ restarted

\* A stream for a channel is opened at the device that reported the channel,
\* unless resolveDevice had nothing but the only registered device to offer.  An
\* ID that is a device's too is resolved to that device.
StreamAtOwner ==
  \A d \in Dev, k \in Call :
    /\ k \in streams[d]
    /\ calls[k].id \in Channel \ Dev
    /\ d # Owner[calls[k].id]
    => calls[k].guess

\* Once the platform has hung up a device that runs has no stream of the call
\* any more.  The code's OnBye callback is there for it, but is not reached: the
\* BYE has the tag of the 200, which is not the one of the device's dialog.
HangupEndsStream ==
  \A k \in Call :
    calls[k].at = "bye" /\ calls[k].dev \in open => k \notin streams[calls[k].dev]

\* A device with the right password gets through, however many timeouts, failed
\* sends and restarts there were, unless it is stopped.
Registers ==
  \A d \in Dev :
    password[d] = Secret /\ pc[d] = "register" ~> pc[d] \in {"loop", "stopped"}
=============================================================================
