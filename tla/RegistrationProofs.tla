------------------------- MODULE RegistrationProofs -------------------------
(* Proofs that TypeOK, RegistrationAgrees, RegisteredHasAddress and         *)
(* StreamAtOwner are invariants of Registration, for any devices, channels, *)
(* passwords, calls and number of faults.                                   *)
EXTENDS Registration, TLAPS

\* What an answer or a request in flight, or a nonce, says about the platform.
InFlight ==
  /\ \A a \in answers :
       /\ a.code = "200" => password[a.dev] = Secret /\ (a.dev \in registered \/ restarted)
       /\ a.challenge => a.dev \in lastReg \/ restarted
  /\ \A d \in nonce : d \in lastReg \/ restarted
  /\ \A m \in requests : m.dev \in Dev /\ (m.auth => m.dev \in lastReg \/ restarted)

\* The inductive invariant.
IInv ==
  /\ restarted \in BOOLEAN
  /\ InFlight
  /\ RegistrationAgrees
  /\ RegisteredHasAddress

\* The variables that the invariant speaks of.
core == <<password, nonce, regOk, requests, answers, lastReg, registered, restarted>>

\* Initially nothing is in flight and nobody is registered.
LEMMA InitInv == Init => IInv
  BY ZenonT(30) DEF Init, IInv, InFlight, RegistrationAgrees, RegisteredHasAddress

\* A step that leaves these variables alone keeps the invariant.
LEMMA Kept == IInv /\ UNCHANGED core => IInv'
  BY DEF core, IInv, InFlight, RegistrationAgrees, RegisteredHasAddress

\* The first REGISTER carries no digest.
LEMMA SendRegisterInv == ASSUME IInv, NEW d \in Dev, SendRegister(d) PROVE IInv'
  BY DEF SendRegister, IInv, InFlight, RegistrationAgrees, RegisteredHasAddress, platVars

\* register ends well only with a 200, and answers only a challenge.
LEMMA RecvAnswerInv == ASSUME IInv, NEW d \in Dev, RecvAnswer(d) PROVE IInv'
<1>1. PICK a \in Of(answers, d) :
        LET rest == requests \ Of(requests, d)
            next == AfterAnswer(d, a)
        IN /\ answers' = answers \ Of(answers, d)
           /\ nonce' = Nonces(d, a)
           /\ \/ /\ next = "auth"
                 /\ \E t \in TxId :
                      requests' = rest \cup {[dev |-> d, tx |-> t, auth |-> TRUE]}
                 /\ UNCHANGED regOk
              \/ requests' = rest /\ UNCHANGED regOk
              \/ /\ next # "auth"
                 /\ requests' = rest
                 /\ regOk' = IF next = "loop" THEN regOk \cup {d} ELSE regOk
  BY DEF RecvAnswer
<1>2. UNCHANGED <<password, lastReg, registered, restarted>>
  BY DEF RecvAnswer
<1>3. a \in answers /\ a.dev = d
  BY <1>1 DEF Of
<1>4. /\ AfterAnswer(d, a) = "loop" => a.code = "200"
      /\ AfterAnswer(d, a) = "auth" => a.challenge \/ d \in nonce
      /\ nonce' = nonce \/ (nonce' = nonce \cup {d} /\ a.challenge)
  BY <1>1 DEF AfterAnswer, Nonces
<1>5. InFlight'
  BY <1>1, <1>2, <1>3, <1>4 DEF IInv, InFlight
<1>6. RegistrationAgrees'
  BY <1>1, <1>2, <1>3, <1>4 DEF IInv, InFlight, RegistrationAgrees
<1> QED
  BY <1>2, <1>5, <1>6 DEF IInv, RegisteredHasAddress

\* Timer F only takes out of flight.
LEMMA TimerFInv == ASSUME IInv, NEW m \in requests, TimerF(m) PROVE IInv'
  BY DEF TimerF, IInv, InFlight, RegistrationAgrees, RegisteredHasAddress, devVars

\* onRegister answers 200 to the right password only, and keeps the address of
\* whom it challenges.
LEMMA OnRegisterInv == ASSUME IInv, NEW m \in requests, onRegister(m) PROVE IInv'
<1> DEFINE code == IF m.auth THEN Verify(m.dev) ELSE "401"
<1>1. code = "200" => m.auth /\ password[m.dev] = Secret
  BY RegistrationAssumption DEF Verify
<1>2. /\ answers' = answers \cup {[dev |-> m.dev, tx |-> m.tx, code |-> code,
                                   challenge |-> ~m.auth]}
      /\ lastReg' = IF m.auth THEN lastReg ELSE lastReg \cup {m.dev}
      /\ registered' = IF code = "200" THEN registered \cup {m.dev} ELSE registered
      /\ UNCHANGED <<password, nonce, regOk, requests, restarted>>
  BY DEF onRegister, Challenged, devVars
<1> HIDE DEF code
<1>3. InFlight'
  BY <1>1, <1>2 DEF IInv, InFlight
<1>4. RegistrationAgrees'
  BY <1>1, <1>2 DEF IInv, RegistrationAgrees
<1>5. RegisteredHasAddress'
  BY <1>1, <1>2 DEF IInv, InFlight, RegisteredHasAddress
<1> QED
  BY <1>2, <1>3, <1>4, <1>5 DEF IInv

\* After a restart the platform promises nothing about what it has forgotten.
LEMMA RestartInv == ASSUME IInv, Restart PROVE IInv'
  BY DEF Restart, IInv, InFlight, RegistrationAgrees, RegisteredHasAddress, devVars, netVars

\* The invariant holds in every reachable state.
THEOREM Invariance == Spec => []IInv
<1>1. ASSUME IInv, [Next]_vars PROVE IInv'
  <2>1. ASSUME NEW d \in Dev, Device(d) PROVE IInv'
    <3>1. CASE Backoff(d)
      BY <1>1, <3>1, Kept DEF Backoff, core, netVars, platVars
    <3> QED
      BY <1>1, <2>1, <3>1, SendRegisterInv, RecvAnswerInv DEF Device
  <2>2. ASSUME NEW d \in Dev, RegisterTimeout(d) \/ Tick(d) \/ Stop(d) \/ AnswerQuery(d)
        PROVE IInv'
    BY <1>1, <2>2, Kept DEF RegisterTimeout, Tick, Stop, AnswerQuery, core, devVars,
       netVars, platVars
  <2>3. ASSUME NEW m \in requests, TimerF(m) \/ onRegister(m) PROVE IInv'
    BY <1>1, <2>3, TimerFInv, OnRegisterInv
  <2>4. ASSUME NEW m \in mail, onMessage(m) PROVE IInv'
    BY <1>1, <2>4, Kept DEF onMessage, core, devVars, netVars
  <2>5. CASE Restart
    BY <1>1, <2>5, RestartInv
  <2>6. ASSUME NEW id \in Dev \cup Channel, QueryCatalog(id) PROVE IInv'
    BY <1>1, <2>6, Kept DEF QueryCatalog, core, devVars, netVars, platVars
  <2>7. ASSUME NEW id \in Dev \cup Channel, NEW k \in Call, invite(k, id) PROVE IInv'
    BY <1>1, <2>7, Kept DEF invite, core, devVars, netVars, platVars
  <2>8. ASSUME NEW k \in Call, onInvite(k) \/ Hangup(k) PROVE IInv'
    BY <1>1, <2>8, Kept DEF onInvite, Hangup, core, devVars, netVars, platVars
  <2>9. CASE UNCHANGED vars
    BY <1>1, <2>9, Kept DEF vars, core, devVars, netVars, platVars
  <2> QED
    BY <1>1, <2>1, <2>2, <2>3, <2>4, <2>5, <2>6, <2>7, <2>8, <2>9 DEF Next
<1> QED
  BY InitInv, <1>1, PTL DEF Spec

\* Registered() of a device and Registered on the platform are only ever true
\* with the right password, and the first implies the second until a restart.
THEOREM RegistrationAgreesHolds == Spec => []RegistrationAgrees
<1>1. IInv => RegistrationAgrees
  BY DEF IInv
<1> QED
  BY Invariance, <1>1, PTL

\* Until a restart the platform has an address for each device it lists as
\* registered.
THEOREM RegisteredHasAddressHolds == Spec => []RegisteredHasAddress
<1>1. IInv => RegisteredHasAddress
  BY DEF IInv
<1> QED
  BY Invariance, <1>1, PTL

-----------------------------------------------------------------------------
(* Types.                                                                   *)

\* Initially.
LEMMA InitType == Init => TypeOK
<1> SUFFICES ASSUME Init PROVE TypeOK
  OBVIOUS
<1>1. 1 \in TxId /\ 0 \in 0..MaxFaults
  BY RegistrationAssumption DEF TxId
<1>2. NoCall \in CallType
  BY DEF NoCall, CallType
<1> QED
  BY <1>1, <1>2, Zenon DEF Init, TypeOK

\* register: the first REGISTER.
LEMMA SendRegisterType == ASSUME TypeOK, NEW d \in Dev, SendRegister(d) PROVE TypeOK'
<1>1. faults' \in 0..MaxFaults
  BY RegistrationAssumption DEF SendRegister, TypeOK, Fault
<1>2. /\ pc' \in [Dev -> {"register", "challenge", "auth", "backoff", "loop", "stopped"}]
      /\ cur' \in [Dev -> TxId]
  BY DEF SendRegister, TypeOK
<1>3. requests \subseteq requests' /\ requests' \subseteq Register
  <2>1. \A t \in TxId : [dev |-> d, tx |-> t, auth |-> FALSE] \in Register
    BY DEF Register
  <2> QED
    BY <2>1 DEF SendRegister, TypeOK
<1> QED
  BY <1>1, <1>2, <1>3 DEF SendRegister, TypeOK, platVars, msgVars, callVars

\* What register does after an answer is one of its places.
LEMMA RecvAnswerType == ASSUME TypeOK, NEW d \in Dev, RecvAnswer(d) PROVE TypeOK'
<1>1. /\ UNCHANGED <<password, open, devices, lastReg, registered, channelOf, mail,
                     queries, calls, streams, dialogs, restarted>>
      /\ answers' \subseteq answers
      /\ seen' = seen \ Of(requests, d)
      /\ faults' \in 0..MaxFaults
      /\ \/ UNCHANGED cur
         \/ \E t \in TxId : cur' = [cur EXCEPT ![d] = t]
      /\ regOk' \subseteq regOk \cup {d} /\ nonce' \subseteq nonce \cup {d}
      /\ \E l \in {"auth", "backoff", "loop"} : pc' = [pc EXCEPT ![d] = l]
  BY RegistrationAssumption DEF RecvAnswer, AfterAnswer, Nonces, Fault, TypeOK, msgVars, callVars
<1>2. /\ requests' \subseteq Register
      /\ requests \ Of(requests, d) \subseteq requests'
  <2>1. \/ requests' = requests \ Of(requests, d)
        \/ \E t \in TxId : requests' = (requests \ Of(requests, d))
                                        \cup {[dev |-> d, tx |-> t, auth |-> TRUE]}
    BY DEF RecvAnswer
  <2>2. \A t \in TxId : [dev |-> d, tx |-> t, auth |-> TRUE] \in Register
    BY DEF Register
  <2> QED
    BY <2>1, <2>2 DEF TypeOK
<1> QED
  BY <1>1, <1>2 DEF TypeOK

\* The other steps of a device.
LEMMA DeviceType ==
  ASSUME TypeOK, NEW d \in Dev,
         RegisterTimeout(d) \/ Backoff(d) \/ Tick(d) \/ Stop(d) \/ AnswerQuery(d)
  PROVE  TypeOK'
<1> USE RegistrationAssumption DEF TypeOK, netVars, platVars, msgVars, callVars, devVars
<1>1. CASE RegisterTimeout(d)
  BY <1>1 DEF RegisterTimeout, Fault
<1>2. CASE Backoff(d)
  BY <1>2 DEF Backoff
<1>3. CASE Tick(d)
  BY <1>3 DEF Tick, Fault
<1>4. CASE Stop(d)
  BY <1>4 DEF Stop
<1>5. CASE AnswerQuery(d)
  BY <1>5 DEF AnswerQuery
<1> QED
  BY <1>1, <1>2, <1>3, <1>4, <1>5

\* Timer F takes a REGISTER out of flight and out of what was seen.
LEMMA TimerFType == ASSUME TypeOK, NEW m \in requests, TimerF(m) PROVE TypeOK'
  BY DEF TimerF, TypeOK, devVars, msgVars, callVars

\* Whoever is registered, or has an address, has an entry.
LEMMA OnRegisterType == ASSUME TypeOK, NEW m \in requests, onRegister(m) PROVE TypeOK'
<1> DEFINE code == IF m.auth THEN Verify(m.dev) ELSE "401"
           a == [dev |-> m.dev, tx |-> m.tx, code |-> code, challenge |-> ~m.auth]
<1>1. m.dev \in Dev /\ m.tx \in TxId /\ m.auth \in BOOLEAN
  BY DEF TypeOK, Register
<1>2. code \in {"200", "401", "403"}
  BY DEF Verify
<1>3. a \in Answer
  BY <1>1, <1>2 DEF Answer
<1>4. /\ answers' = answers \cup {a}
      /\ seen' = seen \cup {m}
      /\ devices' = IF m.auth /\ code # "200" THEN devices ELSE devices \cup {m.dev}
      /\ lastReg' = IF m.auth THEN lastReg ELSE lastReg \cup {m.dev}
      /\ registered' = IF code = "200" THEN registered \cup {m.dev} ELSE registered
      /\ UNCHANGED <<password, pc, cur, nonce, regOk, open, requests, channelOf, mail,
                     queries, calls, streams, dialogs, restarted, faults>>
  BY DEF onRegister, Known, Challenged, devVars, msgVars, callVars
<1>5. ~m.auth => code = "401"
  OBVIOUS
<1> HIDE DEF code, a
<1> QED
  BY <1>1, <1>3, <1>4, <1>5 DEF TypeOK

\* onMessage books channels to devices.
LEMMA OnMessageType == ASSUME TypeOK, NEW m \in mail, onMessage(m) PROVE TypeOK'
  BY RegistrationAssumption
  DEF onMessage, TypeOK, Known, Parent, devVars, netVars, callVars

\* A restart empties the tables of the platform.
LEMMA RestartType == ASSUME TypeOK, Restart PROVE TypeOK'
<1>1. \A k \in Call : calls[k] \in CallType /\ [calls[k] EXCEPT !.at = "lost"] \in CallType
  BY DEF TypeOK, CallType
<1>2. calls' \in [Call -> CallType]
  BY <1>1 DEF Restart
<1>3. faults' \in 0..MaxFaults
  BY RegistrationAssumption DEF Restart, TypeOK, Fault
<1> QED
  BY <1>2, <1>3 DEF Restart, TypeOK, devVars, netVars, msgVars

\* Requests go to devices that have an address.
LEMMA DeviceAddr ==
  ASSUME TypeOK, NEW id, deviceAddr(id) # None
  PROVE  deviceAddr(id) \in lastReg /\ deviceAddr(id) \in Dev
  BY DEF deviceAddr, TypeOK

\* A query and a call are for an ID of the configuration.
LEMMA PlatformType ==
  ASSUME TypeOK, NEW id \in Dev \cup Channel,
         QueryCatalog(id) \/ \E k \in Call : invite(k, id)
  PROVE  TypeOK'
<1>1. CASE QueryCatalog(id)
  BY <1>1, DeviceAddr
  DEF QueryCatalog, TypeOK, devVars, netVars, platVars, callVars
<1>2. ASSUME NEW k \in Call, invite(k, id) PROVE TypeOK'
  <2>1. deviceAddr(id) \in Dev /\ Guessed(id) \in BOOLEAN
    BY <1>2, DeviceAddr DEF invite, Guessed
  <2>2. [id |-> id, dev |-> deviceAddr(id), guess |-> Guessed(id), at |-> "sent",
         tag |-> NoTag] \in CallType
    BY <2>1 DEF CallType
  <2>3. calls' \in [Call -> CallType]
    BY <1>2, <2>2 DEF invite, TypeOK
  <2> QED
    BY <1>2, <2>3 DEF invite, TypeOK, devVars, netVars, platVars, msgVars
<1> QED
  BY <1>1, <1>2

\* The dialog of a call has its type, and so has its place in the table.
LEMMA StreamDialogType ==
  ASSUME NEW k \in Call
  PROVE  /\ <<ID(StreamDialog(k)), StreamDialog(k)>>
               \in DialogEntry
         /\ AnswerTag(k) \in Tag
<1>1. NewTag(k, 0) \in Tag /\ NewTag(k, 1) \in Tag /\ NewTag(k, 2) \in Tag
  BY DEF NewTag, Tag
<1>2. StreamDialog(k) \in DialogType(Call, Tag, {PlatformHost, DeviceHost})
  BY <1>1 DEF StreamDialog, NewServerDialog, DialogType, DialogState
<1>3. ID(StreamDialog(k)) \in DialogID(Call, Tag)
  BY <1>1 DEF StreamDialog, NewServerDialog, ID, DialogID
<1> QED
  BY <1>1, <1>2, <1>3, Zenon DEF AnswerTag, DialogEntry

\* onInvite and Hangup.
LEMMA StreamType == ASSUME TypeOK, NEW k \in Call, onInvite(k) \/ Hangup(k) PROVE TypeOK'
<1> DEFINE d == calls[k].dev
<1>1. calls[k] \in CallType
  BY DEF TypeOK
<1>2. ASSUME NEW l \in {"up", "lost", "bye"}, NEW t \in Tag \cup {NoTag}
      PROVE  [calls[k] EXCEPT !.at = l, !.tag = t] \in CallType
  BY <1>1 DEF CallType
<1>3. ASSUME NEW l \in {"up", "lost", "bye"}
      PROVE  [calls[k] EXCEPT !.at = l] \in CallType
  BY <1>1 DEF CallType
<1>4. /\ UNCHANGED <<password, pc, cur, nonce, regOk, open, requests, answers, seen, devices,
                     lastReg, registered, channelOf, mail, queries, restarted>>
      /\ faults' \in 0..MaxFaults
  BY RegistrationAssumption DEF onInvite, Hangup, Fault, TypeOK, devVars, netVars, platVars,
     msgVars
<1>5. CASE onInvite(k)
  <2>1. d \in open /\ d \in Dev
    BY <1>5 DEF onInvite, TypeOK
  <2>2. dialogs' \in [Dev -> SUBSET DialogEntry]
    BY <1>5, <2>1, StreamDialogType DEF onInvite, TypeOK, Add
  <2>3. streams' \in [Dev -> SUBSET Call]
    BY <1>5, <2>1 DEF onInvite, TypeOK
  <2>4. \/ calls' = [calls EXCEPT ![k] = [calls[k] EXCEPT !.at = "up", !.tag = AnswerTag(k)]]
        \/ calls' = [calls EXCEPT ![k] = [calls[k] EXCEPT !.at = "lost"]]
    BY <1>5 DEF onInvite, TypeOK
  <2>5. [calls[k] EXCEPT !.at = "up", !.tag = AnswerTag(k)] \in CallType
    BY <1>2, StreamDialogType
  <2>6. calls' \in [Call -> CallType]
    BY <1>3, <2>4, <2>5 DEF TypeOK
  <2> QED
    BY <1>4, <2>2, <2>3, <2>6 DEF TypeOK
<1>6. CASE Hangup(k)
  <2>1. /\ streams' \in [Dev -> SUBSET Call]
        /\ dialogs' \in [Dev -> SUBSET DialogEntry]
    <3>1. \/ UNCHANGED <<dialogs, streams>>
          \/ /\ \E g : dialogs' = [dialogs EXCEPT ![d] = Remove(@, g)]
             /\ streams' = [streams EXCEPT ![d] = @ \ {k}]
      BY <1>6 DEF Hangup
    <3> HIDE DEF d
    <3> QED
      BY <3>1 DEF Remove, TypeOK
  <2>2. calls' = [calls EXCEPT ![k] = [calls[k] EXCEPT !.at = "bye"]]
    BY <1>6 DEF Hangup
  <2>3. calls' \in [Call -> CallType]
    BY <1>3, <2>2 DEF TypeOK
  <2> QED
    BY <1>4, <2>1, <2>3 DEF TypeOK
<1> QED
  BY <1>5, <1>6

\* A step keeps the types.
LEMMA TypeStep == TypeOK /\ [Next]_vars => TypeOK'
<1> SUFFICES ASSUME TypeOK, [Next]_vars PROVE TypeOK'
  OBVIOUS
<1>1. ASSUME NEW d \in Dev,
             Device(d) \/ RegisterTimeout(d) \/ Tick(d) \/ Stop(d) \/ AnswerQuery(d)
      PROVE  TypeOK'
  BY <1>1, SendRegisterType, RecvAnswerType, DeviceType DEF Device
<1>2. ASSUME NEW m \in requests, TimerF(m) \/ onRegister(m) PROVE TypeOK'
  BY <1>2, TimerFType, OnRegisterType
<1>3. ASSUME NEW m \in mail, onMessage(m) PROVE TypeOK'
  BY <1>3, OnMessageType
<1>4. CASE Restart
  BY <1>4, RestartType
<1>5. ASSUME NEW id \in Dev \cup Channel,
             QueryCatalog(id) \/ \E k \in Call : invite(k, id)
      PROVE  TypeOK'
  BY <1>5, PlatformType
<1>6. ASSUME NEW k \in Call, onInvite(k) \/ Hangup(k) PROVE TypeOK'
  BY <1>6, StreamType
<1>7. CASE UNCHANGED vars
  BY <1>7 DEF vars, devVars, netVars, platVars, msgVars, callVars, TypeOK
<1> QED
  BY <1>1, <1>2, <1>3, <1>4, <1>5, <1>6, <1>7 DEF Next

\* Every variable has its type; that every registered device, and every device
\* with an address, has a DeviceStatus is part of it.
THEOREM TypeCorrect == Spec => []TypeOK
  BY InitType, TypeStep, PTL DEF Spec

-----------------------------------------------------------------------------
(* Streams.                                                                 *)

\* A catalog books a channel to its owner; a stream is the stream of a call to
\* the device that has it; a call to another device than the owner is a guess.
StreamInv ==
  /\ \A c \in Channel : channelOf[c] \in {Owner[c], None}
  /\ \A d \in Dev : \A k \in streams[d] : calls[k].at # "none" /\ calls[k].dev = d
  /\ \A k \in Call :
       calls[k].at # "none" /\ calls[k].id \in Channel \ Dev =>
         calls[k].dev = Owner[calls[k].id] \/ calls[k].guess

\* A channel that is known to belong to a registered device is resolved to its
\* owner.
LEMMA ResolveChannel ==
  ASSUME TypeOK, StreamInv, NEW id \in Channel \ Dev, deviceAddr(id) # None, ~Guessed(id)
  PROVE  deviceAddr(id) = Owner[id]
<1>1. id \notin registered
  BY DEF TypeOK
<1>2. channelOf[id] \in registered /\ channelOf[id] = Owner[id]
  BY <1>1, RegistrationAssumption DEF Guessed, TypeOK, StreamInv
<1>3. resolveDevice(id) = Owner[id] /\ Owner[id] # None
  BY <1>1, <1>2, RegistrationAssumption DEF resolveDevice
<1> QED
  BY <1>3 DEF deviceAddr

\* A step that leaves channels, calls and streams alone keeps StreamInv.
LEMMA StreamKept == StreamInv /\ UNCHANGED <<channelOf, calls, streams>> => StreamInv'
  BY DEF StreamInv

\* A step keeps StreamInv.
LEMMA StreamStep == TypeOK /\ StreamInv /\ [Next]_vars => StreamInv'
<1> SUFFICES ASSUME TypeOK, StreamInv, [Next]_vars PROVE StreamInv'
  OBVIOUS
<1>1. ASSUME NEW d \in Dev,
             Device(d) \/ RegisterTimeout(d) \/ Tick(d) \/ Stop(d) \/ AnswerQuery(d)
      PROVE  StreamInv'
  BY <1>1, StreamKept DEF Device, SendRegister, RecvAnswer, Backoff, RegisterTimeout, Tick,
     Stop, AnswerQuery, platVars, callVars
<1>2. ASSUME NEW m \in requests, TimerF(m) \/ onRegister(m) PROVE StreamInv'
  BY <1>2, StreamKept DEF TimerF, onRegister, callVars
<1>3. ASSUME NEW m \in mail, onMessage(m) PROVE StreamInv'
  BY <1>3 DEF onMessage, Parent, StreamInv, callVars
<1>4. CASE Restart
  <2>1. \A k \in Call : /\ calls'[k].dev = calls[k].dev /\ calls'[k].id = calls[k].id
                        /\ calls'[k].guess = calls[k].guess
                        /\ calls'[k].at # "none" <=> calls[k].at # "none"
    BY <1>4 DEF Restart, TypeOK
  <2> QED
    BY <1>4, <2>1 DEF Restart, StreamInv, TypeOK
<1>5. ASSUME NEW id \in Dev \cup Channel, QueryCatalog(id) PROVE StreamInv'
  BY <1>5, StreamKept DEF QueryCatalog, platVars, callVars
<1>6. ASSUME NEW id \in Dev \cup Channel, NEW k \in Call, invite(k, id) PROVE StreamInv'
  <2>1. /\ calls'[k] = [id |-> id, dev |-> deviceAddr(id), guess |-> Guessed(id),
                        at |-> "sent", tag |-> NoTag]
        /\ \A j \in Call \ {k} : calls'[j] = calls[j]
        /\ calls[k].at = "none" /\ deviceAddr(id) # None
        /\ UNCHANGED <<channelOf, streams>>
    BY <1>6 DEF invite, TypeOK, platVars
  <2>2. \A d \in Dev : streams[d] \subseteq Call \ {k}
    BY <2>1 DEF StreamInv, TypeOK
  <2>3. id \in Channel \ Dev => deviceAddr(id) = Owner[id] \/ Guessed(id)
    BY <2>1, ResolveChannel
  <2> QED
    BY <2>1, <2>2, <2>3 DEF StreamInv
<1>7. ASSUME NEW k \in Call, onInvite(k) \/ Hangup(k) PROVE StreamInv'
  <2>1. /\ UNCHANGED channelOf
        /\ calls[k].at # "none" /\ calls'[k].at # "none"
        /\ calls'[k].dev = calls[k].dev /\ calls'[k].id = calls[k].id
        /\ calls'[k].guess = calls[k].guess
        /\ \A j \in Call \ {k} : calls'[j] = calls[j]
    BY <1>7 DEF onInvite, Hangup, TypeOK, CallType, platVars
  <2>2. \A d \in Dev : \A j \in streams'[d] : j \in streams[d] \/ (j = k /\ d = calls[k].dev)
    BY <1>7 DEF onInvite, Hangup, TypeOK
  <2>3. \A d \in Dev : streams[d] \subseteq Call
    BY DEF TypeOK
  <2> QED
    BY <2>1, <2>2, <2>3 DEF StreamInv
<1>8. CASE UNCHANGED vars
  BY <1>8, StreamKept DEF vars, platVars, callVars
<1> QED
  BY <1>1, <1>2, <1>3, <1>4, <1>5, <1>6, <1>7, <1>8 DEF Next

\* A stream for a channel is opened at the device that reported it, or the
\* platform had no better than a guess: whatever was lost, delayed or forgotten
\* in a restart between the catalog and the call.
THEOREM StreamAtOwnerHolds == Spec => []StreamAtOwner
<1>1. Init => StreamInv
  BY DEF Init, StreamInv, NoCall
<1>2. TypeOK /\ StreamInv => StreamAtOwner
  BY DEF TypeOK, StreamInv, StreamAtOwner
<1> QED
  BY <1>1, <1>2, StreamStep, TypeCorrect, PTL DEF Spec
=============================================================================
