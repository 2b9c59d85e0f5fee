# TLA+ models of the go-sip / GB28181 stack

Models of the parts of the stack whose correctness depends on the order in which
goroutines, timers and packets take their turns. TLC checks them on small
instances; TLAPS proves the safety properties and the refinements for every value of
the constants.

## The system

| Part | Source | Model |
|---|---|---|
| Client transactions | `transaction.go` | `ClientTx` |
| Server transactions | `transaction.go` | `ServerTx`, which implements `Reply` |
| Proxy, forking | `proxy.go` | `ProxyFork` |
| Proxy, requests within a dialog | `proxy.go` | `ProxyDialog` |
| User agent, dialogs | `ua.go`, `dialog.go` | `Dialog`, used by `B2BUA` and `Registration` |
| Back-to-back user agent | `b2bua.go` | `B2BUA`, which implements `Bridge` |
| GB28181 device and platform | `gb28181/device.go`, `gb28181/platform.go` | `Registration` |
| Transport connections | `transport.go` | `ConnPool`, which implements `SingleFlight` |
| Stream framing, parser | `parser.go`, `message.go` | not modelled |
| Headers, URIs, parameters | `headers.go`, `headers_map.go`, `uri.go`, `params.go` | text, not modelled |
| Resolver | `resolver.go` | not modelled |
| GB28181 payloads | `gb28181/sdp.go`, `gb28181/xml.go` | text, not modelled |
| Logging, errors, commands | `logging.go`, `errors.go`, `cmd/` | not modelled |

How they interact: a `Transport` puts every message it reads into one channel.
`TxManager.Run` is the single goroutine that takes messages out, one after the
other: a response goes to its `ClientTx`, a request to its `ServerTx` or, when it
is new, to the handler of the layer above (a proxy, a user agent), which runs on
that same goroutine. The layer above sends with `TxManager.Request`, reads
`ClientTx.Events()` and answers with `ServerTx.Respond` from goroutines of its
own. Timers run `finish` on goroutines of theirs.

## The modules

In all modules a step is what one goroutine does while it holds a mutex, or one
send; what the code does after it has let a mutex go is a step of its own. This
is where the interleavings come from.

**`ClientTx`** follows a transaction from `Request` to `finish`.

- `caller`, `loop`, `run` and `fin` say where the caller of `Request`, the
  retransmission goroutine, the `Run` goroutine and the goroutines that run
  `finish` are. `txs`, `state`, `events`, `stop` and `terminated` are the fields
  of that name.
- `Request*` are the steps of `TxManager.Request`; `Loop*` those of
  `startRetransmit` and `timeout`; `LookupResponse`, `Receive*` and `Deliver*`
  those of `handleResponse` and `receive`; `Finish*` those of `finish`.
- The wire is a set that grows. A message in it may arrive at any time, any
  number of times, or never: loss, duplication and reordering need no action.
- `finish` tests `terminated` and closes it in two steps. A second close sets
  `crashed`, and nothing happens after it.
- A response is its class (1xx, 2xx, the rest), which is all `receive` looks at.

**`ServerTx`** follows transaction objects; several may have one key, one after
the other. `NewRequest`, `KnownRequest` and `Ack` are `handleRequest`;
`Respond*`, `Send*` and `Schedule` are `Respond`, called by any number of
goroutines; `Loop*` is `startFinalRetransmit`. Key, source, state and final
response are the fields of that name, and `wire` holds the final responses that
were sent. An ACK arrives once a final response has been sent.

**`Reply`** is the promise to the other side: a transaction settles on one final
response, and every final response it sends is that one. `ServerTx` implements
it with `chosen <- final` and `sent <- wire`.

**`ProxyFork`** follows one request through `handleRequest`, `fork`, the
`runBranch` goroutines and the Timer C callbacks.

- `group`, `present` and `cancelled` are the entries of `p.branches` and
  `p.cancelled`; `pc`, `todo` and `reply` say where a goroutine is, which copied
  branches it has yet to visit and what it is going to forward.
- `handleRequest` calls `handleInitial` twice for some methods. A branch is
  therefore named by the pass and the target.
- Of a branch's `ClientTx` it keeps whether `Cancel` would send something and
  the first final event; of the `ServerTx`, that the first final response
  counts. Both are what `ClientTx` and `ServerTx` show. A transaction that timed
  out keeps its state, so `Cancel` still sends for it.
- A request with a To tag takes the in-dialog path, which is `ProxyDialog`.

**`ProxyDialog`** follows the requests of one Call-ID within the dialog that
`deliverFinal` recorded (`Record`): `Recv` and `Passed` are `handleRequest`,
`handleAck`, `Refuse` and `handleInDialog` the functions it leads to, and
`Collect*` the goroutine that runs `forwardAndCollect`. `handleInDialog` looks the
dialog up and lets `p.mu` go before it deletes, so the deletion and the forwarding
are a step of their own, `handleInDialogForward`; `Record` may come in between. Addresses are hosts. A
2xx without Contact leaves a dialog without `remoteLeg`; `handleInDialog` looks
at that and `handleAck` does not, which is what sets `crashed`.

**`Dialog`** has no state of its own. It gives dialogs and the dialog table as
records, sets and operators. The table keeps the ID a dialog had when it was
added, because the ID of a client dialog changes with the first tag it learns.

**`B2BUA`** is `b2bua.go` over two user agents, the ingress and the egress.

- For INVITE `i`, `dlg["in"][i]` is the A dialog and `dlg["out"][i]` the B
  dialog. `RefuseInvite` and `BridgeInvite` are `handleInvite` with
  `handleIngressInvite`, `Pump*` is `pump`, `Wait*`, `Answer`,
  `StartRelay` and `InsertSession` are the goroutine that waits for the B leg.
- `RecvBye` is `handleBye`; `LegBye`, `StopRelay`, `HangupSend` and `HangupWait`
  are `handleLegBye` and `Hangup`, which hold the Run goroutine until they are done.
- There is one relay, `b.relay`, for all calls, and its `Stop` names no session.
  `media` is the set of the calls it carries: `StartRelay` adds one, `StopRelay`
  empties it. The BYE of one call thus ends the media of every other one.
- INVITEs may share a Call-ID, and a re-INVITE is a new call to this code.

**`Bridge`** is what the B2BUA does for its callers and callees: one answer to each
INVITE; media only after a 200; and when a caller has ended its call, for one call at
a time, first the end of the media, which are those of all calls, and then three BYEs
to the callee at most. It does not promise that media end with their call: the BYE
may come before `Start` and before the session is stored, and then nothing takes the
call down until another one ends. `B2BUA` implements it with `answer <- answered`, `busy <-` the INVITE that the ingress's Run goroutine
is at, `over <-` the INVITEs whose A dialog is terminated, and `byes <-` the
sequence number of the B dialog less one, which is that of its INVITE.

**`Registration`** is a platform with its devices.

- `SendRegister`, `RecvAnswer`, `RegisterTimeout`, `Backoff`, `Tick` and `Stop`
  are the device's `run` and `register`; `onRegister`, `onMessage`,
  `resolveDevice`, `deviceAddr`, `QueryCatalog` and `invite` are the platform's.
- A REGISTER that `register` has given up on stays in flight until Timer F. A
  `Restart` empties the platform's tables, and it then sees again what the
  transaction layer of a device still sends.
- `nonce` is the set of the devices that have kept a nonce: `register` answers a
  401 without a challenge with the one it has. Nothing compares the values.
- `dialogs` is the table of the device's user agent and `calls[k].tag` the tag that
  the 200 brought to the platform. `ByeAccepted` looks the platform's BYE up in that
  table; `Hangup` removes dialog and stream when it is found.

**`ConnPool`** is the table of stream connections. `getStreamConn`, `DialDone`,
`Signal`, `Woken` and `Write` are a `Send`, cut where it lets go of `mu`;
`ReaderStart` and `ReaderEnd` are `readTCP`'s first and last critical section. A
connection is stored under the address `Send` was given and again, by its
reader, under the IP address; the two differ for a host name.

**`SingleFlight`** is what `getStreamConn` promises to senders that want one
connection: the dial for a key has one leader, the others join it, it lands with
one result, and all that joined are told that result before they go on. `ConnPool`
implements it with `leader <- inflight` and `joined <- call`; `result` is what a
dialler holds between its second critical section and `wg.Done`, and `told` what
one that was woken has in hand.

The `MC` modules name the model values, targets and kinds of request for TLC and
state the constraints below.

## The runs

| Run | Configuration | Shows |
|---|---|---|
| `client_tx` | `ClientTx.cfg` | one final response, timeout on time, at most one late resend, the key is free at the end, what a double close needs, what ends it |
| `client_overtaken` | `ClientTxOvertaken.cfg` | violated: a final response is recorded in the state |
| `server_tx` | `ServerTx.cfg` | one final response on the wire (`OneReply`), states only advance, duplicates are absorbed, what a double close needs, a transaction with a final response ends |
| `proxy_fork` | `ProxyFork.cfg` | best failure forwarded, losers cancelled, caller answered; a request forked twice is answered by its last branch |
| `proxy_winner` | `ProxyForkWinner.cfg` | violated: the dialog leads to the callee the caller was given |
| `proxy_cancel` | `ProxyForkCancel.cfg` | violated: a caller that cancels gets a final response |
| `proxy_dialog` | `ProxyDialog.cfg` | one BYE gets through, what a panic needs, requests are answered unless the first event is provisional |
| `proxy_bye` | `ProxyDialogBye.cfg` | violated: a BYE whose forwarding failed leaves the dialog |
| `b2bua` | `B2BUA.cfg` | INVITEs are answered, a BYE is accepted once, ends the session and reaches the callee; a bridged call is without media only after another was hung up; answer, media and BYEs come in order (`InOrder`) |
| `registration` | `Registration.cfg` | device and platform agree, streams open at the owner of the channel, a device gets through |
| `registration_bye` | `RegistrationBye.cfg` | violated: a call that was hung up has no stream at the device |
| `transport` | `ConnPool.cfg` | dials are shared (`OneDial`), no connection is without a reader, stale entries only under host names, `Send` returns |

The five violations are disagreements between the code and a test, a comment or a
document:

- `FinalIsRecorded`: `Request` sets the state after the send
  (`transaction.go:407`). A final response handled in between is delivered, and
  then the state goes back to Calling. `transaction_test.go:237` expects
  Completed or Terminated.
- `DialogIsWinner`: `cleanupGroup` deletes the flag that `deliverFinal` tests
  (`proxy.go:288`). A later 2xx claims the group again and overwrites the dialog;
  the caller keeps the first 2xx. `docs/sequences.md:60` says the first 2xx wins.
- `CancelAnswered`: after `handleCancel` every path that could answer the INVITE
  returns (`proxy.go:339`). `docs/sequences.md:169` says the 487 goes upstream.
- `FailedByeLeavesDialog`: `handleInDialog` deletes the dialog (`proxy.go:476`)
  before the BYE is forwarded. When that fails the caller is answered 500, and its
  next BYE 481. `docs/sequences.md:142` says the dialog is deleted after the BYE was
  forwarded with success.
- `HangupEndsStream`: `Device.Start` installs an `OnBye` that deletes the stream,
  but the 200 that `onInvite` builds has a tag of its own (`device.go:368`), not that
  of the dialog that `handleInvite` stored. The platform's BYE finds no dialog, and
  the stream stays. `platform.go:346` calls the session of `InviteLive` a standard
  one.

Several properties name the exceptions the code really has. `AtMostOneFinal`
excludes the overtaken response; `EventuallyTerminated` excludes an INVITE in
Proceeding, which the loop has left; `FinalEnds` excludes an INVITE whose final
response could not be sent; `RegisteredUntilFinish` excludes a key whose earlier,
acknowledged INVITE still has its Timer J; `BestForwarded` and `LosersCancelled`
exclude a branch that ends while `fork` is still adding branches.
`HangupReachesPeer` excludes a BYE that comes before the session is stored, which
it never is when the 200 could not be sent, and a Call-ID under which another
INVITE has its session; and a BYE that could not be sent counts as one the callee
was told by, because nothing tries it again. `MediaLostToOther` excludes a call next
to one that was hung up: the relay is shared.
`RegistrationAgrees` and `RegisteredHasAddress` exclude a platform that was
restarted. `StreamAtOwner` excludes the guess that `resolveDevice` makes for an
unknown channel, and a channel whose ID is also a device's; `StaleUnderName` an
entry under a host name.

The theorem `CalleeNotFoundHolds` says something that is surely not meant:
`b2bua.go:150` speaks of "either side", and the callee's BYE is always answered
481. `AnsweredUnlessEarly` names the exception to the comment at `proxy.go:498`,
which says `forwardAndCollect` waits for the final response; a BYE that is answered
481 because an earlier one used up the dialog counts as answered.

### Bounds

- `ClientTx`: an INVITE or another transaction, one of them started. Transactions
  share only the `Run` goroutine, and the proofs cover any number. `T1 = 1`,
  `T2 = 2`, `TimerF = 4` give a doubled, a capped and a last interval.
  `EventCap = 2` (64 in the code) lets the channel fill up.
- `ServerTx`: one branch with its INVITE, CANCEL and other key; two objects, so
  that a key is used again; two sources, two callers of `Respond` and two codes.
  `Bounded` in `MCServerTx` keeps one of several like behaviours: which object and
  which source is first, and which caller has which code. An ACK arrives only once a
  final response was sent, as it does from a peer that keeps to the protocol.
- `ProxyFork`: an INVITE to two targets with a success and two failures of
  different rank; a request of two passes, each to one target, without a
  provisional answer and with one code of failure. The codes 483, 500 and
  504 are the proxy's own.
- `ProxyDialog`: two requests and two dialogs one after the other, so that a BYE
  meets another request and a dialog that was replaced.
- `B2BUA`: two INVITEs, two Call-IDs, at most two requests within dialogs over
  all the legs, so that one overtakes the other; the caller's go up to CSeq 3. The
  callee of the first may leave out tag or contact, that of the second answers by
  the book.
- `Registration`: two devices (one with the right password, one with any), a
  channel, a call, two REGISTERs of a device and one MESSAGE in flight. Faults,
  calls and stops are two taken together: every pair of them, not the triples.
- `ConnPool`: two senders, two connections, a peer with an address and a name,
  and a limit of one connection, so that it is met. Three senders are beyond
  TLC here; the proofs cover any number.

No run declares a symmetry set, because most check liveness; the constraints above
do its work. Deadlock is not checked: a system that has dealt with all its requests stops.

### Fairness

Weak fairness of each goroutine's steps and of each timer that was set: Go's
scheduler runs what can run, and `time.After` and `time.AfterFunc` fire. A dial
and a write have deadlines. Packets, callees, callers and applications owe
nothing, so no property depends on an answer arriving. The one exception is
`Registers`: a REGISTER that is sent again and again is taken to arrive, and its
faults are bounded by `MaxFaults`. After a panic nothing is owed either.

## The proofs

Eight modules hold proofs, for any number of transactions, targets, sources,
codes, senders, devices, calls and requests, and any positive timers. They assume
only what the `ASSUME` of the module they are about says: constants are sets,
functions or numbers of the right kind, and the values that stand for "none" are
distinct from the proper ones.

| Theorem | States |
|---|---|
| `ClientTxProofs!TypeCorrect` | `TypeOK`, the channel's capacity included |
| `OneFinalDelivered` | `AtMostOneFinal` |
| `TimeoutIsOnTime` | `TimeoutOnTime` |
| `TerminatedFreesKey` | `TerminatedIsUnregistered` |
| `OneLateResend` | `AtMostOneLateResend` |
| `PanicNeedsRace` | `CrashNeedsRace` |
| `ServerTxProofs!TypeCorrect` | `TypeOK` |
| `ServerTxImplementsReply` | `OneReply`: the refinement of `Reply` |
| `StateNeverBack` | `NeverBack` |
| `LateResendBound` | `OneLateResend` |
| `DuplicatesAbsorbed` | `HandlerOnce` |
| `Registered` | `RegisteredUntilFinish` |
| `PanicNeedsAck` | `CrashNeedsAck` |
| `ProxyForkTypes!TypeCorrect` | `TypeOK`, the length of a group included |
| `ProxyForkProofs!LastAnswers` | `LastBranchAnswers` |
| `BestIsForwarded` | `BestForwarded` |
| `LosersAreCancelled` | `LosersCancelled` |
| `ConnPoolProofs!SharedDialHolds` | `SharedDial`: one dial per key, and who waits has a dialler |
| `ConnPoolImplementsSingleFlight` | `OneDial`: the refinement of `SingleFlight` |
| `NoLeakHolds` | `NoLeak` |
| `StaleUnderNameHolds` | `StaleUnderName` |
| `RegistrationProofs!TypeCorrect` | `TypeOK` |
| `RegistrationAgreesHolds` | `RegistrationAgrees` |
| `RegisteredHasAddressHolds` | `RegisteredHasAddress` |
| `StreamAtOwnerHolds` | `StreamAtOwner` |
| `ProxyDialogProofs!OneByeThroughHolds` | `OneByeThrough` |
| `CrashNeedsNoContactHolds` | `CrashNeedsNoContact` |
| `B2BUAProofs!TypeCorrect` | `TypeOK`, the number of attempts of `Hangup` included |
| `ByeOnceHolds` | `ByeOnce` |
| `OvertakenOnlyHolds` | `OvertakenOnly` |
| `CalleeNotFoundHolds` | no BYE of a callee is accepted |
| `HangupReachesPeerHolds` | `HangupReachesPeer` |
| `B2BUAImplementsBridge` | `InOrder`: the refinement of `Bridge` |
| `MediaLostToOtherHolds` | `MediaLostToOther` |

Each module proves an inductive invariant `IInv`, one lemma per conjunct, one
step per action, and derives the theorems from it.

- `ClientTx`. "At most one final response" is not inductive: it has to be known
  why a second cannot come. `FinalInv` says that a delivered final response is
  recorded in the state (`FinalRecorded`), or that the `Run` goroutine, which is
  the only one to look up another, has finishing ahead of it or has unregistered
  the transaction (`FinalClosing`). `RunInv` says that this goroutine does one
  thing at a time, `ServerInv` that the server sends one final response. `LoopInv`
  bounds `interval` and `elapsed`, `FinishInv` says `finish` removes before it
  closes, and `CallerInv` what cannot have happened before `Request` returns.
  `CrashNeedsRace` needs `SoleInv`: without a race one goroutine finishes a
  transaction, the loop if it expired, otherwise the one that belongs to the only
  final response delivered.
- `ServerTx`. `FinalInv` ties final response, state and wire together; `RespInv`
  says that one goroutine at most is between recording and scheduling; `CallsInv`
  counts calls of the handler against removals exactly; `FinInv` says that only
  an ACK brings a second finish; `RegInv` strengthens `RegisteredUntilFinish` to
  say that the earlier transaction has begun to finish.
- `ProxyFork`. In `ProxyForkTypes`, `RunInv` says which branches `fork` has yet to
  make and `BranchInv` what the place of a goroutine says about its branch. The
  rest is in `ProxyForkProofs`. `ListInv` says that only branches that were made
  are listed. `LastBranchAnswers` needs `LiveInv`: until the caller
  is answered, whoever claimed the group is at work, and a goroutine that has left
  has left a branch behind that works. `BestForwarded` and `LosersCancelled` need
  `CoverInv`: the group, and every copy that `checkGroupDone` works on, has all the
  branches; what `deliverFinal` no longer has before it is quiet; and a response on
  its way up satisfies what the two ask of one that arrived. That
  `pickBestResponse` finds a branch at all is a lemma about least elements.
- `ConnPool`. `SharedDial` needs `Dials`: who is in `inflight`, and for which key.
  `NoLeak` and `StaleUnderName` need `Made`: where a connection is between the dial
  and the start of its reader, and that a reader that reads knows its own address.
  The refinement has a lemma for each action that touches a dial; it needs that a
  sender with a `call` is one that waits, so that no sender joins twice.
- `Registration`. `InFlight` says what an answer on its way and a REGISTER the
  platform has seen stand for, unless there was a restart: a 200 is for a device
  with the right password that is registered, and a challenge, or a REGISTER with a
  digest, means the platform has recorded the device's address.
  `StreamAtOwner` needs `StreamInv`: the catalogue has a channel under its owner or
  not at all, a call was sent to the owner unless it was a guess, and a stream is at
  the device its call was sent to.
- `ProxyDialog`. `Numbered` orders the dialogs by their number, so that the BYE of
  one cannot be let through for another; `Later` and `Holding` do so across the two
  steps of `handleInDialog`, between which the dialog may be replaced;
  `CrashedIsIdle` says nothing moves after
  a panic, and `Arrived` what is known of a request that is being handled.
- `B2BUA`. `Legs` says what a dialog record is for its INVITE, `Tables` that the
  ingress has A legs under their IDs and the egress entries with the empty tag,
  `Gone` that an accepted BYE has taken the entry out, and `Raised` that the number
  a BYE is compared with is 1 or that of a request that was handled.
  `CalleeNotFound` follows from `Tables`: an entry of the egress has the empty tag,
  and the callee's is not. What becomes of a BYE needs a second invariant, `JInv`.
  `HangupReachesPeer` speaks of the time after the handling and says nothing of how
  it got there, so it is not inductive. `Places` says what is known of an INVITE by
  the place of its goroutine, `Stored` that a session is in the table under its own
  Call-ID until its BYE or another INVITE of the Call-ID takes it out, `Working`
  what the ingress goroutine has in hand, and `Hung` that a call that was ended is
  the one in hand, or the callee was told, or one of the two exceptions holds.
  The refinement of `Bridge` adds `KInv`: `Answers`, that an INVITE has no answer
  before its goroutine gives it, and `Attempted`, that the sequence number of a B
  dialog is 1 until the relay is stopped and from then on counts the attempts.
  `MediaLostToOther` adds `Carried`: a call with a session, or about to store one, is
  on the relay or another call was taken down.

Only model-checked are the liveness properties (`EventuallyTerminated`,
`FinalTerminates`, `FinalEnds`, `Answered`, `AnsweredUnlessEarly`,
`InviteAnswered`, `ByeEndsSession`, `Registers`, `SendReturns`): fairness is
outside what the prover handles. Every other property of a passing run has its
theorem.

## Not modelled

- Message text: parsing and formatting of headers, URIs, SDP, XML and digests. A
  digest is right if its password is.
- `StreamSplitter`, the packets channel and UDP in the transport: `ConnPool` has a
  reader's first and last step, not what it reads. A stalled `Run` goroutine
  fills the channel and so stops all readers; this is not in the models.
- Order of SRV records: nothing in the program calls `ResolveTarget`.
- The random parts of keys: `NewBranch`, `NewTag` and `NewCallID` are taken to be
  unique.
- Sockets and DNS: a send succeeds, fails, or is lost.
- The order of provisional against final responses on the wire.
- Real time beyond the retransmission clock: a timer that is set may fire at any
  later time, which includes the real one. `IsOnline`, which compares times, is
  left out with it.
- A provisional answer to a REGISTER, which `register` would take for the final
  one: this platform sends none.
- One model of client and server transactions over one wire: the two sides are
  checked each against a network that may do anything.
