# A verification of the Rosen sign protocols

This directory holds TLA+ models of the programs in this repository, the TLC
configurations that check them on small instances, and theorems about them that
TLAPS proves for every value of the constants.

## The system

A set of guards signs transactions together. Each guard runs a TypeScript
service that uses the libraries under `packages/`, beside a Go process
(`services/tss-api`) that carries out the threshold signature itself. Guards talk
over libp2p through `services/keygen-service` or a service like it.

| Part | Keeps | Does | Talks to |
|---|---|---|---|
| `TssSigner` (`packages/tss`) | `signs` (messages to sign), `pendingSigns` (requests seen before the local caller asked), `signCache`, `threshold`, `lastUpdateRound`, two mutexes | `sign`, `update` (once in a while, by a timer), handlers of request, approve, start and cached messages, `handleSignData` (the answer of tss-api) | other signers by messages, tss-api by HTTP, `GuardDetection` by calls and a callback |
| `GuardDetection` (`packages/detection`) | per guard: peer id, time of the last approval, outstanding nonces, callbacks | `init`, `update`, `register`, `changePks`, handlers of register, approve and heartbeat messages | other detections by messages; the signers read `activeGuards` |
| `MultiSigHandler` (`packages/ergo-multi-sig`) | a queue of transactions with commitments, proofs, coordinator and state | `sign`, `handleMyTurn`, handlers of the five kinds of message, `cleanup` | other handlers by messages, `GuardDetection` |
| `Communicator` (`packages/communication`) | the public keys, its own index | signs and sends, verifies what arrives | base class of the three above |
| encryption (`packages/encryption`) | nothing | signs and verifies | used by the others |
| dialer (`keygen-service`) | streams, relays, a queue of messages to retry, subscriptions | delivers messages, reconnects, retries | libp2p, tss-api |
| bootstrap (`keygen-service`) | nothing lasting | starts tss-api and again when it dies, calls keygen once all peers are there | tss-api |
| tss-api (`services/tss-api`, Go) | maps of channels and operations, meta data, the key file | keygen, sign, threshold, public key; goroutines per operation, message and time-out | dialer for messages, callbacks to the signer |

What is hard in it: handlers of one process interleave at every `await`; the two
mutexes of the signer cover only parts of what they read; messages are lost,
repeated, late and come from processes that have died since; turns of the clock
pass in the middle of a handler; tss-api fails, answers late or not at all, or
answers something false; a restarted guard has forgotten everything and others
have not.

What makes each part correct:

* signer: a guard lends its key only to messages its own application asked for;
  the guards that sign one request agree on it and approved it; the coordinator
  asks once per round; a caller gets a real signature; nothing hangs for ever;
* detection: guards find each other again after any failure, and a dead process
  never replaces its successor;
* multi-sig: commitments and proofs of one round are never mixed with another's;
  a transaction has one coordinator at a time; a promise settles once;
* dialer: no message is lost or doubled on its way through queue, loop and retries,
  none is given up before its last retry or goes to a stream that is gone; one url
  is called back once per message; a relay or peer that was lost is found again;
* tss-api: one operation per message id at a time, as far as requests do not overlap;
  every operation comes to its end; the caller of a key generation is told of success
  only when the key is written, wherever the process dies.

What makes the whole correct is `SigningService`: what the guards sign together was
asked for by the application of each guard that approved or started it, rests on
approvals of exactly that request, and is a real signature when anybody gets it.

## Modules

`TssSigner` is the core. One guard process is a set of variables indexed by the
guard; a callback or handler is an action, and each `await` that lets others run
ends one. The parts of a handler after an await are kept as tasks: a record of
what the code still holds in local variables, and which mutex it waits for.

| State | Code |
|---|---|
| `entries[g]`: every `Sign` object made, with message, request, approvals, whether it is posted, time | objects that handlers may hold across awaits |
| `signs[g]`: which of them are queued | `signs: Array<Sign>` |
| `pending`, `cache` | `pendingSigns`, `signCache` |
| `threshold`, `lastRound` | `threshold`, `lastUpdateRound` |
| `lock[g]`: the holder and the waiting tasks; a task is a record of the local variables it still needs | `signAccessMutex` (async-mutex grants first come first served) and the handlers suspended at it |
| `upd[g]` | the local variables of the running `update` |
| `verifying`, `awaiting` | `handleSignData` waiting for the public key of tss-api; signings posted to it |
| `net` | messages sent |
| `now` | `getDate()` in units in which turns, rounds and the no-work time of `getGuardTurn` and `isNoWorkTime` are whole |
| `approvals`, `posts`, `asked`, `restarts` | history, for properties and bounds |

The functions of the code appear under their own names (`GetSign`, `GuardTurn`,
`Cleanup`, `ReceiveRequest`, `HandleApprove`, ...); PROJECT.json maps each
definition to its lines. What the environment may do: messages stay in a set and
are received late, repeatedly or never; HTTP calls succeed, fail after tss-api
accepted, or fail before; results are any of success, failure or false ones, at
any time after a post; a guard restarts and loses everything. A guard runs one
`update` at a time: that the service does not call it again before it has ended is an
assumption. `pendingAccessMutex` is left out: what it protects runs without an await. `Version` is a
constant function; the runs give all guards the same one (see "Known divergences").

`SigningService` is the abstract specification of the signers, without queues, turns,
rounds, messages or a clock. `TssSigner` implements it (`ImplementsService`) under
this mapping:

| `SigningService` | `TssSigner` |
|---|---|
| `wanted[g]` | `Wanted`: the messages for which `sign` was called at g (`asked`) |
| `approvals`, `posts` | the same histories |
| `held[g]` | `Held`: what is in the cache of g, or was answered to a caller of g |
| `Want` | `Sign` |
| `Approve` | `ReceiveRequest`, `RegisterAnswered`, `AddSign` (of a pending request), `SetRequest` (the own approval of a request) |
| `Start` | `HandleApprove`, `HandleStart` |
| `Obtain` | `Verified` |
| `Lose` | `ExpireCache`, `Restart` |

All other steps change nothing of it.

Data left out: the texts of messages and signatures (a signature is a record only
its signer can put in a message), chain codes and derivation paths (part of what
a message is), logging, `operationTimeout` (passed on to tss-api).

`GuardDetection` models the detection with times as ages, so that behaviours go
on for ever and liveness can be checked. A restarted guard is a new peer id.
The network is unstable until it becomes stable, at any moment; before, it
loses, delays and repeats; after, messages arrive within a tick and `update` runs
in every tick. `Targets` is `addNonce` with the test of its index as it stands:
0 is taken for no index. Left out: versions of the protocol, the order of public
keys, and what callbacks of `register` do (that is `RegisterAnswered` of
`TssSigner`).

`MultiSig` models the signing of one Ergo transaction by `MultiSigHandler`.
Transactions share nothing but the semaphore of their guard, so another one is
seen here only as a delay, which the model allows anywhere.

| State | Code |
|---|---|
| `queued[g]`, `entry[g]` | `transactions.get(txId)`: its `TxQueued` |
| `entry.asked` | `tx`, `boxes`, `dataBoxes`, `requiredSigner`, `resolve`, `reject`, which `sign` sets together |
| `entry.secret`, `cmts`, `signs`, `sim`, `coord`, `age` | `secret`, `commitments` (with `commitmentSigns`), `signs`, `simulatedBag`, `coordinator`, `createTime` |
| `sem[g]`: free, or the task it is held for | `semaphore`, and the rest of `handleCommitment` (`simulate`, `prove`), `initiateSign` (`answer`) and `handleSignedTx` (`verify`) |
| `starting[g][c]` | runs of `handleMyTurnForTx` past their test; `held` while the object they have read is in the map, `stale` after it was deleted |
| `local[g]` | transactions combined by `handleSign` and not yet passed to `handleSignedTx` |
| `waiting[g]` | `initiateSign` messages accepted in the turn of their sender and waiting for the semaphore |
| `promise[g]` | of the last call of `sign`; resolved and rejected are both `over` |
| `made`, `start`, `turn`, `net` | secrets generated, starts of the process (its peer id), `getCurrentTurnInd`, messages |

An action ends at `getStateContext` (reached through `extract_hints` and
`handleSignedTx`, a request to a node that takes time and may fail) and where the
semaphore is waited for. Other awaits of a handler (`getIndex`, `peersWithIds`,
signing a message) ask the process itself and end with the action, with one
exception: those between the test and the assignment in `handleMyTurnForTx`, because
a second run can pass the same test there. Messages expire by age only when their
handler takes no semaphore (`generateCommitment`): the others may wait for it for
any time after `handleMessage` has accepted them. `local` is a set: equal
transactions that wait at the same time count once. What the wasm library makes
of proofs is external and is modelled from how the code uses it: `Combined` says
when proofs fit the commitments and the simulation, and lets a proof beside those
needed spoil the transaction or not. Left out: `handlePublicKeysChange`, versions
of messages.

`Dialer` models one dialer of `keygen-service` with libp2p as its environment.

| State | Code |
|---|---|
| `queue`, `timers` | `_messageQueue`; messages in the `setTimeout` of `retrySendingMessage` |
| `cur` | the loop of `processMessageQueue`: idle, at `node.dial`, at `newStream` |
| `routes`, `conns[p]` | the stream of `routesInfo` of a peer; the connections libp2p lists, with the stream of each and how often its sink was called |
| `book`, `relayUp`, `interval` | the address book, connected relays, the intervals of `tryReconnectingRelay` |
| `subs`, `asked` | `_subscribedChannels` and what was passed to `subscribeChannel` |
| `settled` | whether the network has become stable, at a moment nobody chooses |
| `fate`, `fails`, `sends` | history: what became of each message, failed attempts, calls of `sendMessage` |

`TakeMessage` is the loop up to the first await; `DialAnswers`, `DialFails`,
`StreamAnswers`, `StreamFails` are what dial and newStream return, between which
connections come, die unnoticed, close and go. `FateOn` says what a push to a source
comes to: sent, lost with a connection that is dead and not yet noticed (which the
code cannot know), or astray, on a stream that no open connection has. Left out:
creating and saving the peer id, and the deprecated `handlePeerDiscovery`.

`TssApi` models the Go process and its supervisor.

| State | Code |
|---|---|
| `alive`, `posted` | whether the process runs (`runBinary` starts it again); whether `tryCallApi` has made its one request |
| `op[r]` | a request by the order of their acceptance, and its operation: where the goroutine of the HTTP request is (its id found unknown, channel inserted, registered or refused), then those of `StartAction`, of `CreateParty` and of `timeOutGoRoutine`, how many update the party or wait to send an error, and which channel its loop reads |
| `channel[r]` | the message channel the request made: what it holds, whether it is closed, and the goroutines of `MessageHandler` about to send to it |
| `chan`, `operations` | `ChannelMap`; the ids in `SignOperationMap` and `KeygenOperationMap` |
| `keyFile` | the key on the disk: none, opened and not written, whole |
| `told`, `runs`, `messages`, `crashes` | history and bounds |
| `raced` | history: ids that a second request found unknown while a first had passed that test and not inserted its channel |

The goroutines share the maps without a lock, so each read or write of a map is a step
of its own: a request tests its id (`Accept`), inserts its channel (`Insert`), registers
its operation or is refused with its channel left behind (`Register`), and the goroutine
it starts reads the map once more for the channel of its loop (`StartAction`); a message
is looked up (`Lookup`) and sent (`Send`) in two steps, and may reach a channel that
is out of the map by then. The operations' channels are unbuffered but for the
messages, so a send and the receive it meets are one action, and a goroutine that waits
to send is a value of `party`, `timer` or `failing`. A panic (a send on or a second close
of a closed channel, the deletion of an entry that is gone) ends the process. Two
goroutines in a map at the same instant are one of the crashes that may happen
at any time. The party itself (the rounds of the threshold library) may
fail or end at any time. `CheckOperation` is the test of the controller as it
stands. `WriteData` does not sync, so the models speak of the end of the process and not
of the machine's. Left out: reading and publishing, meta data, the second curve, whose
operations share nothing with those of the first.

`MCTssSigner` names the version function the configurations use, `MCDialer` a bound of
its run. The
mutants (a definition commented "Mutant") are plausible wrong forms of another
definition and take part in no specification.

## What the runs show

PROJECT.json lists the runs; each one's bounds are in its `.cfg`.

* `tss_three_guards`, `tss_turns`, `tss_restart`, `tss_live`: the signer. Three
  guards (two needed) in one round show subsets of approvals, late starts and HTTP calls
  that fail after tss-api accepted them, whose results come all the same;
  two guards over three turns show what crosses turns and the no-work time; a
  restart within a round shows old approvals and results meeting a new process. Two rounds'
  worth of time is enough for every handler to be overtaken by a turn, by the
  time-out of its entry and by the expiry of the cache.
  A start that waits for the mutex while others come needs a second place in its queue, which
  `tss_turns` and `tss_restart` have (`MaxQueue = 2`).
  `tss_three_guards` and `tss_restart` also check the refinement: the first with all
  kinds of results and expiry, the second with a restart and several calls of `sign`.
* `tss_live` has two messages that share the mutex within one turn (`update` asks for one
  of them per round, `SignPerRound = 1`), and HTTP calls that fail while
  `startSign` holds the mutex, whose catch waits for it behind whatever came
  meanwhile. Fairness (`FairSpec`) is per task: the event loop runs what is runnable
  (`WF`), tss-api's HTTP calls return or fail, the timer calls `update` and the clock
  advances (`SF`, because the condition that the other guards have no step ready, which
  the processes do not share, holds on and off). No message is assumed to arrive.
* `tss_sign_twice`: two calls of `sign` both pass the test "already signing this
  message", because they wait for the mutex after it ("findings"). The other runs check
  `StartAgreement` with one call per message, the case `SingleCallAgreement` proves in
  general (see "Known divergences" for what happens with two).
* `detection_safety`, `detection_live`: two guards. Two outstanding nonces and two
  messages under way are what it takes for an approval of a dead process to
  compete with one of its successor. A nonce holds heartbeats back for little more than
  a tick in these runs (`MessageValid = 0`). Liveness assumes that the network becomes
  stable and that the application calls `update`.
* `detection_nonce`: the index 0 of `addNonce`.
* `multisig_rounds`: two guards that must both sign, two secrets of each, one message
  under way at a time, and a guard that dies. Each guard can be coordinator once, or one
  twice, which is what a change of coordinator in the middle of an await takes, and
  an old proof or commitment can meet a new round. `InitiatesOneRound` says that the
  signers get the commitments of the others that the simulation was made for. That the
  commitment of the coordinator itself is the one simulated it says only for runs of
  `handleMyTurnForTx` that do not overlap (`MaxCallers = 1`, stated in the property),
  as it fails with two: when `cleanup` deletes the entry under the first run and
  `sign()` is called again in a turn of the guard, the first run replaces the commitment
  of the coordinator after the simulation; that round then ends without a valid
  transaction.
* `multisig_live`: overlapping runs (`MaxCallers = 2`), and failures of every await.
  Fairness (`FairSpec`): the request a task waits for returns or fails
  (`WF` of its steps), `cleanup` is called again and again by the application and the
  semaphore serves those that wait in order, so it is not passed over for ever (`SF`),
  and turns go on. No message need arrive.

* `dialer`: one peer behind one relay, two messages, one retry, two connections to the
  peer at a time. Two connections are what it takes for a stream to be found on one
  while another closes, and two messages for one to overtake the retry of the other;
  what is kept per peer and per channel makes further ones independent. Two urls and the
  empty one subscribe to the channel, in any order and repeatedly. They do so when no message is
  under way (`SubscribesLate`, an action constraint), which loses no order of subscriptions: nothing
  else reads or writes `subs`. Fairness: the
  event loop runs what is runnable, time-outs fire, dial and newStream return or fail
  (libp2p has time-outs for both), and the network settles at some time; from then
  on libp2p notices dead connections, dials its address book and announces peers. How
  long the network takes, and whatever happens until then, is open.
* `tss_api`: two requests in all (two signings of one message, one after the other or
  overlapping at any statement, or a signing and the key generation), one update under way
  in each, a channel of one message, one message that finds a channel, one kill at any
  point besides every panic. Two requests of one id are what two operations of it
  need, and what an old time-out or an old message needs to meet a later
  operation. Fairness: a goroutine that can run does, a select
  does not pass over a waiting sender for ever and the time-out comes; nothing of the
  party, the other guards or the callbacks, whose HTTP client has no time-out.
  `OneOperationPerMessage` and `Answered` name the ids for which two requests raced
  (`raced`), because for them neither holds (below). `Answered` is about the failure
  that is reported, or the deletion; it names two more exceptions, that the process ended or
  that the operation waits for itself in `CreateParty`.

Every property has a mutant of the code that violates it under its own run.

The clock of `TssSigner` stops at `MaxTime`, and it and `TssApi` are bounded in calls,
operations and restarts (named in the modules), so their behaviours end and their runs
do not check for deadlock; the others do.

## Known divergences

What the models show, or what showed while writing them, beside the two findings that
runs reproduce. None of it is repaired in the models: their actions do what the code
does, and no property claims otherwise.

* The threshold of the signer is -1 until tss-api has answered
  (`packages/tss/lib/tss/tssSigner.ts:72`), and a starter compares with what it has
  (622, 749, the latter before it waits for the mutex), so a guard that never fetched
  it starts with any number of approvals; only the coordinator fetches it (193). The
  signing then fails in tss-api, which counts its parties itself.
* Approvals carry the minor version in what is signed (781), but messages are accepted
  from any minor version (`packages/communication/lib/communicator.ts:23`): guards of
  two minor versions count different approvals of one request.
* What `tss_sign_twice` shows has a consequence for the peers (found with TLC, in `TssSigner`
  with `MaxCalls = 2`): both entries of the message get the same request in one round of
  `update`. The first is posted with guards {1, 2} as peers. When it times out, `cleanup`
  removes it, and a late approval of guard 0 finds the second, which is posted with the
  same request and the peers {0, 1}. So two groups sign under one request, and `StartAgreement`
  fails. It holds whenever `OneEntryPerMessage` does (`AgreementCorrect`).
* The controller of tss-api looks for an operation of the forbidden class in the map of
  the other class (`services/tss-api/api/controller.go:43-77`), so it refuses nothing.
* Two requests for one message at once can both pass the test for a duplicate
  (`services/tss-api/app/rosenTss.go:146-149`, and 90-93 of a key generation), which is
  a comparison and an insertion without a lock. Two operations of one id run then, the first to end
  takes the channel of the other out of the map, the time-out of the other finds nothing (68) and never
  ends it, and when it does end by itself, `deleteInstance` panics.
* A request refused after its channel was inserted (a wrong crypto or derivation path, 160-165, or a
  failed `Init`) leaves it in `ChannelMap` (149), and its message is refused from then on.
* A failed operation is deleted after its callback, and the client that makes it has no
  time-out (`services/tss-api/network/connection.go:46`): with a caller that does not answer the id
  does not come free.
* `CreateParty` sends its errors to the unbuffered channel that only its own goroutine
  receives from (`app/sign/eddsa/eddsa.go:72`): the operation waits for itself, past its
  time-out. This is `stuck` in `TssApi`.
* The goroutine of a time-out looks its id up again when it wakes
  (`app/rosenTss.go:68-72`): an old one can close the channel of a later operation of the
  same id, or panic on an errorCh that was closed. A second sender of an error panics too.
* The request for the key generation is made once per start of the service
  (`keygen-service/src/service/tss.ts`), whether it is accepted or not; and a key file torn
  by a crash blocks key generations until somebody removes it.
* `multiSigHandler.ts:406` and 431: what a coordinator writes after its own awaits can be
  left in the entry when it lost that role meanwhile.
* A sign that times out in the queue, and a `sign()` of a transaction that is signed
  again, leave the promise of their caller unsettled (`tssSigner.ts:146`,
  `multiSigHandler.ts:203`); the sender keeps its cached index when `changePks` changes
  the keys (`communicator.ts:56`); an entry with another coordinator is kept until a
  guard's own turn (`multiSigHandler.ts:808`).

## What is proved

`TssSigner_proofs` proves `TypeCorrect`: an inductive invariant for any number of
guards, messages, versions and any bounds. It says of every variable what it may
hold and, beyond the types, that every position in the queue kept across an await
(by the loop of `update`, a task or a verification) still is a position of it.
`TypeSafe` concludes `TypeOK`.

`TssSafety_proofs` proves `PeersApprovedCorrect`: every peer named to tss-api signed
an approval of exactly that request. The invariant follows an approval from the
message (an approval can be sent only by its guard, and sent messages are never
withdrawn), through the list stored with the entry, which may hold approvals of
older requests too, and the list kept by `handleStartMessage` while it waits for the
mutex, to the peers of the post. It needs the type invariant, and
no assumption on time, delivery, failures or versions.
It proves three more properties of the signer:
* `OnePostedCorrect` (`OnePostedEntry`): the invariant (`FirstPosted`) says that of the entries a guard has
  for one message only the first is ever posted. `getSign` finds the first one, so a task
  that reached a hidden entry would break it; removal by `cleanup` keeps the order.
* `StarterCorrect` (`StarterIsPeer`): the invariant (`PartyInv`) follows the coordinator's own approval,
  which is put in the entry with the request and can be replaced by none, because no
  guard writes to itself; and a start message, whose approvals include those of the guards
  it goes to, to the entries, the waiting tasks and `update()` under way, up to the post.
* `OneRequestCorrect` (`OneRequestPerRound`), under the assumption that no guard is restarted
  (`MaxRestarts = 0`): the invariant (`RoundInv`) ties the requests of a guard to
  `lastUpdateRound` and to the one run of `update()` that got past the comparison with
  it. A restart forgets `lastUpdateRound`, and without the assumption the same round may
  be asked for again with another time.

`TssService_proofs` proves the rest of what the service promises, and the refinement.
`OnlyAskedCorrect` rests on `AskedInv`: every entry and every task that will add one is
for a message asked for, and the request of an entry is for its message, so that an
approval (which needs an entry of the message) and a start (which needs one too) are.
`ResultsCorrect` rests on `SignedInv`: not only cached results and answered callers but
every verification that will succeed and every `cached` message under way is of a
message whose signature exists; signatures exist for ever (`SignedStays`), whatever is
forgotten. Both follow each action through one description of what it does to the
entries (`EntriesKept`, `OkKept`, `OnlySettled`). `ServiceImplemented` then maps every
action to the step of `SigningService` named in the table above, from `AskedInv` (what
is approved or started was wanted), `SignedInv` (what is obtained is signed) and
`PeersApprovedCorrect` (the peers of a start approved it).

`MultiSig_proofs` proves `TypeCorrect` of `MultiSig`. `TypeOK` is inductive: it also
says that the task and the message a later step reads have the parts that step
reads, and that what waits for the semaphore is an `initiateSign`.

It proves four properties from that. `NoOrphanedCaller` and
`CollectedByCoordinator` are inductive beside the type invariant, by what each
action does to the entry of its guard (`InitiateKeeps`, `GenerateKeeps` and the
lemmas on one field). `QuorumAsked` is not: `SafeInv` adds that every proof in an
entry, in a task or under way is of a guard that was asked (a guard proves only
with an entry that has its transaction), that every valid transaction combined,
sent or in verification meets the property already, and that an entry has one
commitment per guard, so that counting commitments, as the code does, counts guards
(`OneEachCounts`, `CombinedSafe`). That a guard was asked is never undone
(`AskedStays`), which carries the rest of the invariant over every step
(`SafeMonotone`). `InitiatesOneRound` is about a moment two awaits after the simulation, so
`RoundInv` says what may happen to the entry meanwhile (`RoundTasks`): it loses the
commitments of the others, by `generateCommitment` or `cleanup`, or keeps all of them,
since those of others are added only under the semaphore. A round that lost
them has too few commitments to be initiated. The commitment of the coordinator is replaced only by a run of `handleMyTurnForTx`
that goes on while its guard is the coordinator already, which needs two runs (`RunsApart`);
a `generateCommitment` of the guard itself never reaches it (`NotToItself`).

`TssAgreement_proofs` proves that all signings of one request have the same peers, in two
halves.
* Everybody follows the coordinator (`StartInv`): a `start` message names the approvals with
  which the coordinator posted, the peers the receiver counts from them are the same
  because a guard counts approvals of its own version only and the receivers
  approved, and so are those the waiting task and the post keep. This half,
  `CoordinatedCorrect`, needs no assumption.
* The coordinator starts once per request (`StartsOnceCorrect`). A request has no number: it
  is its message, its guard and a timestamp. So `ClaimInv` says that an entry that has a
  request, waits for it behind the mutex or is still to be asked for by `update` claims that
  timestamp, that two entries of one message never claim the same one, that a timestamp
  used is one the next round cannot use again (`lastUpdateRound`, or the clock after a
  restart), and that an entry which claims the timestamp of a post is itself marked
  posted. Of two entries of one message this cannot be said unless one knows which
  comes first; `QueueInv` says it of the order of `signAccessMutex`: a `sign` that waits
  before an approval, or behind a request, is not for the same message.

`AgreementCorrect` (`StartAgreement`) joins them. `StartsOnceCorrect` and it assume
`[]OneEntryPerMessage`, what `sign()` tests and fails to ensure for overlapping calls; without it `StartAgreement` is false ("Known divergences"),
so the assumption cannot be dropped. It is no empty one: `SingleCallQueue`
proves `OneEntryPerMessage` for applications that ask at most once for a message
(`MaxCalls <= 1`; `AddedOnce`: a message comes to
the queue by one waiting `sign` or with one entry), from
which `SingleCallAgreement` concludes `StartAgreement` with no other assumption.

`GuardDetection_proofs` proves `TypeCorrect`, `AcceptableCorrect` and
`PeerForwardCorrect`. `AcceptableIsLatest` is inductive once one knows that nobody, no
message included, claims a process that has not been started (`LatestInv`). Every action is
first shown to be a `Step`: a new message is of the present process of its sender, a
nonce just handed out answers no message under way, and a stored peer id stays, is
forgotten, or comes with an approval that uses up all outstanding nonces. The rest
is about steps and not about actions. `PeerNeverGoesBack` follows: what a handler
stores is what was acceptable.

`Dialer_proofs` proves the five safety properties of `Dialer` and its types, for any
number of peers, relays, messages, connections and retries. `LinkInv` adds to
`OneSinkPerStream` that a peer has no stream while dial or newStream is awaited for it
(the loop is the only one that opens streams), and that there are no more connections
than `MaxConns`, so that a fresh id can always be found. `QueueInv` says where messages
are: the loop holds one taken off the queue (`Held`), no two places hold the same
(`Apart`), and failures and fate of each fit the retries it has left (`Accounted`).
`ListedOnce` is `CalledBackOnce` said of the list and not of a cardinality.

`TssApi_proofs` proves `TypeCorrect`, `OneOperationCorrect` and `ReportedKeyCorrect`.
`OpInv` adds to `OneOperationPerMessage` the types, that the goroutines counted are there
(`Counted`), that nothing of an operation is left after the process ended
(`EndedIsEmpty`), and `AloneAtTest`: a request that has passed the test of an id and not yet inserted
its channel is the only one, and no channel of the id is in the map, unless the id has
raced. It is what makes the insertion safe, and it is lost by
nothing but a second request in between. Steps are
grouped by what they do to an operation and its channel (`StepKinds`: turns, advances, relays,
deletions). `KeyInv`: there is one key generation ever, when it has stored the key the file is
whole, and once its caller was told nothing opens the file again.

The assumptions on constants are named in the modules (`ConstantsAssumption`).
Only model-checked: the liveness properties (`QueueDrains`, `MutexReleased`, `Converge`,
`EveryMessageSettles`, `SentWhenQuiet`, `Reconnects`, `Answered`), which
are out of the reach of the prover. Every safety property of the passing runs is a theorem.

## Not modelled, and what is left

* `TssSigner` composed with `TssApi` and `Dialer`: the signer already allows every result
  and every failure, loss, delay and repetition that the two models can produce, so a
  composition would only restrict it.
* `MultiSig`: several transactions at once, `handlePublicKeysChange`, versions.

Encryption and the threshold rounds of the Go library are not modelled: they hold no
state the protocol depends on, or are third-party code. Neither are HTTP plumbing, meta
data and configuration.
