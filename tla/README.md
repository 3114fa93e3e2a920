# A formal model of The Invisible Billion

The Invisible Billion (`ib`, also `pollen`) is a messenger without servers. Every
machine runs a daemon (`src/src/daemon/index.js`) that announces itself on the local
network, keeps messages in SQLite, delivers them directly when it can, and otherwise
hands encrypted copies to every peer it meets. This directory models the daemons in
TLA+, checks the models with TLC and proves the most important results with TLAPS.

Paths below are relative to `src/src/` (the repository's own `src/` directory) unless
they start with `src/`.

## 1. Inventory

| Component | State | Operations | Hard behaviour |
|---|---|---|---|
| Message store (`db/messages.js`, `db/cleanup.js`) | `messages`: status, hop count, payload, ttl | insert, upsert, four SELECTs, status updates, bulk encryption, cleanup | six callers decide by `status` alone what may leave the machine; the cleanup runs at any moment |
| Incoming messages (`handleIncomingMessage`) | store, `inbox.log` | relay branch, guards, duplicate check, decrypt, store, inbox, acknowledge | duplicates over all paths; failure between two of its statements |
| Direct delivery (`attemptDelivery`) | store; one promise per attempt | mark, TCP, UDP fallback, settle or revert | two awaits; attempts for one message overlap; addresses go stale in between |
| Epidemic forwarding (`daemon/epidemic.js`) | none of its own | `forwardMessages`, `sendAck` | termination, hop limit, plaintext |
| Sweeps and timers (`index.js`) | timers | startup 2 s, retry 30 s, epidemic 45 s, stale peers 20 s, cleanup 1 h | overlap with each other and with `ib sync` |
| `ib send`, `ib sync` (`cli/commands`, `handleCommand`) | request under way | key lookup, submission, sweep | lookup and submission are two requests |
| Discovery (`daemon/udp.js`, peers queries) | `peers`: key, address, last seen | announce, goodbye, stale, clear, forget | no ordering, loss; reused addresses; heartbeats of 15 s against a sweep of 20 s; key discovery writes to the same rows |
| Network watcher (`daemon/network.js`) | last fingerprint | 4 s poll | a network that hands out the same address |
| TCP (`daemon/tcp.js`), UDP transport | sockets | frames, acknowledgement, timeouts | late, repeated and misdirected frames |
| Key discovery (`daemon/keyDiscovery.js`) | pending rows, peers | flood `key_req`, answer, relay `key_res` | flooding in rings; `key_res` has no limit; UDP makes messages of key frames |
| Routing engine (`routing/engine.js`) | scores | encounter, decay, transitivity, decision | reads that write; scores passed round; an exchange the receiver rejects |
| Lifecycle (`cli/commands/start.js`, `stop`, `shutdown`) | PID file, socket | start, stop, restart | races on two files; reused PIDs; a shutdown that waits for its clients |
| IPC (`cli/ipc.js`) | one socket per command | request, timeout, answer | 5 s against an 8 s delivery attempt |
| Crypto, identity, schema, printing commands | files | – | none that a state machine shows |

How they interact: the CLI talks to its own daemon over a local socket only. Inside a
daemon JavaScript runs one callback at a time and `better-sqlite3` is synchronous, so
callbacks exclude each other and what is shared between them is the database. Daemons
talk by TCP frames (`deliver` and `relay`, each acknowledged), UDP datagrams (announce,
goodbye, and the two frames again as a fallback), and the control frames `key_req`,
`key_res` and `rt-exchange`.

What makes each part correct:

- store: an id has one row; encrypting is one step for status and payload; cleanup
  never forgets what a late copy still needs;
- incoming: once in the inbox, never before it was sent; acknowledged only after that;
- delivery: rows in transit have an owner; every sealed message arrives on a network
  that works; what is called delivered was received;
- forwarding: stops, within the hop limit, with nothing of a user's readable in it;
- discovery: wrong addresses do not last, and whoever is there can be reached;
- key discovery: a message that waits for a key is encrypted, with the right one, when
  the key can be had; the search for it ends;
- routing engine: a score is in range and goes back to an encounter;
- lifecycle: one daemon per user; `ib start` is idempotent, `ib stop` leaves nothing.

## 2. Modules

| Module | Contents |
|---|---|
| `MessageStore` | the `messages` table as a function from ids to rows; each SQL statement is an operator on tables |
| `Mailbox` | abstract specification: messages are sent, and arrive at most once |
| `DataPlane` | all daemons, their tables, attempts and timers, the network, crashes, moves and time; properties; refinement of `Mailbox` and of `KeyService` |
| `KeyService` | abstract specification of what key discovery promises the data plane |
| `KeyDiscovery` | `key_req` and `key_res` on any network of acquaintances; refinement of `KeyService` |
| `Contacts` | the peers table of one daemon in real time: `last_seen`, heartbeats, sweep, cleanup, restarts |
| `RoutingEngine` | the scores of all daemons, encounters, decay, exchange, decision |
| `Lifecycle` | the processes of one user and the two files they meet at |
| `MCDataPlane`, `MCKeyDiscovery`, `MCContacts`, `MCRoutingEngine`, `MCLifecycle` | constants for TLC |
| `DataPlaneProofs`, `MailboxProofs`, `FootprintProofs`, `DeliveryProofs` | theorems about `DataPlane`; each extends the one before |
| `KeyDiscoveryProofs`, `ContactsProofs`, `RoutingEngineProofs`, `LifecycleProofs` | theorems about the other modules |

`DataPlane` extends `MessageStore` and instantiates `Mailbox` with
`sent <- Sent` (submitted messages) and `arrived <- inbox`. `KeyDiscovery` instantiates
`KeyService` with `known <- Known` (whose own key is stored under their name) and
`around <- net.meets` (who may be heard), and so does `DataPlane`, with
`pending <- Waiting` (recipients of rows that wait for a key) and everybody around. What one
module provides is thus what the other uses: `DataPlane!KeyResponse` is `Answer`, for an
identity that was asked for, at any time or never, encrypting all that waits; `Hear` is
`Meet`, after which what waits keeps waiting; `SendPending` is `Ask`. `KeyDiscovery` has no
cleanup and no ttl of messages; `DataPlane` has, and a `Forgetful` service allows for them
(`Forget`, `GiveUp`). `Contacts` refines in the same spirit, without a formal mapping, what
`DataPlane` does with addresses when it lets `Silence` take them away.

### State and code

| Variable | Code |
|---|---|
| **`DataPlane`** | |
| `store[n]` | table `messages` of daemon n (sender and recipient are functions of the id) |
| `peers[n]` | table `peers`: no row, a row with `ip NULL`, or an address |
| `tasks[n]` | calls of `attemptDelivery` past their first await, with the await they are in |
| `sweepDue[n]` | a `setTimeout(startupDeliverySweep, 2000)` that has not fired |
| `watched[n]` | `currentFingerprint` |
| `asked[n]` | identities a `key_req` was flooded for |
| `up[n]`, `place[n]` | process, network and address of the machine |
| `wire` | frames sent and not yet handled |
| `inbox[m]` | entries of m in the recipient's `inbox.log` |
| `cli[m]` | how far `ib send` is |
| `age[id]`, `faults`, `moves` | clock and bounds |
| **`KeyDiscovery`** | |
| `keys[n]`, `near[n]` | table `peers`: `public_key`; rows with an address |
| `pending[n]`, `sealed[n]` | recipients of `__pending_encryption` rows; recipient and key of encrypted ones |
| `asked[n]`, `wire`, `todo` | requests made; frames under way; what users will send |
| `net` | who has met whom, which links refuse TCP, whether frames get lost; constant |
| **`Contacts`** | |
| `row[p]` | `last_seen`, as an age, and `ip` of the row for p |
| `sweepIn`, `up` | the stale-peer interval; is the daemon running |
| `where[p]`, `beat[p]` | where p is; time to its next announcement |
| `heard[p]`, `answers[p]`, `missed[p]`, `steady[p]` | history, for the properties: time since p was heard, key responses and lost heartbeats since; time in earshot without a loss |
| **`RoutingEngine`** | |
| `scores[n][p][t]` | row (p, t) of `predictability_scores` at n; score 0 stands for no row |
| `wire`, `clock` | `rt-exchange` frames; time |
| `met`, `gap` | history, for the properties: last encounter, longest gap between two |
| `frameId` | has the message of an `rt-exchange` frame an id? |
| **`Lifecycle`** | |
| `proc[d]` | how far daemon process d is: spawned, PID written, socket cleared, serving, closing, closed, dead |
| `pidFile`, `sockFile` | whose PID is in `daemon.pid`; whose socket `daemon.sock` leads to |
| `held` | daemons with a client that waits for its answer |
| `cmd[s]` | how far `ib start` number s is |
| `stops`, `crashes`, `races` | bounds |

### Actions and code

| Actions | Code |
|---|---|
| **`DataPlane`** | |
| `CliLookup`; `SendToSelf`, `SendPending`, `SendSealed` | `send.js`; the `send` case of `handleCommand` |
| `TcpServe`, `TcpRefuse`, `TcpFail`, `AttemptSucceeds`, `AttemptFails` | the continuations of `attemptDelivery` with `processFrame` on the other side |
| `ReceiveFrame` (`Relay`, `Deliver`), `LoseFrame` | `handleIncomingMessage` from either transport |
| `RetrySweep`, `StartupSweep`, `EpidemicSweep`, `HourlyCleanup`, `Sync` | the timers and the `sync` case |
| `Hear`, `Silence` | `onPeer` (as far as it gets); `onPeerGoodbye` and the stale-peer timer |
| `KeyResponse` | `onKeyResponse`, addressed to this daemon |
| `WatcherTick` | network watcher callback |
| `Crash`, `Restart`, `Move`, `Expire`, `GrowAncient` | environment; start-up code |
| **`KeyDiscovery`** | |
| `Send`, `Meet` | `ib send` with `floodKeyRequest`; `onPeer` |
| `HandleKeyRequest` | `handleKeyRequest`: drop, answer or ask the others |
| `HandleKeyResponse`, `RelayKeyResponse` | `onKeyResponse` for this daemon, and for another |
| `FallBack` | TCP fails and `sendDirectMessage` makes a relay frame of the packet; or the ttl is over |
| **`Contacts`** | |
| `Hear`, `Goodbye`, `KeyResponse` | `onPeer`, `onPeerGoodbye`, `upsertPeer` in `handleKeyResponse` |
| `StalePeers`, `HourlyCleanup`, `NetworkChange`, `Stop`, `Start` | the timers, the watcher's callback, shutdown and start-up |
| `Arrive`, `Leave`, `Miss`, `Tick` | the peer, the network, the clock |
| **`RoutingEngine`** | |
| `Hear` | `onPeer`: `recordEncounter`, `getMyRoutingTable`, `rt-exchange` |
| `Receive`, `Lose` | `processFrame`, `updateTransitivity`; a send that fails |
| `ShouldForwardMessage` | the decision, which writes back what it reads; `ShouldForward` is its answer |
| **`Lifecycle`** | |
| `StartCommand`, `CleanStalePid`, `CheckPidFile`, `Ping`, `UnlinkPid`, `Spawn`, `WaitForDaemon` | `startCommand`, a step for each look at, or change of, a file or process |
| `WritePid`, `ClearSocket`, `Listen`, `ListenFails` | the daemon's start-up |
| `StopCommand`, `SigTerm`, `CloseServer`, `Exit` | `shutdown`: at once, after 200 ms, when the last connection is closed |
| `HoldConnection`, `EndConnection` | `sendCommand` and its 5 s |
| `Crash` | environment |

Operators with a comment that begins "Changed:" are not part of any specification.
Each is a definition with a plausible mistake in it; substituting it must break the
property named for it in `PROJECT.json`, which shows that the property depends on that
line of the code.

### What is abstracted

- A payload is `plain` or `sealed`; `KeyDiscovery` adds for whose key. Identities keep
  their keys, so nothing is undecryptable.
- Frames sent by `forwardMessages` are fire and forget: no statement of the sender
  depends on their fate, so TCP and the fallback are one set, `wire`. A frame sent twice
  before it is handled is one element; with `Lossy` a frame may also stay after it was
  handled, which is what the retransmission by UDP does. The same holds of key frames,
  whose ids nobody compares.
- The routing engine in `DataPlane`: `shouldForwardMessage` is always true below ten hops
  (its last rule) and for the destination; beyond, the model takes either answer.
- Time: every timer of `DataPlane` may fire at any moment. `Silence` needs the two daemons
  out of earshot there; `Contacts` shows what heartbeats lost in between do. The
  five-minute window of `getActivePeers` adds nothing because an address is dropped after
  45 seconds. A stop with a goodbye is a `Crash` and then a `Silence` of each peer.
- `Contacts` counts in units that the constants choose: 5 s in the run, anything down to the
  code's milliseconds in the proofs. Time passes only when no timer is due, and what
  happens within a unit happens in any order. No period is exact: the next heartbeat arrives,
  and the next sweep runs, up to `Jitter` before or after its time, which stands for timers
  that fire late and drift and for datagrams that are longer or shorter under way.
  What is left out is an announcement with an old address that is overtaken by the one with
  the new address.
- `KeyDiscovery!Send` is the lookup of the key and the submission in one step; `DataPlane`,
  which has the answer racing them, keeps `CliLookup` and the submission apart.
- `KeyDiscovery` keeps addresses once they are known, and a packet's ttl of a few seconds
  runs out only in lossy networks.
- Scores are integers from 0 to `Scale`, rounded up where they decay so that a positive
  score stays positive, as a double does. The exponential functions of the average are
  arrays given by the configuration; the proof makes no use of their values.
- In `Lifecycle` a path leads to the process that bound it last, and closing a listening
  server unlinks its path, as libuv does. Two `unlinkSync` calls that meet within one
  `existsSync` test are not told apart from one.
- Failure inside `handleIncomingMessage`: the insert of the row, the append to the inbox or
  the insert of the acknowledgement throws, and the frame is acknowledged all the same
  (`index.js:232`); a process that dies there is the same followed by `Crash`.
- The hop count of an update of an existing row, the ttl tests of each SELECT and the
  status tests are kept as they are in SQL.

## 3. Runs

Deadlock is an error in `Contacts` only, where time never stops. The other systems may
come to rest: every message settled, every frame handled, every process ended.

| Run | Instance and bounds | Shows |
|---|---|---|
| `Lan` | sender, relay, recipient on one reliable network; hop limit 3 | `SealedArrives`, `SenderLearns`, `SettlesDown` under `DeliverySpec`; `DeliveredMeansReceived` and `QueuedUntilReceived` hold as long as addresses are right |
| `Retries` | 2 nodes, lossy, two overlapping attempts per message | `AtMostOnce`, `MailboxKept` |
| `Expiry` | 2 nodes, a message to oneself and a mortal one, cleanups at any time, one fault | `AckOnlyAfterInbox`, `InboxRemembered` (the invariant of the proofs), `IntransitOwned`, `MailboxKept` |
| `Roaming` | two networks, overlapping addresses, unknown key, a relay that moves twice; hop limit 2 | `HopDiscipline`, `UserPlaintextStaysHome`, `ServiceUsed` (keys are used as `KeyService` has them) |
| `Chain` | 5 nodes, recipient away, hop limit 2, engine undecided at 2 hops | `TypeOK`, `HopDiscipline`, `BurstsDieOut` |
| `KeyDiscovery` | 13 networks of up to 5 daemons, hop limit 3 | requests and answers find each other (`AnswersArrive`), requests stop everywhere (`RequestsDieOut`), answers stop unless there is a ring without the requester (`AnswersStayInRings`); `SealedForRecipient`, `KeysComeByTcp`, `ServiceKept` |
| `Contacts` | 1 peer, 2 addresses, the code's intervals, each up to 5 s off, the hour shortened to 95 s | `AddressesExpire`, `PresentIsReachable`, `SweepSparesTheLiving` (the sweep takes a peer in earshot only after two heartbeats in a row were lost) |
| `Lifecycle` | 3 starts, 3 processes, 1 stop, 2 crashes, 1 race | `SoleDaemon`, `StartServes`, `StopCleans`, `StartsServe` |
| `RoutingEngine` | 3 daemons, 3 encounters, hours 0 to 2, symmetric, tables rejected and accepted | `TypeOK` (every score and average in range), `HearsayHasSource`, `AverageWithinGaps`, `OnlyStrangersCarryOn` |
| `FalseDelivery` | the recipient leaves once | `DeliveredMeansReceived` fails |
| `Undelivered` | lossy, one message | `DeliveredKept` fails |
| `KeyStorm` | three daemons that know each other, and the requester beyond | `AnswersDieOut` fails |

Why the bounds are enough for the questions asked.

*Data plane.* The properties speak of one message at a time and messages share nothing
but the timers (each row has its own id, each sweep treats rows independently), so one
user's message and its acknowledgement per run suffice, and two where a message to oneself
is one of them. Duplicates need two copies under way: `MaxTries = 2` with a lossy wire
gives up to two attempts, their UDP repeats and the relayed copy. The hop limit is 20 in
the code; the models use 1 to 3, the smallest that still let a message be relayed, relayed
again and stopped. Two moves let a relay fetch a message and bring it. One fault is a
half-done delivery or a crash; loss and faults together are more than TLC finishes in
minutes, and the proofs cover them. `MaxTries` is a bound of the model, not of the code:
with it reached, an action that would start another attempt waits. Nothing else limits
the actions.

*Key discovery.* The networks are picked so that each has its own way of going wrong: the
key exactly as far away as the limit and one farther; two requesters at once; rings with
the key inside, outside and nowhere, a triangle among them that keeps a storm of answers
going; two messages and an announcement racing the answer; firewalls
between neighbours, one-sided ones among them; losses; nobody to ask. Requests do not depend on each other, so one or two
senders suffice.

*Contacts.* Rows of different peers share nothing but the timers, so one peer is enough
for all. The shortened hour is still above every other interval, and only comparisons
with it matter; ages are not told apart from `Old` on, which is larger than any of them.
With `Jitter = 1` heartbeats arrive 10 to 20 s apart and sweeps run 15 to 25 s apart, so the
third heartbeat after the last one heard may come before or after the 45 s are over.

`HopDiscipline` is checked twice: in `Roaming` across moves, where no copy reaches the limit, and
in `Chain`, where copies do.

*Routing engine.* Two hours let an average be formed from two different gaps and a score
decay twice; three encounters let hearsay go round once. `FrameIds = {FALSE, TRUE}` checks
the engine both as the code runs it (`FALSE`: the frame is rejected) and as it would run
if the receiver accepted the frame (`TRUE`). `OnlyStrangersCarryOn` is about the former;
`HearsayHasSource` says something only of the latter, since there is no hearsay in the former.

*Lifecycle.* A start that meets what a crash left, during another start, needs three
commands and three processes. The properties that only hold without races say so by
`Raced`; with `MaxCrashes = 1` and `MaxRaces = 2` (164,562 states) they hold as well.

### Fairness

`DeliveryFairness` is weak fairness of the retry, startup and epidemic sweeps
(`setInterval`/`setTimeout`), of the continuations of an attempt (every socket has an 8 s
timeout, `tcp.js:178`) and of frames on the wire (handled or lost). Users, moves, crashes,
restarts, cleanup and answers to key requests have no fairness. `BurstsDieOut` assumes only
that frames are handled.

On a reliable network (`Lossy = FALSE`) weak fairness is enough for `SealedArrives`; with
unlimited loss it would need strong fairness of a successful attempt, which no code
promises, so no run claims it.

`KeyDiscovery!FairSpec` is weak fairness of every daemon's handling of the requests, and
of the answers, that reach it: a transfer is served or given up after 8 s. One condition
for both kinds would not do, since a storm of answers could then starve the requests, which
an event loop that takes frames in turn does not let happen.

`Lifecycle!FairSpec` is weak fairness of the commands, of the daemon processes (each takes
finitely many steps) and of the end of every connection, after at most the client's 5 s
(`ipc.js:41`). Crashes, signals and users have none.

`Contacts` and `RoutingEngine` have no liveness: what `Contacts` promises has deadlines, and
is stated as invariants on ages.

## 4. Disagreements found

1. **False delivery** (`FalseDelivery`). The UDP fallback treats the return of the local
   `send` as delivery (`udp.js:131-138`), and a daemon at a reused address answers
   `ok: true` for a frame it ignores (`index.js:165-168`, `tcp.js:99-100`). The sender's
   row becomes `delivered` and is never retried. The guide says "Recipient got it".
2. **Confirmed rows come back** (`Undelivered`). `index.js:321` reverts the row without
   looking at it; a message confirmed meanwhile is queued again, and deleted at its ttl.
3. **Answers spread for ever** (`KeyStorm`). `index.js:460-468` passes a `key_res` for
   somebody else on without looking at its ttl or hop count. `RequestsDieOut` and
   `AnswersStayInRings` say exactly what does stop.
4. **Key frames do not survive UDP** (`KeysComeByTcp`). `udp.js:122` calls every frame that
   is not `deliver` a relay frame. A group of daemons that TCP requests cannot leave, or TCP
   answers cannot enter, has no keys but those of the daemons one of them has met.
5. **Plaintext acknowledgement.** `epidemic.js:115` queues a plaintext payload under
   `undelivered`. The guide says "Plaintext is never transmitted".
   `UserPlaintextStaysHome` is therefore stated for users' messages only.
6. **Pending for ever.** `index.js:353` uses `getPeerPublicKey` without importing it;
   `udp.js:226` swallows the ReferenceError. Pending messages are not encrypted, queued
   ones not delivered, and bundles not forwarded when a peer is heard; only the sweeps do
   the latter two, and nothing the first. `KeyService!Meet` says so.
7. **Routing tables are rejected** (`OnlyStrangersCarryOn`). `tcp.js:90` wants an id that the
   message of `rt-exchange` does not have. Nobody learns another's scores, and a message of
   ten hops is carried on only by those who have never met its destination.
8. **The average is not of the gaps** (`AverageWithinGaps`). It is taken from
   `last_updated`, which reads move as well (`engine.js:237`), and the first encounter counts
   as a gap of 0; real gaps bound it from above only. `recordEncounter` likewise starts
   from the score as last written, not as decayed (`engine.js:232`).
9. **A goodbye does not show** (`PresentIsReachable`). It clears the address but `ib scan`
   goes by `last_seen` and shows the peer online for 45 s more.
10. **The hourly cleanup deletes keys** (`cleanup.js:30`) that the comment of
    `markPeerOffline` wants kept.
11. **Starts and stops race** (`SoleDaemon`, `StopCleans`). Two starts at once leave two
    daemons, or a PID file that names a process that has exited; `ib stop && ib start` finds
    the old daemon still answering and starts none; a daemon kept alive by a client
    removes its successor's files.

## 5. Proofs

Assumptions: the named assumptions on the constants of each module, i.e. their types, a
hop limit of at least 1, no two machines with the same place at the start, no daemon
listing itself as a peer, and in `Contacts` that two heartbeats, as late as `Jitter` allows,
fit into the threshold for stale peers (in milliseconds, 45000 >= 2 * (15000 + `Jitter`)).
Nothing is assumed about finiteness.

**`TypeCorrect`** (`DataPlaneProofs`): `Spec => []TypeOK`, one lemma per group of
actions. It is inductive as it stands. Its content is mostly in the numbers: a row
never exceeds the hop limit and a frame never reaches it, because `getAllPending` selects
`hop_count < 20` and the receiver adds one.

**`RememberedAlways`** (`MailboxProofs`): `Spec => []InboxRemembered`. "At most once" is
not inductive: a copy on the wire may arrive at a daemon whose row is gone. The
strengthening says why that cannot hurt. If a message is in the inbox, the recipient's
row says `delivered` or the message is thirty days old (`ArrivalsMarked`); frames and
attempts exist only for messages that were submitted and are not that old
(`FramesCurrent`, `AttemptsCurrent`); rows exist only for submitted ones (`RowsStarted`);
and, since a failing attempt overwrites any status, no daemon may attempt a message
addressed to itself (`AttemptsCurrent`), which holds because a daemon never has an
address for itself (`NoSelfAddress`: `udp.js` ignores its own announcements). The
assumption built into the model is `GrowAncient`: three weeks after the ttl no copy is
under way. `cleanExpired` deletes delivered rows only after that.

**`NeverTwice`**: `Spec => []AtMostOnce`, from `ArrivalsMarked`.

**`ImplementsMailbox`**: `Spec => MailboxKept`. The initial states map to initial states,
and each step is `Send`, `Arrive`, `SendAndArrive` (a message to oneself) or leaves
`Sent` and `inbox` alone. Each lemma of the invariant proves both facts for its group.

**`HopsCounted`, `OwnedAlways`, `AcksAreEarned`, `PlaintextHome`** (`FootprintProofs`) rest
on one lemma, `StepFootprint`. It says for all actions together what a step may do: a row
is kept, removed after its ttl, typed, written as an acknowledgement, arrived, relayed,
settled, or queued and attempted, each with the conditions under which the code does it; a
new frame holds what an attempt or a pending row holds; a new attempt has its row in
transit, and an attempt that is gone has settled it or its daemon died; the inbox grows
only by what was in flight. The invariants are then proved from these cases and not from
two dozen actions:

- `HopDiscipline`, `IntransitOwned` and `AckOnlyAfterInbox` are inductive with `TypeOK`, given
  the footprint: an acknowledgement, for one, is written only together with, or after, the
  inbox entry, every copy of it comes from a row, an attempt or a frame, and the inbox never
  shrinks.
- `UserPlaintextStaysHome` is not: if a copy of a plaintext message were under way, its
  arrival would change the plaintext row's status. The invariant `Sealed` therefore says that
  a message in plaintext is alone: its one row waits at its sender, no frame, attempt or
  other row of it exists, and it is not in the inbox. That needs `InboxRemembered` (nothing
  comes back) and `AckOnlyAfterInbox` (no acknowledgement can settle it).

**`DeliveredIsTrue`, `QueuedAlways`** (`DeliveryProofs`). `DeliveredMeansReceived` and
`QueuedUntilReceived` are false in general, as `FalseDelivery` shows. Both theorems assume
`Stationary`: no losses, crashes or moves, and addresses known at the start that are right.
It is what the run `Lan` configures, here for any number of daemons, networks, messages and
attempts. The invariant `Truthful` says that addresses stay right, so every attempt
is at its message's destination, and one that was acknowledged has its message in the
inbox. Each condition is needed: a loss is followed by the UDP fallback, a move or a wrong
address lets somebody else answer, and a fault leaves an acknowledged frame without an inbox
entry. `QueuedAlways` also assumes that no ttl ends (`Mortal = {}`), because `cleanExpired`
deletes queued rows after it.

**`ImplementsKeyService`** (`DeliveryProofs`): `Spec => ServiceUsed`, without those
conditions. By `Sealed`, what waits for a key has no other copy, so neither an arrival nor
an acknowledgement can change its row; sweeps do not select it, and the reset looks at
`intransit` rows only. What remains is the `key_res` for its recipient (`ResponseAnswers`)
and its ttl (`TimeGivesUp`).

`KeyDiscoveryProofs` and `ContactsProofs` also state `TypeCorrect`, a part of their invariants.

**`SealedAlways`** (`KeyDiscoveryProofs`): `Spec => []SealedForRecipient`. The invariant
adds that every key in a table and in every answer under way is the one of the identity it
is filed under, and that every packet under way is about something its requester asked for.
**`ImplementsService`** uses the same invariant for the step that stores an answer: it is
the abstract `Answer`, or a stutter, because the key was asked for and is the right one.

**`KeysByTcpAlways`**: `Spec => []KeysComeByTcp`. The invariant `Walled` follows the packets: a
request of somebody in a group that requests cannot leave is only ever sent from inside the
group (`RequestsInside`), an answer sent from inside a group that answers cannot enter is
about somebody the group has met (`AnswersInside`), and addresses belong to daemons that
were met.

**`AddressesExpireAlways`, `PresentIsReachableAlways`, `SweepSparesAlways`**
(`ContactsProofs`), for all intervals that satisfy the assumption. The invariant relates
ages whose differences the clock does not change: a row was seen no longer ago than its
peer was heard; age and time to the next sweep add up to at most what answers allow; time
since a peer was heard plus time to its next heartbeat is at most (missed + 1) `Interval`s,
an `Interval` being the longest time between two heartbeats; and a peer in earshot for an
`Interval` has been heard since. `SweepSparesAlways` speaks of two lost heartbeats and not of
the "3 missed" of `index.js:559`: the third is due just when the 45 s end, and if it is a few
milliseconds late a sweep may come first. With one lost, everything else may be late by 7.5 s.

**`SourcedAlways`** (`RoutingEngineProofs`): `Spec => []HearsayHasSource`, with rows and
frames in one invariant: a positive score in either has an encounter with its target.
**`EngineTypeCorrect`** adds that no row counts more encounters than there were, in a table
or on the wire (`Recorded`); the rest is arithmetic: raising, decaying and learning
keep a score within `0..Scale`. **`AveragesWithin`** needs `OwnRows`: a row was written after
the last encounter, so what is averaged in is at most the real gap. **`StrangersCarryOn`**
needs `Strangers`: while tables are rejected, a score is zero exactly when the daemon was
never met, which rests on decay never reaching zero.

**`SoleDaemonAlways`** (`LifecycleProofs`): `Spec => []SoleDaemon`. The invariant `Orderly`
holds until commands race: one daemon lives and one start is active; a start that still
decides looks at a daemon that serves or at none; once it has decided to spawn one, none
lives; and from the moment a daemon has written its PID the file names it, as the socket
does from `listen` to the end of service. A crash may come at every point, and a reused PID
may make a start believe in a dead daemon. **`LifecycleTypeCorrect`** is the type invariant.

Only model-checked is liveness: `SealedArrives`, `SenderLearns`, `SettlesDown`,
`BurstsDieOut`, `AnswersArrive`, `RequestsDieOut`, `AnswersStayInRings`, `StartServes`,
`StopCleans` and `StartsServe`. Liveness under fairness and `ENABLED` are outside what the
prover handles. `DeliveredMeansReceived` and `QueuedUntilReceived` are proved under the
conditions above only; without them the first is one of the findings.

## 6. Not modelled, and the plan

Not modelled: encryption itself, identity set-up, the schema, printing commands, splitting
of streams into lines, the promise in `sendMessage` and `sendCommand` that settles once (all
its callbacks test one local flag), Windows pipes, a PID file cut short by a crash, two
`unlinkSync` calls on one file at start-up, a suspended laptop whose timers are all overdue,
and addresses that change while keys are being asked for. Payloads that cannot be decrypted
do not occur because identities keep their keys.

Plan: every invariant and every refinement that a run checks is now a theorem. What a
proof could still add is safety around the liveness properties: that `wire` in `BurstsDieOut`
shrinks in some well-founded order (which frames a relayed message may still cause), that
an answer to a request stays within the component of its requester, and the safety part
of `StopCleans` (a daemon that leaves without a race removes its own files, no others).
