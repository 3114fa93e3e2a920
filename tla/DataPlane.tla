------------------------------ MODULE DataPlane ------------------------------
(***************************************************************************)
(* The data plane of the daemons: how a message gets from the sender's     *)
(* message table into the recipient's inbox, and its acknowledgement back. *)
(*                                                                         *)
(* Every node runs daemon/index.js, daemon/epidemic.js and the transports  *)
(* daemon/tcp.js and daemon/udp.js over its own `messages` and `peers`     *)
(* tables.  JavaScript runs one callback at a time and the SQLite calls    *)
(* are synchronous, so a callback is one action; what another callback can *)
(* get in between is what an `await` separates, and there the code is cut  *)
(* in two actions.  The one function cut that way is attemptDelivery: its  *)
(* continuations are the records of `tasks`.                               *)
(*                                                                         *)
(* Frames forwarded by forwardMessages are fire and forget: nothing in the *)
(* sender depends on how a relay frame ends, so a relay frame is on the    *)
(* wire from the moment it is sent until it is handled or lost, whether    *)
(* TCP or the UDP fallback carries it.                                     *)
(***************************************************************************)
EXTENDS MessageStore, FiniteSets

CONSTANTS
    Net,          \* local networks
    Ip,           \* IPv4 addresses; the same ones are used in every network
    Home,         \* [Node -> place], where every node starts
    Known,        \* [Node -> [Node -> address, "no ip" or "no peer"]], the first peers tables
    CarrierHops,  \* 10 in the code: below it the routing engine never declines
    Lossy,        \* may transfers between connected nodes fail, or repeat?
    Mortal,       \* ids whose ttl may pass
    Hours,        \* may a silence last the hour after which a peer is forgotten?
    Mobile,       \* nodes that change network
    MaxTries,     \* bound: attempts of one node under way for one id
    MaxFaults,    \* bound: crashes and half-done deliveries, in total
    MaxMoves      \* bound: changes of network, in total

NoPeer  == "no peer"    \* no row in the peers table, so no public key either
NoIp    == "no ip"      \* a row whose ip is NULL
Offline == <<"offline", "offline">>
Place   == (Net \X Ip) \cup {Offline}

ASSUME DataPlaneAssumption ==
    /\ NoPeer \notin Ip /\ NoIp \notin Ip
    /\ "offline" \notin Net /\ "offline" \notin Ip
    /\ Home \in [Node -> Place]
    /\ \A n, q \in Node : n # q /\ Home[n] # Offline => Home[n] # Home[q]
    /\ Known \in [Node -> [Node -> Ip \cup {NoIp, NoPeer}]]
    /\ \A n \in Node : Known[n][n] = NoPeer
    /\ CarrierHops \in Nat
    /\ Lossy \in BOOLEAN
    /\ Mortal \subseteq Id /\ Hours \in BOOLEAN /\ Mobile \subseteq Node
    /\ MaxTries \in Nat \ {0} /\ MaxFaults \in Nat /\ MaxMoves \in Nat

VARIABLES
    store,     \* [Node -> Table], the messages tables
    peers,     \* [Node -> [Node -> address, NoIp or NoPeer]], the peers tables
    tasks,     \* [Node -> set of Task], attemptDelivery calls under way
    sweepDue,  \* [Node -> BOOLEAN], a two-second startupDeliverySweep timer runs
    watched,   \* [Node -> address], the fingerprint the network watcher saw last
    asked,     \* [Node -> set of Node], keys a key_req was flooded for
    up,        \* [Node -> BOOLEAN], the daemon runs
    place,     \* [Node -> Place], network and address of the machine
    wire,      \* set of Frame, on their way or in the receiver's socket buffer
    inbox,     \* [Msg -> Nat], entries in the recipient's inbox.log
    cli,       \* [Msg -> CliState], where `ib send` is
    age,       \* [Id -> Age]
    faults,    \* faults so far
    moves      \* changes of network so far

vars == <<store, peers, tasks, sweepDue, watched, asked, up, place, wire,
          inbox, cli, age, faults, moves>>

CliState == {"new", "sealed", "plain", "sent"}
Age      == {"live", "expired", "ancient"}   \* within ttl, past it, thirty days old
Stage    == {"connecting", "acked", "nacked", "udpsent", "failed"}
Address  == Ip \cup {"offline"}

Task  == [id : Id, try : 1..MaxTries, net : Net \cup {"offline"}, ip : Ip,
          hop : 0..(HopLimit - 1), stage : Stage]
Frame == [type : {"deliver", "relay"}, net : Net, to : Ip, src : Ip, id : Id,
          hop : 0..(HopLimit - 1), payload : Payload]

NetOf(n) == place[n][1]
IpOf(n)  == place[n][2]

Live == {id \in Id : age[id] = "live"}

(* The daemons that the address reaches from inside the network. *)
Listeners(net, ip) == {q \in Node : up[q] /\ place[q] = <<net, ip>>}

(* n hears what p broadcasts. *)
Audible(n, p) ==
    /\ n # p /\ up[n] /\ up[p]
    /\ place[n] # Offline /\ place[p] # Offline /\ NetOf(n) = NetOf(p)

(* getActivePeers().filter(p => p.ip): an address is dropped after 45        *)
(* seconds of silence, so the five minutes of the query add nothing to it.   *)
ActivePeers(n) == {p \in Node : peers[n][p] \in Ip}

-----------------------------------------------------------------------------
(* forwardMessages(peers, engine) *)

(* The routing engine always accepts the destination itself and, below ten  *)
(* hops, everyone (rules 1 to 3 and the carrier fallback); beyond that the  *)
(* scores decide, which are not part of this module.                        *)
MayDecline(t, pair) == pair[1] # Dest(pair[2]) /\ t[pair[2]].hop >= CarrierHops

(* (peer, message) pairs to send: never back to the sender of the message,   *)
(* never (the engine) when the message is addressed to this node.            *)
Carriers(n, t, targets) ==
    {pair \in targets \X GetAllPending(t, Live) :
        From(pair[2]) # pair[1] /\ Dest(pair[2]) # n}

RelayFrame(n, t, p, id) ==
    [type |-> "relay", net |-> NetOf(n), to |-> peers[n][p], src |-> IpOf(n),
     id |-> id, hop |-> t[id].hop, payload |-> t[id].payload]

(* What one call may put on the wire, one set of frames per engine verdict. *)
ForwardMessages(n, t, targets) ==
    IF place[n] = Offline THEN {{}}
    ELSE LET pairs == Carriers(n, t, targets)
             doubtful == {pair \in pairs : MayDecline(t, pair)}
         IN {{RelayFrame(n, t, pair[1], pair[2]) : pair \in pairs \ declined}
                 : declined \in SUBSET doubtful}

-----------------------------------------------------------------------------
(* attemptDelivery(msg), up to its first await *)

(* The messages whose destination has a known address; the others stay queued. *)
Reachable(n, ids) == {id \in ids : peers[n][Dest(id)] \in Ip}

FreeTries(n, id) == {k \in 1..MaxTries : \A a \in tasks[n] : a.id = id => a.try # k}

NewTask(n, t, id) ==
    [id |-> id, try |-> CHOOSE k \in FreeTries(n, id) : TRUE,
     net |-> NetOf(n), ip |-> peers[n][Dest(id)], hop |-> t[id].hop, stage |-> "connecting"]

(* Marks the rows of table t and starts the attempts. *)
StartAttempts(n, t, ids) ==
    /\ \A id \in ids : FreeTries(n, id) # {}
    /\ store' = [store EXCEPT ![n] = MarkInTransit(t, ids)]
    /\ tasks' = [tasks EXCEPT ![n] = @ \cup {NewTask(n, t, id) : id \in ids}]

(* Attempts first; the forwarding that follows reads the marked table. *)
AttemptAndForward(n, t, ids) ==
    /\ StartAttempts(n, t, Reachable(n, ids))
    /\ \E out \in ForwardMessages(n, MarkInTransit(t, Reachable(n, ids)), ActivePeers(n)) :
         wire' = wire \cup out

DeliverFrame(n, a) ==
    [type |-> "deliver", net |-> NetOf(n), to |-> a.ip, src |-> IpOf(n),
     id |-> a.id, hop |-> a.hop, payload |-> "sealed"]

-----------------------------------------------------------------------------
(* handleIncomingMessage(message, remoteIP, isRelay) *)

(* Changed: no check for duplicates. *)
NoDuplicateCheck(n, id) == FALSE

AlreadyDelivered(n, id) == store[n][id].status = "delivered"

(* Changed: the wrong identity is compared. *)
IgnoresBySender(n, id) == From(id) # n \/ AlreadyDelivered(n, id)

(* Misdirected frames and duplicates are dropped. *)
Ignores(n, id) == Dest(id) # n \/ AlreadyDelivered(n, id)

(* Half-done deliveries: upsertMessage, appendFileSync or the insert in     *)
(* sendAck throws, which the frame's acknowledgement does not show, or the  *)
(* daemon dies there (a Crash right after).                                 *)
Outcome ==
    IF faults < MaxFaults THEN {"done", "no row", "no inbox", "no ack"} ELSE {"done"}

(* Changed: stored as a relay would store it. *)
StoreUndelivered(t, id, hop, payload) == UpsertMessage(t, id, "undelivered", hop, payload)

StoreDelivered(t, id, hop, payload) ==
    MarkDelivered(UpsertMessage(t, id, "delivered", hop, payload), id)

(* sendAck: encrypted if the sender's key is known, queued either way. *)
SendAck(n, t, m) ==
    InsertMessage(t, Ack(m), "undelivered", 0,
                  IF peers[n][Origin[m]] = NoPeer THEN "plain" ELSE "sealed")

(* Changed: acknowledged before the inbox is written. *)
AcknowledgedEarly(outcome) == outcome \in {"done", "no inbox"}

(* The acknowledgement is the last thing the handler does. *)
Acknowledged(outcome) == outcome = "done"

(* A user's message reaches its destination n, whose table is t. *)
Receive(n, t, id, hop, payload, outcome) ==
    LET stored == IF outcome = "no row" THEN t ELSE StoreDelivered(t, id, hop, payload) IN
    /\ store' = [store EXCEPT ![n] =
                    IF Acknowledged(outcome) THEN SendAck(n, stored, id.of) ELSE stored]
    /\ inbox' = [inbox EXCEPT ![id.of] = IF outcome \in {"done", "no ack"} THEN @ + 1 ELSE @]
    /\ faults' = IF outcome = "done" THEN faults ELSE faults + 1

(* The part after the relay branch. *)
Deliver(n, id, hop, payload) ==
    \/ /\ Ignores(n, id)
       /\ UNCHANGED <<store, inbox, faults>>
    \/ /\ ~Ignores(n, id) /\ id.kind = "ack"
       /\ store' = [store EXCEPT ![n] = MarkDelivered(@, User(id.of))]
       /\ UNCHANGED <<inbox, faults>>
    \/ /\ ~Ignores(n, id) /\ id.kind = "msg"
       /\ \E outcome \in Outcome : Receive(n, store[n], id, hop, payload, outcome)

(* A frame leaves the wire; over a lossy network a copy may still follow     *)
(* (TCP gives up on a frame the receiver reads later, and UDP sends it again). *)
Consumed(f) == IF Lossy THEN {wire \ {f}, wire} ELSE {wire \ {f}}

(* The addresses to spread a new relay message to: not where it came from. *)
SpreadPeers(n, src) == {p \in ActivePeers(n) : peers[n][p] # src}

(* Changed: every relayed copy is spread, known or not. *)
SpreadsAlways(n, id) == TRUE

(* upsertMessage answers 'inserted'. *)
SpreadsOn(n, id) == ~Has(store[n], id)

(* Changed: the receiver does not count the hop. *)
RelayHopUncounted(f) == f.hop

RelayHop(f) == f.hop + 1

(* The relay branch: a new message is stored and everything pending is     *)
(* forwarded at once; a known one at most gets its hop count lowered.      *)
Relay(n, f) ==
    LET t == UpsertMessage(store[n], f.id, "undelivered", RelayHop(f), f.payload) IN
    /\ store' = [store EXCEPT ![n] = t]
    /\ \E rest \in Consumed(f) :
         IF ~SpreadsOn(n, f.id) THEN wire' = rest
         ELSE \E out \in ForwardMessages(n, t, SpreadPeers(n, f.src)) : wire' = rest \cup out
    /\ UNCHANGED <<inbox, faults>>

-----------------------------------------------------------------------------
(* `ib send` (cli/commands/send.js) and the daemon's send command *)

(* The CLI asks the daemon for the recipient's key (its own it has) and    *)
(* encrypts, or not.  The message reaches the daemon in a later request.   *)
CliLookup(m) ==
    /\ cli[m] = "new" /\ up[Origin[m]]
    /\ cli' = [cli EXCEPT ![m] =
                 IF Target[m] = Origin[m] \/ peers[Origin[m]][Target[m]] # NoPeer
                 THEN "sealed" ELSE "plain"]
    /\ UNCHANGED <<store, peers, tasks, sweepDue, watched, asked, up, place, wire,
                    inbox, age, faults, moves>>

Submit(m, state) ==
    /\ cli[m] = state /\ up[Origin[m]]
    /\ cli' = [cli EXCEPT ![m] = "sent"]
    /\ UNCHANGED <<peers, sweepDue, watched, up, place, age, moves>>

(* A message to oneself is handled as if it had just arrived. *)
SendToSelf(m) ==
    LET n == Origin[m]
        t == InsertMessage(store[n], User(m), "undelivered", 0, "sealed") IN
    /\ Target[m] = n
    /\ Submit(m, "sealed")
    /\ \E outcome \in Outcome : Receive(n, t, User(m), 0, "sealed", outcome)
    /\ UNCHANGED <<tasks, asked, wire>>

(* The key_req goes to the peers with an address, if there are any, once. *)
FloodKeyRequest(n, target) ==
    IF ActivePeers(n) = {} THEN asked[n] ELSE asked[n] \cup {target}

(* No key: the plaintext is stored and only a key_req goes out. *)
SendPending(m) ==
    LET n == Origin[m] IN
    /\ Submit(m, "plain")
    /\ store' = [store EXCEPT ![n] =
                   InsertMessage(@, User(m), "__pending_encryption", 0, "plain")]
    /\ asked' = [asked EXCEPT ![n] = FloodKeyRequest(n, Target[m])]
    /\ UNCHANGED <<tasks, wire, inbox, faults>>

(* Encrypted: one delivery attempt, and everything pending to every peer. *)
SendSealed(m) ==
    LET n == Origin[m]
        t == InsertMessage(store[n], User(m), "undelivered", 0, "sealed") IN
    /\ Target[m] # n
    /\ Submit(m, "sealed")
    /\ AttemptAndForward(n, t, {User(m)})
    /\ UNCHANGED <<asked, inbox, faults>>

-----------------------------------------------------------------------------
(* attemptDelivery(msg), after its awaits.  `a` is a task of n. *)

SetStage(n, a, stage) ==
    tasks' = [tasks EXCEPT ![n] = (@ \ {a}) \cup {[a EXCEPT !.stage = stage]}]

(* processFrame at whoever has the address now: it handles the frame, which *)
(* may mean to ignore it, and acknowledges it.                              *)
TcpServe(n, a) ==
    /\ a.stage = "connecting" /\ a.net = NetOf(n)
    /\ \E q \in Listeners(a.net, a.ip) : Deliver(q, a.id, a.hop, "sealed")
    /\ SetStage(n, a, "acked")
    /\ UNCHANGED <<peers, sweepDue, watched, asked, up, place, wire, cli, age, moves>>

(* The handler throws (the database refuses): the ack says ok: false. *)
TcpRefuse(n, a) ==
    /\ Lossy
    /\ a.stage = "connecting" /\ a.net = NetOf(n) /\ Listeners(a.net, a.ip) # {}
    /\ SetStage(n, a, "nacked")
    /\ UNCHANGED <<store, peers, sweepDue, watched, asked, up, place, wire, inbox, cli, age,
                    faults, moves>>

(* Refused, reset or timed out, before or after the receiver handled the     *)
(* frame; what is in its socket buffer it may still handle.  The UDP         *)
(* fallback follows at once: the local send succeeds, or fails (no network,  *)
(* a datagram over 60000 bytes).                                             *)
TcpFail(n, a) ==
    /\ a.stage \in {"connecting", "acked"}
    /\ Lossy \/ a.net # NetOf(n) \/ Listeners(a.net, a.ip) = {}
    /\ \E late \in IF Lossy /\ a.stage = "connecting" /\ a.net = NetOf(n) /\ place[n] # Offline
                    THEN {{}, {DeliverFrame(n, a)}} ELSE {{}} :
       \/ /\ place[n] # Offline
          /\ wire' = wire \cup late \cup {DeliverFrame(n, a)}
          /\ SetStage(n, a, "udpsent")
       \/ /\ wire' = wire \cup late
          /\ SetStage(n, a, "failed")
    /\ UNCHANGED <<store, peers, sweepDue, watched, asked, up, place, inbox, cli, age,
                    faults, moves>>

Finish(n, a) ==
    /\ tasks' = [tasks EXCEPT ![n] = @ \ {a}]
    /\ UNCHANGED <<peers, sweepDue, watched, asked, up, place, wire, inbox, cli, age,
                    faults, moves>>

(* Changed: only the sender of the message records the delivery. *)
AttemptSucceedsForSender(n, a) ==
    /\ a.stage \in {"acked", "udpsent"}
    /\ store' = [store EXCEPT ![n] = IF From(a.id) = n THEN MarkDelivered(@, a.id)
                                     ELSE MarkUndelivered(@, a.id)]
    /\ Finish(n, a)

AttemptSucceeds(n, a) ==
    /\ a.stage \in {"acked", "udpsent"}
    /\ store' = [store EXCEPT ![n] = MarkDelivered(@, a.id)]
    /\ Finish(n, a)

AttemptFails(n, a) ==
    /\ a.stage \in {"nacked", "failed"}
    /\ store' = [store EXCEPT ![n] = MarkUndelivered(@, a.id)]
    /\ Finish(n, a)

-----------------------------------------------------------------------------
(* Frames on the wire *)

ReceiveFrame(f) ==
    /\ \E n \in Listeners(f.net, f.to) :
         \/ /\ f.type = "relay" /\ Dest(f.id) # n
            /\ Relay(n, f)
         \/ /\ f.type = "deliver" \/ Dest(f.id) = n
            /\ wire' \in Consumed(f)
            /\ Deliver(n, f.id, f.hop, f.payload)
    /\ UNCHANGED <<peers, tasks, sweepDue, watched, asked, up, place, cli, age, moves>>

(* Nobody has the address, or the network drops it. *)
LoseFrame(f) ==
    /\ Lossy \/ Listeners(f.net, f.to) = {}
    /\ wire' = wire \ {f}
    /\ UNCHANGED <<store, peers, tasks, sweepDue, watched, asked, up, place, inbox, cli, age,
                    faults, moves>>

-----------------------------------------------------------------------------
(* Timers, the sync command and the answer to a key_req *)

(* The 30-second sweep. *)
RetrySweep(n) ==
    /\ up[n]
    /\ Reachable(n, GetAllPending(store[n], Live)) # {}
    /\ StartAttempts(n, store[n], Reachable(n, GetAllPending(store[n], Live)))
    /\ UNCHANGED <<peers, sweepDue, watched, asked, up, place, wire, inbox, cli, age,
                    faults, moves>>

(* startupDeliverySweep, two seconds after a start or a change of network. *)
StartupSweep(n) ==
    LET t == ResetInTransit(store[n]) IN
    /\ up[n] /\ sweepDue[n]
    /\ sweepDue' = [sweepDue EXCEPT ![n] = FALSE]
    /\ StartAttempts(n, t, Reachable(n, GetAllPending(t, Live)))
    /\ UNCHANGED <<peers, watched, asked, up, place, wire, inbox, cli, age, faults, moves>>

(* `ib sync`: the same sweep on demand, then forwarding to every peer. *)
Sync(n) ==
    LET t == ResetInTransit(store[n]) IN
    /\ up[n]
    /\ AttemptAndForward(n, t, GetAllPending(t, Live))
    /\ UNCHANGED <<peers, sweepDue, watched, asked, up, place, inbox, cli, age, faults, moves>>

(* The 45-second sweep. *)
EpidemicSweep(n) ==
    /\ up[n]
    /\ GetAllPending(store[n], Live) # {} /\ ActivePeers(n) # {}
    /\ \E out \in ForwardMessages(n, store[n], ActivePeers(n)) : wire' = wire \cup out
    /\ UNCHANGED <<store, peers, tasks, sweepDue, watched, asked, up, place, inbox, cli, age,
                    faults, moves>>

(* handleKeyResponse: the messages that waited for the key of p. *)
EncryptPending(n, p) ==
    BulkEncryptPending(store[n], GetPendingEncryptionMessages(store[n], Live, p))

(* A key_res for p: the key is stored (the address is kept), the messages   *)
(* that waited for it are encrypted, attempted and forwarded.  When and     *)
(* whether an answer comes is the control plane's matter.                   *)
KeyResponse(n, p) ==
    LET t == EncryptPending(n, p) IN
    /\ up[n] /\ place[n] # Offline /\ p \in asked[n]
    /\ peers' = [peers EXCEPT ![n][p] = IF @ = NoPeer THEN NoIp ELSE @]
    /\ AttemptAndForward(n, t, GetMessagesForDestination(t, Live, p))
    /\ UNCHANGED <<sweepDue, watched, asked, up, place, inbox, cli, age, faults, moves>>

-----------------------------------------------------------------------------
(* upsertPeer: the announced address wins over the one in the table. *)
HeardAddress(n, p) == IpOf(p)

(* Discovery.  onPeer stores key and address and then throws: index.js      *)
(* calls getPeerPublicKey, which it does not import, and udp.js catches the *)
(* ReferenceError, so the rest of the handler never runs.                   *)
Hear(n, p) ==
    /\ Audible(n, p)
    /\ peers' = [peers EXCEPT ![n][p] = HeardAddress(n, p)]
    /\ UNCHANGED <<store, tasks, sweepDue, watched, asked, up, place, wire, inbox, cli, age,
                    faults, moves>>

(* A goodbye, or 45 seconds of silence. *)
Silence(n, p) ==
    /\ up[n] /\ p \in ActivePeers(n)
    /\ ~Audible(n, p)
    /\ peers' = [peers EXCEPT ![n][p] = NoIp]
    /\ UNCHANGED <<store, tasks, sweepDue, watched, asked, up, place, wire, inbox, cli, age,
                    faults, moves>>

(* clearAllPeerIPs, after the rows in `gone` were deleted. *)
ClearAllPeerIPs(n, gone) ==
    [p \in Node |-> IF peers[n][p] = NoPeer \/ p \in gone THEN NoPeer ELSE NoIp]

KnownPeers(n) == {p \in Node : peers[n][p] # NoPeer}

(* The watcher compares interface names and addresses: another network that *)
(* hands out the same address goes unnoticed.                               *)
WatcherTick(n) ==
    /\ up[n] /\ watched[n] # IpOf(n)
    /\ watched' = [watched EXCEPT ![n] = IpOf(n)]
    /\ peers' = [peers EXCEPT ![n] = ClearAllPeerIPs(n, {})]
    /\ sweepDue' = [sweepDue EXCEPT ![n] = TRUE]
    /\ UNCHANGED <<store, tasks, asked, up, place, wire, inbox, cli, age, faults, moves>>

(* The machine leaves its network, joins one or gets another address. *)
Move(n, to) ==
    /\ n \in Mobile /\ moves < MaxMoves
    /\ to # place[n]
    /\ to # Offline => \A q \in Node : place[q] # to
    /\ place' = [place EXCEPT ![n] = to]
    /\ moves' = moves + 1
    /\ UNCHANGED <<store, peers, tasks, sweepDue, watched, asked, up, wire, inbox, cli, age, faults>>

-----------------------------------------------------------------------------
(* Crashes, restarts, time *)

(* A crash or a stop (the goodbye of a stop is a Silence of the others).    *)
(* The tables and inbox.log survive; attempts and timers do not.            *)
Crash(n) ==
    /\ up[n] /\ faults < MaxFaults
    /\ up' = [up EXCEPT ![n] = FALSE]
    /\ tasks' = [tasks EXCEPT ![n] = {}]
    /\ sweepDue' = [sweepDue EXCEPT ![n] = FALSE]
    /\ faults' = faults + 1
    /\ UNCHANGED <<store, peers, watched, asked, place, wire, inbox, cli, age, moves>>

Clean(n) == CleanExpired(store[n], Id \ Live, {id \in Id : age[id] = "ancient"})

(* The rows of peers unseen for an hour. *)
Forgotten(silent) == IF Hours THEN SUBSET silent ELSE {{}}

(* cleanExpired, clearAllPeerIPs. *)
Restart(n) ==
    /\ ~up[n]
    /\ up' = [up EXCEPT ![n] = TRUE]
    /\ store' = [store EXCEPT ![n] = Clean(n)]
    /\ \E gone \in Forgotten(KnownPeers(n)) :
         peers' = [peers EXCEPT ![n] = ClearAllPeerIPs(n, gone)]
    /\ sweepDue' = [sweepDue EXCEPT ![n] = TRUE]
    /\ watched' = [watched EXCEPT ![n] = IpOf(n)]
    /\ UNCHANGED <<tasks, asked, place, wire, inbox, cli, age, faults, moves>>

(* The hourly cleanExpired: who was unseen for an hour has lost its address. *)
HourlyCleanup(n) ==
    /\ up[n]
    /\ store' = [store EXCEPT ![n] = Clean(n)]
    /\ \E gone \in Forgotten({p \in KnownPeers(n) : peers[n][p] = NoIp}) :
         peers' = [peers EXCEPT ![n] = [p \in Node |-> IF p \in gone THEN NoPeer ELSE @[p]]]
    /\ UNCHANGED <<tasks, sweepDue, watched, asked, up, place, wire, inbox, cli, age, faults, moves>>

Expire(id) ==
    /\ id \in Mortal /\ age[id] = "live" /\ cli[id.of] = "sent"
    /\ age' = [age EXCEPT ![id] = "expired"]
    /\ UNCHANGED <<store, peers, tasks, sweepDue, watched, asked, up, place, wire, inbox, cli,
                    faults, moves>>

(* Three weeks after the ttl every frame and attempt is long over. *)
GrowAncient(id) ==
    /\ age[id] = "expired"
    /\ \A f \in wire : f.id # id
    /\ \A n \in Node : \A a \in tasks[n] : a.id # id
    /\ age' = [age EXCEPT ![id] = "ancient"]
    /\ UNCHANGED <<store, peers, tasks, sweepDue, watched, asked, up, place, wire, inbox, cli,
                    faults, moves>>

-----------------------------------------------------------------------------
(* Daemons that have run for a while, without a message yet. *)
Init ==
    /\ store = [n \in Node |-> EmptyTable]
    /\ peers = Known
    /\ tasks = [n \in Node |-> {}]
    /\ sweepDue = [n \in Node |-> FALSE]
    /\ watched = [n \in Node |-> Home[n][2]]
    /\ asked = [n \in Node |-> {}]
    /\ up = [n \in Node |-> TRUE]
    /\ place = Home
    /\ wire = {}
    /\ inbox = [m \in Msg |-> 0]
    /\ cli = [m \in Msg |-> "new"]
    /\ age = [id \in Id |-> "live"]
    /\ faults = 0
    /\ moves = 0

UserStep == \E m \in Msg : CliLookup(m) \/ SendToSelf(m) \/ SendPending(m) \/ SendSealed(m)

AttemptStep(n) == \E a \in tasks[n] : \/ TcpServe(n, a) \/ TcpRefuse(n, a) \/ TcpFail(n, a)
                                     \/ AttemptSucceeds(n, a) \/ AttemptFails(n, a)

WireStep == \E f \in wire : ReceiveFrame(f) \/ LoseFrame(f)

TimerStep(n) == \/ RetrySweep(n) \/ StartupSweep(n) \/ EpidemicSweep(n) \/ HourlyCleanup(n)
                \/ WatcherTick(n) \/ Sync(n)

PeerStep(n) == \E p \in Node : Hear(n, p) \/ Silence(n, p) \/ KeyResponse(n, p)

MachineStep(n) == Crash(n) \/ Restart(n) \/ \E to \in Place : Move(n, to)

TimeStep == \E id \in Id : Expire(id) \/ GrowAncient(id)

Next ==
    \/ UserStep \/ WireStep \/ TimeStep
    \/ \E n \in Node : AttemptStep(n) \/ TimerStep(n) \/ PeerStep(n) \/ MachineStep(n)

Spec == Init /\ [][Next]_vars

-----------------------------------------------------------------------------
TypeOK ==
    /\ store \in [Node -> Table]
    /\ peers \in [Node -> [Node -> Ip \cup {NoIp, NoPeer}]]
    /\ tasks \in [Node -> SUBSET Task]
    /\ sweepDue \in [Node -> BOOLEAN]
    /\ watched \in [Node -> Address]
    /\ asked \in [Node -> SUBSET Node]
    /\ up \in [Node -> BOOLEAN]
    /\ place \in [Node -> Place]
    /\ wire \subseteq Frame
    /\ inbox \in [Msg -> Nat]
    /\ cli \in [Msg -> CliState]
    /\ age \in [Id -> Age]
    /\ faults \in 0..MaxFaults
    /\ moves \in 0..MaxMoves

(* A message is written to the recipient's inbox at most once, although     *)
(* every copy of it (direct, relayed, repeated by UDP or a retry) reaches   *)
(* handleIncomingMessage, before and after crashes and cleanups.            *)
AtMostOnce == \A m \in Msg : inbox[m] <= 1

(* Everything about an id that exists outside of the wire and on it. *)
Exists(id) ==
    \/ \E n \in Node : Has(store[n], id) \/ \E a \in tasks[n] : a.id = id
    \/ \E f \in wire : f.id = id

(* handleIncomingMessage acknowledges only what it wrote to the inbox: no   *)
(* acknowledgement exists anywhere for a message the recipient cannot read. *)
AckOnlyAfterInbox == \A m \in Msg : Exists(Ack(m)) => inbox[m] > 0

(* Hop counts (upsertMessage, the relay branch, the SELECTs) count relays:  *)
(* a relay's copy is at least one hop from the sender, and a copy at the    *)
(* limit is neither forwarded nor attempted.                                *)
HopDiscipline ==
    /\ \A n \in Node, id \in Id :
         Has(store[n], id) /\ n \notin {From(id), Dest(id)} => store[n][id].hop > 0
    /\ \A f \in wire : f.hop < HopLimit
    /\ \A n \in Node : \A a \in tasks[n] : a.hop < HopLimit

(* What the user typed never leaves the sender's daemon unencrypted: no     *)
(* frame and no other daemon's row holds it, and the row that does is       *)
(* waiting for the key (the getAllPending comment in db/messages.js).       *)
UserPlaintextStaysHome ==
    /\ \A f \in wire : f.id.kind = "msg" => f.payload = "sealed"
    /\ \A n \in Node, m \in Msg :
         store[n][User(m)].payload = "plain" =>
             n = Origin[m] /\ store[n][User(m)].status = "__pending_encryption"

(* A row is 'intransit' only while an attempt will settle it or, after a    *)
(* crash, until the startup sweep that resets it.                           *)
IntransitOwned ==
    \A n \in Node, id \in Id :
        up[n] /\ ~sweepDue[n] /\ store[n][id].status = "intransit" =>
            \E a \in tasks[n] : a.id = id

(* What `ib status` calls delivered is in the recipient's inbox (guide.md:  *)
(* "Delivered: recipient got it").                                          *)
DeliveredMeansReceived ==
    \A m \in Msg : store[Origin[m]][User(m)].status = "delivered" => inbox[m] > 0

(* The sender's row of a message stays in the queue until it was received.  *)
QueuedUntilReceived ==
    \A m \in Msg : cli[m] = "sent" /\ inbox[m] = 0 =>
        store[Origin[m]][User(m)].status \in {"__pending_encryption", "undelivered", "intransit"}

-----------------------------------------------------------------------------
(* Fairness: intervals keep firing, a started attempt ends (the sockets have *)
(* timeouts), frames are handled or lost.  Users, machines, discovery and    *)
(* the control plane owe nothing.                                            *)
DeliveryFairness ==
    /\ \A n \in Node : /\ WF_vars(RetrySweep(n)) /\ WF_vars(StartupSweep(n))
                      /\ WF_vars(EpidemicSweep(n)) /\ WF_vars(AttemptStep(n))
    /\ WF_vars(WireStep)

BurstSpec    == Spec /\ WF_vars(WireStep)
DeliverySpec == Spec /\ DeliveryFairness

(* An encrypted message in the sender's queue reaches the inbox. *)
SealedArrives ==
    \A m \in Msg :
        store[Origin[m]][User(m)].status \in {"undelivered", "intransit"} ~> inbox[m] = 1

(* The sender learns of it. *)
SenderLearns ==
    \A m \in Msg : inbox[m] = 1 ~> store[Origin[m]][User(m)].status = "delivered"

(* Every copy, relays' and acknowledgements' included, is settled and the   *)
(* network falls silent (no flooding without end).                          *)
Quiet ==
    /\ wire = {}
    /\ \A n \in Node : tasks[n] = {} /\ GetAllPending(store[n], Live) = {}
SettlesDown == \A m \in Msg : inbox[m] = 1 ~> []Quiet

(* A burst of relaying dies out by itself: unless the user or the 45-second *)
(* sweep keeps forwarding, the wire empties for good (a daemon spreads a    *)
(* relayed message only when it is new to it).                              *)
BurstsDieOut ==
    <>[][~ \E n \in Node : EpidemicSweep(n) \/ Sync(n)]_vars => <>[](wire = {})

-----------------------------------------------------------------------------
(* Why nothing arrives twice: the inductive invariant behind AtMostOnce.    *)

(* A user's message is in a daemon's hands. *)
Started(id) == id.kind = "msg" => cli[id.of] = "sent"

NoSelfAddress == \A n \in Node : peers[n][n] \notin Ip

RowsStarted == \A n \in Node, id \in Id : Has(store[n], id) => Started(id)

FramesCurrent == \A f \in wire : Started(f.id) /\ age[f.id] # "ancient"

(* No daemon attempts to deliver to itself, so a failing attempt never      *)
(* takes the status 'delivered' from the recipient's row.                   *)
AttemptsCurrent ==
    \A n \in Node : \A a \in tasks[n] :
        Started(a.id) /\ age[a.id] # "ancient" /\ Dest(a.id) # n

UnsentUntouched == \A m \in Msg : cli[m] # "sent" => inbox[m] = 0 /\ age[User(m)] = "live"

(* What is in the inbox is marked in the recipient's table for as long as a *)
(* copy of it may still arrive.                                             *)
ArrivalsMarked ==
    \A m \in Msg :
        \/ inbox[m] = 0
        \/ /\ inbox[m] = 1
           /\ store[Target[m]][User(m)].status = "delivered" \/ age[User(m)] = "ancient"

(* The recipient's table remembers every message of the inbox until no copy *)
(* of it is left (the duplicate check of handleIncomingMessage rests on     *)
(* upsertMessage, the sweeps, attemptDelivery and cleanExpired keeping it). *)
InboxRemembered ==
    /\ NoSelfAddress /\ RowsStarted /\ FramesCurrent /\ AttemptsCurrent
    /\ UnsentUntouched /\ ArrivalsMarked

-----------------------------------------------------------------------------
(* What the code's comments say and its daemons do not do.                  *)

(* db/cleanup.js: "Delivered messages are kept as a record so senders can   *)
(* still check ib status" until thirty days have passed.                    *)
DeliveredKept ==
    [][\A m \in Msg :
          /\ store[Origin[m]][User(m)].status = "delivered"
          /\ age'[User(m)] # "ancient"
          => store'[Origin[m]][User(m)].status = "delivered"]_vars

-----------------------------------------------------------------------------
(* The data plane implements the mailbox. *)
Sent == {m \in Msg : cli[m] = "sent"}
Promise == INSTANCE Mailbox WITH Message <- Msg, sent <- Sent, arrived <- inbox
MailboxKept == Promise!MailboxSpec

(* ... and uses keys as KeyDiscovery provides them. *)
Waiting ==
    [n \in Node |-> {p \in Node : GetPendingEncryptionMessages(store[n], Live, p) # {}}]
Service ==
    INSTANCE KeyService WITH
        around <- Node \X Node, known <- [n \in Node |-> KnownPeers(n)], pending <- Waiting,
        Forgetful <- Hours \/ Mortal # {}

(* A message that waits for a key waits for nothing else: not a sweep, nor  *)
(* a sync, an acknowledgement, a restart or a copy from elsewhere takes it  *)
(* out of __pending_encryption, only the key_res that was asked for (or its *)
(* ttl), and that all of them at once; keys go only with silent peers.      *)
ServiceUsed == Service!ServiceSpec
=============================================================================
