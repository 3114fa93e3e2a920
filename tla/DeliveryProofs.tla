---------------------------- MODULE DeliveryProofs ----------------------------
(***************************************************************************)
(* When "delivered" means received.  In general it does not (a datagram    *)
(* counts as delivered when it is sent, a new owner of an address          *)
(* acknowledges for the old one, a crash comes between the row and the     *)
(* inbox).  It does where machines stay where they are, nothing is lost,   *)
(* no daemon dies, and every address known in the beginning is right.      *)
(*                                                                         *)
(* The second part needs none of that: what waits for a key is taken up as *)
(* KeyService says, whatever happens to machines, frames and daemons.      *)
(***************************************************************************)
EXTENDS FootprintProofs

Stationary ==
    /\ ~Lossy /\ MaxFaults = 0 /\ MaxMoves = 0
    /\ \A n, p \in Node : Known[n][p] \in Ip => Home[p] = <<Home[n][1], Known[n][p]>>

(* The peers tables stay right, and so do the addresses of attempts.        *)
AddressesRight ==
    /\ place = Home /\ \A n \in Node : up[n]
    /\ \A n, p \in Node : peers[n][p] \in Ip => place[p] = <<NetOf(n), peers[n][p]>>

(* Nobody is attempted but the destination, which answers when it has the   *)
(* message.                                                                 *)
TasksRight ==
    \A n \in Node : \A a \in tasks[n] :
        /\ a.net = NetOf(n) /\ place[Dest(a.id)] = <<a.net, a.ip>>
        /\ a.stage \in {"connecting", "acked"}
        /\ a.stage = "acked" /\ a.id.kind = "msg" => inbox[a.id.of] > 0

(* Whoever marks a message delivered is right. *)
DeliveredReceived ==
    \A n \in Node, m \in Msg : store[n][User(m)].status = "delivered" => inbox[m] > 0

Truthful ==
    /\ Remembered /\ AckOnlyAfterInbox
    /\ AddressesRight /\ TasksRight /\ DeliveredReceived

(* Without expiry the sender's row stays. *)
SenderKeepsRow ==
    /\ Live = Id
    /\ \A m \in Msg : cli[m] = "sent" => Has(store[Origin[m]], User(m))

-----------------------------------------------------------------------------
(* Nothing moves and nobody dies. *)

LEMMA StillMachines ==
    ASSUME Stationary, TypeOK, AddressesRight, NEW n \in Node
    PROVE  ~MachineStep(n)
<1>1. faults \in 0..0 /\ moves \in 0..0 /\ MaxFaults = 0 /\ MaxMoves = 0
  BY DEF Stationary, TypeOK
<1>2. ~(faults < MaxFaults) /\ ~(moves < MaxMoves) /\ up[n]
  BY <1>1 DEF AddressesRight
<1> QED BY <1>2 DEF MachineStep, Crash, Restart, Move

LEMMA SamePlaces ==
    ASSUME Stationary, TypeOK, AddressesRight, [Next]_vars
    PROVE  place' = place /\ up' = up /\ faults' = faults
<1>1. faults' = faults
  <2>1. TypeOK'
    BY TypeStep
  <2>2. MaxFaults = 0 /\ faults \in 0..MaxFaults /\ faults' \in 0..MaxFaults
    BY <2>1 DEF Stationary, TypeOK
  <2> QED BY <2>2
<1>2. CASE UNCHANGED vars
  BY <1>1, <1>2 DEF vars
<1>3. CASE UserStep
  BY <1>1, <1>3 DEF UserStep, CliLookup, SendToSelf, SendPending, SendSealed, Submit
<1>4. CASE WireStep \/ TimeStep
  BY <1>1, <1>4 DEF WireStep, ReceiveFrame, LoseFrame, TimeStep, Expire, GrowAncient
<1>5. ASSUME NEW n \in Node, AttemptStep(n) PROVE place' = place /\ up' = up
  BY <1>5 DEF AttemptStep, TcpServe, TcpRefuse, TcpFail, AttemptSucceeds, AttemptFails, Finish
<1>6. ASSUME NEW n \in Node, TimerStep(n) PROVE place' = place /\ up' = up
  BY <1>6 DEF TimerStep, RetrySweep, StartupSweep, EpidemicSweep, HourlyCleanup, WatcherTick, Sync
<1>7. ASSUME NEW n \in Node, PeerStep(n) PROVE place' = place /\ up' = up
  BY <1>7 DEF PeerStep, Hear, Silence, KeyResponse
<1> QED BY <1>1, <1>2, <1>3, <1>4, <1>5, <1>6, <1>7, StillMachines DEF Next

(* An address enters a peers table when its owner is heard. *)
LEMMA NewAddresses ==
    ASSUME Stationary, TypeOK, AddressesRight, [Next]_vars,
           NEW n \in Node, NEW p \in Node, peers'[n][p] \in Ip
    PROVE  peers'[n][p] = peers[n][p] \/ (Audible(n, p) /\ peers'[n][p] = IpOf(p))
<1>1. peers \in [Node -> [Node -> Ip \cup {NoIp, NoPeer}]] /\ NoIp \notin Ip /\ NoPeer \notin Ip
  BY DataPlaneAssumption DEF TypeOK
<1>2. CASE UNCHANGED peers
  BY <1>2
<1>3. ASSUME NEW q \in Node, TimerStep(q) PROVE peers'[n][p] = peers[n][p]
  <2>1. CASE WatcherTick(q)
    <3>1. peers' = [peers EXCEPT ![q] = ClearAllPeerIPs(q, {})]
      BY <2>1 DEF WatcherTick
    <3>2. CASE q = n
      BY <1>1, <3>1, <3>2 DEF ClearAllPeerIPs
    <3>3. CASE q # n
      BY <1>1, <3>1, <3>3
    <3> QED BY <3>2, <3>3
  <2>2. CASE HourlyCleanup(q)
    <3>1. PICK gone : peers' = [peers EXCEPT ![q] = [r \in Node |-> IF r \in gone THEN NoPeer
                                                                    ELSE peers[q][r]]]
      BY <2>2 DEF HourlyCleanup
    <3>2. CASE q = n
      BY <1>1, <3>1, <3>2
    <3>3. CASE q # n
      BY <1>1, <3>1, <3>3
    <3> QED BY <3>2, <3>3
  <2> QED BY <1>3, <2>1, <2>2 DEF TimerStep, RetrySweep, StartupSweep, EpidemicSweep, Sync
<1>4. ASSUME NEW q \in Node, PeerStep(q)
      PROVE  peers'[n][p] = peers[n][p] \/ (Audible(n, p) /\ peers'[n][p] = IpOf(p))
  <2> PICK r \in Node : Hear(q, r) \/ Silence(q, r) \/ KeyResponse(q, r)
    BY <1>4 DEF PeerStep
  <2>1. CASE ~(q = n /\ r = p)
    BY <1>1, <2>1 DEF Hear, Silence, KeyResponse
  <2>2. CASE q = n /\ r = p
    BY <1>1, <2>2 DEF Hear, HeardAddress, Silence, KeyResponse
  <2> QED BY <2>1, <2>2
<1>5. CASE UserStep \/ WireStep \/ TimeStep
  <2>1. UNCHANGED peers
    BY <1>5 DEF UserStep, CliLookup, SendToSelf, SendPending, SendSealed, Submit, WireStep,
                ReceiveFrame, LoseFrame, TimeStep, Expire, GrowAncient
  <2> QED BY <2>1
<1>6. ASSUME NEW q \in Node, AttemptStep(q) PROVE UNCHANGED peers
  BY <1>6 DEF AttemptStep, TcpServe, TcpRefuse, TcpFail, AttemptSucceeds, AttemptFails, Finish
<1>7. CASE UNCHANGED vars
  BY <1>7 DEF vars
<1> QED BY <1>2, <1>3, <1>4, <1>5, <1>6, <1>7, StillMachines DEF Next

LEMMA AddressesStep ==
    ASSUME Stationary, TypeOK, AddressesRight, [Next]_vars
    PROVE  AddressesRight'
<1>1. place' = place /\ up' = up
  BY SamePlaces
<1>2. ASSUME NEW n \in Node, NEW p \in Node, peers'[n][p] \in Ip
      PROVE  place[p] = <<NetOf(n), peers'[n][p]>>
  <2>1. CASE peers'[n][p] = peers[n][p]
    BY <1>2, <2>1 DEF AddressesRight
  <2>2. CASE Audible(n, p) /\ peers'[n][p] = IpOf(p)
    <3>1. place[p] \in Net \X Ip /\ NetOf(n) = NetOf(p)
      BY <2>2 DEF Audible, TypeOK, Place
    <3>2. place[p] = <<NetOf(p), IpOf(p)>>
      BY <3>1 DEF NetOf, IpOf
    <3> QED BY <2>2, <3>1, <3>2
  <2> QED BY <1>2, <2>1, <2>2, NewAddresses
<1> QED BY <1>1, <1>2 DEF AddressesRight, NetOf

-----------------------------------------------------------------------------
(* Attempts *)

(* A new attempt goes to the address the destination has in the table. *)
Directed(n, b) ==
    b.stage = "connecting" /\ b.net = NetOf(n) /\ b.ip = peers[n][Dest(b.id)] /\ b.ip \in Ip

Answered(a) == [a EXCEPT !.stage = "acked"]

LEMMA NewTasks ==
    ASSUME TypeOK, NEW n \in Node, NEW t, NEW ids, StartAttempts(n, t, Reachable(n, ids))
    PROVE  \A q \in Node : \A b \in tasks'[q] : b \in tasks[q] \/ (q = n /\ Directed(n, b))
<1>1. tasks' = [tasks EXCEPT ![n] = tasks[n] \cup {NewTask(n, t, id) : id \in Reachable(n, ids)}]
  BY DEF StartAttempts
<1>2. \A id \in Reachable(n, ids) : Directed(n, NewTask(n, t, id))
  BY DEF Reachable, NewTask, Directed
<1> QED BY <1>1, <1>2 DEF TypeOK

(* Whoever answers an attempt is the destination, and has the message then. *)
LEMMA ServedByDest ==
    ASSUME Stationary, Truthful, NEW n \in Node, NEW a \in tasks[n], TcpServe(n, a),
           a.id.kind = "msg", inbox' \in [Msg -> Nat], faults' = faults
    PROVE  inbox'[a.id.of] > 0
<1>0. TypeOK
  BY DEF Truthful, Remembered
<1>1. /\ a.id \in Id /\ a.id.of \in Msg /\ a.id = User(a.id.of) /\ a.hop \in 0..HopLimit
      /\ a.ip \in Ip /\ Dest(a.id) \in Node /\ "sealed" \in Payload
  <2>1. a \in Task
    BY <1>0, FrameFacts
  <2>2. a.id \in Id /\ a.hop \in 0..(HopLimit - 1) /\ a.ip \in Ip
    BY <2>1 DEF Task
  <2> QED BY <2>2, IdFacts, EndsAreNodes, StoreAssumption DEF Payload
<1>2. PICK q \in Listeners(a.net, a.ip) : Deliver(q, a.id, a.hop, "sealed")
  BY DEF TcpServe
<1>3. q = Dest(a.id)
  <2>1. q \in Node /\ place[q] = <<a.net, a.ip>> /\ place[Dest(a.id)] = <<a.net, a.ip>> /\ place = Home
    BY <1>2 DEF Listeners, Truthful, TasksRight, AddressesRight
  <2>2. Home[q] # Offline
    BY <1>1, <2>1, DataPlaneAssumption DEF Offline
  <2> QED BY <1>1, <2>1, <2>2, DataPlaneAssumption
<1>4. CASE Ignores(q, a.id) /\ UNCHANGED inbox
  <2>1. store[q][User(a.id.of)].status = "delivered"
    BY <1>1, <1>3, <1>4 DEF Ignores, AlreadyDelivered
  <2> QED BY <1>1, <1>2, <1>4, <2>1 DEF Truthful, DeliveredReceived, Listeners
<1>5. CASE \E outcome \in Outcome : Receive(q, store[q], a.id, a.hop, "sealed", outcome)
  <2>1. PICK outcome \in Outcome : Receive(q, store[q], a.id, a.hop, "sealed", outcome)
    BY <1>5
  <2>2. q \in Node /\ store[q] \in Table
    BY <1>0, <1>2 DEF Listeners, TypeOK
  <2>3. inbox'[a.id.of] > 0 \/ faults' > faults
    BY <1>0, <1>1, <2>1, <2>2, ReceiveEffect
  <2>4. ~(faults' > faults)
    BY <1>0, DataPlaneAssumption DEF TypeOK
  <2> QED BY <2>3, <2>4
<1> QED BY <1>2, <1>4, <1>5 DEF Deliver

(* The attempts after a step: old ones, new ones, and the one that was       *)
(* answered.                                                                *)
LEMMA TasksAfter ==
    ASSUME Stationary, Truthful, [Next]_vars, NEW n \in Node, NEW b \in tasks'[n]
    PROVE  \/ b \in tasks[n]
           \/ Directed(n, b)
           \/ \E a \in tasks[n] : /\ b = Answered(a)
                                  /\ a.id.kind = "msg" => inbox'[a.id.of] > 0
<1>0. TypeOK /\ TypeOK' /\ faults' = faults
  BY TypeStep, SamePlaces DEF Truthful, Remembered
<1>1. CASE UNCHANGED tasks
  BY <1>1
<1>2. CASE UserStep
  <2>1. UNCHANGED tasks \/ \E m \in Msg : SendSealed(m)
    BY <1>2 DEF UserStep, CliLookup, SendToSelf, SendPending
  <2>2. ASSUME NEW m \in Msg, SendSealed(m) PROVE b \in tasks[n] \/ Directed(n, b)
    <3>1. PICK t, ids : StartAttempts(Origin[m], t, Reachable(Origin[m], ids))
      BY <2>2 DEF SendSealed, AttemptAndForward
    <3> QED BY <1>0, <3>1, NewTasks, StoreAssumption
  <2> QED BY <1>1, <2>1, <2>2
<1>3. ASSUME NEW q \in Node, AttemptStep(q)
      PROVE  \/ b \in tasks[n]
             \/ \E a \in tasks[n] : /\ b = Answered(a)
                                    /\ a.id.kind = "msg" => inbox'[a.id.of] > 0
  <2> PICK a \in tasks[q] : \/ TcpServe(q, a) \/ TcpRefuse(q, a) \/ TcpFail(q, a)
                            \/ AttemptSucceeds(q, a) \/ AttemptFails(q, a)
    BY <1>3 DEF AttemptStep
  <2>1. CASE TcpServe(q, a)
    <3>1. tasks' = [tasks EXCEPT ![q] = (tasks[q] \ {a}) \cup {Answered(a)}]
      BY <2>1 DEF TcpServe, SetStage, Answered
    <3>2. a.id.kind = "msg" => inbox'[a.id.of] > 0
      BY <1>0, <2>1, ServedByDest DEF TypeOK
    <3> QED BY <1>0, <3>1, <3>2 DEF TypeOK
  <2>2. ~TcpRefuse(q, a)
    BY DEF Stationary, TcpRefuse
  <2>3. ~TcpFail(q, a)
    <3>1. a.net = NetOf(q) /\ Dest(a.id) \in Listeners(a.net, a.ip)
      <4>1. Dest(a.id) \in Node
        BY <1>0, FrameFacts, EndsAreNodes DEF Task
      <4> QED BY <4>1 DEF Truthful, TasksRight, AddressesRight, Listeners
    <3> QED BY <3>1 DEF Stationary, TcpFail
  <2>4. CASE AttemptSucceeds(q, a) \/ AttemptFails(q, a)
    <3>1. tasks' = [tasks EXCEPT ![q] = tasks[q] \ {a}]
      BY <2>4 DEF AttemptSucceeds, AttemptFails, Finish
    <3>2. b \in tasks[n]
      BY <1>0, <3>1 DEF TypeOK
    <3> QED BY <3>2
  <2> QED BY <2>1, <2>2, <2>3, <2>4
<1>4. ASSUME NEW q \in Node, TimerStep(q) \/ PeerStep(q) PROVE b \in tasks[n] \/ Directed(n, b)
  <2>1. UNCHANGED tasks \/ \E t, ids : StartAttempts(q, t, Reachable(q, ids))
    BY <1>4 DEF TimerStep, RetrySweep, StartupSweep, Sync, AttemptAndForward, EpidemicSweep,
                HourlyCleanup, WatcherTick, PeerStep, Hear, Silence, KeyResponse
  <2> QED BY <1>0, <1>1, <2>1, NewTasks
<1>5. CASE WireStep \/ TimeStep \/ UNCHANGED vars
  <2>1. UNCHANGED tasks
    BY <1>5 DEF WireStep, ReceiveFrame, LoseFrame, TimeStep, Expire, GrowAncient, vars
  <2> QED BY <1>1, <2>1
<1> QED BY <1>0, <1>2, <1>3, <1>4, <1>5, StillMachines DEF Next, Truthful

LEMMA InboxGrows ==
    ASSUME TypeOK, [Next]_vars, NEW m \in Msg, inbox[m] > 0
    PROVE  inbox'[m] > 0
<1>1. InboxStep /\ TypeOK'
  BY TypeStep, StepFootprint DEF Footprint
<1>2. inbox[m] \in Nat /\ inbox'[m] \in Nat
  BY <1>1 DEF TypeOK
<1>3. inbox'[m] = inbox[m] \/ inbox'[m] > inbox[m]
  BY <1>1 DEF InboxStep
<1> QED BY <1>2, <1>3

LEMMA TasksRightStep ==
    ASSUME Stationary, Truthful, [Next]_vars
    PROVE  TasksRight'
<1> SUFFICES ASSUME NEW n \in Node, NEW b \in tasks'[n]
             PROVE  /\ b.net = NetOf(n)' /\ place'[Dest(b.id)] = <<b.net, b.ip>>
                    /\ b.stage \in {"connecting", "acked"}
                    /\ b.stage = "acked" /\ b.id.kind = "msg" => inbox'[b.id.of] > 0
  BY DEF TasksRight, Dest
<1>0. TypeOK /\ TypeOK' /\ place' = place
  BY TypeStep, SamePlaces DEF Truthful, Remembered
<1>1. NetOf(n)' = NetOf(n)
  BY <1>0 DEF NetOf
<1>2. b.id \in Id /\ b.id.of \in Msg /\ Dest(b.id) \in Node
  <2>1. b \in Task
    BY <1>0 DEF TypeOK
  <2>2. b.id \in Id
    BY <2>1 DEF Task
  <2> QED BY <2>2, IdFacts, EndsAreNodes
<1>3. CASE b \in tasks[n]
  BY <1>0, <1>1, <1>2, <1>3, InboxGrows DEF Truthful, TasksRight
<1>4. CASE Directed(n, b)
  BY <1>0, <1>1, <1>2, <1>4 DEF Directed, Truthful, AddressesRight
<1>5. ASSUME NEW a \in tasks[n], b = Answered(a), a.id.kind = "msg" => inbox'[a.id.of] > 0
      PROVE  /\ b.net = NetOf(n)' /\ place'[Dest(b.id)] = <<b.net, b.ip>>
             /\ b.stage \in {"connecting", "acked"}
             /\ b.stage = "acked" /\ b.id.kind = "msg" => inbox'[b.id.of] > 0
  <2>1. a \in Task
    BY <1>0 DEF TypeOK
  <2>2. b.id = a.id /\ b.net = a.net /\ b.ip = a.ip /\ b.stage = "acked"
    BY <1>5, <2>1 DEF Task, Answered
  <2>3. a.net = NetOf(n) /\ place[Dest(a.id)] = <<a.net, a.ip>>
    BY DEF Truthful, TasksRight
  <2> QED BY <1>0, <1>1, <1>5, <2>2, <2>3
<1> QED BY <1>3, <1>4, <1>5, TasksAfter

-----------------------------------------------------------------------------
(* The status *)

LEMMA DeliveredStep ==
    ASSUME Stationary, Truthful, [Next]_vars
    PROVE  DeliveredReceived'
<1> SUFFICES ASSUME NEW n \in Node, NEW m \in Msg, store'[n][User(m)].status = "delivered"
             PROVE  inbox'[m] > 0
  BY DEF DeliveredReceived, User
<1>0. TypeOK /\ TypeOK' /\ RowsStep /\ faults' = faults /\ faults \in Nat
  BY TypeStep, StepFootprint, SamePlaces, DataPlaneAssumption
  DEF Truthful, Remembered, Footprint, TypeOK
<1>1. User(m) \in Id /\ User(m).kind = "msg" /\ User(m).of = m
  BY IdFacts
<1>2. inbox[m] > 0 => inbox'[m] > 0
  BY <1>0, InboxGrows
<1>3. RowStep(n, User(m)) /\ ~(faults' > faults)
  BY <1>0, <1>1 DEF RowsStep
<1>4. CASE store[n][User(m)].status = "delivered"
  BY <1>2, <1>4 DEF Truthful, DeliveredReceived
<1>5. CASE Settled(n, User(m))
  <2>1. CASE \E a \in tasks[n] : a.id = User(m) /\ a.stage \in {"acked", "udpsent"}
    BY <1>1, <1>2, <2>1 DEF Truthful, TasksRight
  <2>2. CASE InFlight(Ack(m))
    <3>1. inbox[m] > 0
      BY <2>2 DEF InFlight, Exists, Truthful, AckOnlyAfterInbox
    <3> QED BY <1>2, <3>1
  <2> QED BY <1>1, <1>5, <2>1, <2>2 DEF Settled
<1>6. CASE Typed(n, User(m)) \/ Arrived(n, User(m))
  BY <1>1, <1>3, <1>6 DEF Typed, Arrived
<1>7. ~Removed(n, User(m)) /\ ~Queued(n, User(m)) /\ ~AckWritten(n, User(m))
  BY <1>1 DEF Removed, NoRow, Queued, AckWritten
<1>8. CASE Kept(n, User(m)) \/ Relayed(n, User(m))
  BY <1>4, <1>8 DEF Kept, Relayed
<1> QED BY <1>3, <1>5, <1>6, <1>7, <1>8 DEF RowStep

LEMMA TruthfulInit == Stationary /\ Init => Truthful
<1> SUFFICES ASSUME Stationary, Init PROVE Truthful
  OBVIOUS
<1>1. Remembered /\ AckOnlyAfterInbox
  <2>1. AckOnlyAfterInbox
    BY IdFacts DEF Init, AckOnlyAfterInbox, Exists, EmptyTable, NoRow, Has
  <2> QED BY <2>1, TypeInit, MailboxInitially DEF Remembered
<1>2. AddressesRight
  BY DEF Init, Stationary, AddressesRight, NetOf
<1>3. TasksRight /\ DeliveredReceived
  BY IdFacts DEF Init, TasksRight, DeliveredReceived, EmptyTable, NoRow
<1> QED BY <1>1, <1>2, <1>3 DEF Truthful

LEMMA TruthfulStep == Stationary /\ Truthful /\ [Next]_vars => Truthful'
<1> SUFFICES ASSUME Stationary, Truthful, [Next]_vars PROVE Truthful'
  OBVIOUS
<1>1. Remembered' /\ AckOnlyAfterInbox'
  BY MailboxNextStep, AckStep DEF Truthful, Remembered
<1>2. AddressesRight'
  BY AddressesStep DEF Truthful, Remembered
<1> QED BY <1>1, <1>2, TasksRightStep, DeliveredStep DEF Truthful

(* On a network that loses nothing, among machines that stay where they are *)
(* and daemons that keep running, the status 'delivered' is true: what      *)
(* `ib status` calls delivered is in the recipient's inbox.                 *)
THEOREM DeliveredIsTrue == ASSUME Stationary PROVE Spec => []DeliveredMeansReceived
<1>1. Init => Truthful
  BY TruthfulInit
<1>2. Truthful /\ [Next]_vars => Truthful'
  BY TruthfulStep
<1>3. Truthful => DeliveredMeansReceived
  BY StoreAssumption DEF Truthful, DeliveredReceived, DeliveredMeansReceived
<1> QED BY <1>1, <1>2, <1>3, PTL DEF Spec

-----------------------------------------------------------------------------
(* The queue *)

LEMMA LiveStep ==
    ASSUME Mortal = {}, Live = Id, [Next]_vars
    PROVE  age' = age
<1>1. \A id \in Id : age[id] = "live"
  BY DEF Live
<1>2. CASE UNCHANGED vars
  BY <1>2 DEF vars
<1>3. CASE UserStep \/ WireStep
  BY <1>3 DEF UserStep, CliLookup, SendToSelf, SendPending, SendSealed, Submit, WireStep,
              ReceiveFrame, LoseFrame
<1>4. ~TimeStep
  BY <1>1 DEF TimeStep, Expire, GrowAncient
<1>5. ASSUME NEW n \in Node, AttemptStep(n) PROVE age' = age
  BY <1>5 DEF AttemptStep, TcpServe, TcpRefuse, TcpFail, AttemptSucceeds, AttemptFails, Finish
<1>6. ASSUME NEW n \in Node, TimerStep(n) PROVE age' = age
  BY <1>6 DEF TimerStep, RetrySweep, StartupSweep, EpidemicSweep, HourlyCleanup, WatcherTick, Sync
<1>7. ASSUME NEW n \in Node, PeerStep(n) \/ MachineStep(n) PROVE age' = age
  BY <1>7 DEF PeerStep, Hear, Silence, KeyResponse, MachineStep, Crash, Restart, Move
<1> QED BY <1>2, <1>3, <1>4, <1>5, <1>6, <1>7 DEF Next

(* Whatever happens to the row, short of its removal, it stays. *)
LEMMA RowStays ==
    ASSUME NEW n \in Node, NEW id \in Id, RowStep(n, id), Live = Id, Has(store[n], id)
    PROVE  Has(store'[n], id)
BY DEF RowStep, Kept, Removed, Typed, AckWritten, Arrived, Relayed, Settled, Queued, Has

LEMMA SenderStep ==
    ASSUME Mortal = {}, TypeOK, SenderKeepsRow, [Next]_vars
    PROVE  SenderKeepsRow'
<1>1. RowsStep /\ SentStep
  BY StepFootprint, StepSent DEF Footprint
<1>2. Live' = Id
  BY LiveStep DEF SenderKeepsRow, Live
<1>3. ASSUME NEW m \in Msg, cli'[m] = "sent" PROVE Has(store'[Origin[m]], User(m))
  <2>1. Origin[m] \in Node /\ User(m) \in Id
    BY IdFacts, StoreAssumption
  <2>2. CASE cli[m] = "sent"
    BY <1>1, <2>1, <2>2, RowStays DEF RowsStep, SenderKeepsRow
  <2>3. CASE Typed(Origin[m], User(m))
    BY <2>3 DEF Typed, Has
  <2> QED BY <1>1, <1>3, <2>2, <2>3 DEF SentStep
<1> QED BY <1>2, <1>3 DEF SenderKeepsRow, User

(* There, and as long as the ttl does not pass, the sender's row of a       *)
(* message stays queued (waiting for the key, for an attempt, or for the    *)
(* end of one) until the recipient has it.                                  *)
THEOREM QueuedAlways ==
    ASSUME Stationary, Mortal = {} PROVE Spec => []QueuedUntilReceived
<1>1. Init => Truthful /\ SenderKeepsRow
  <2>1. Init => SenderKeepsRow
    BY DEF Init, SenderKeepsRow, Live
  <2> QED BY <2>1, TruthfulInit
<1>2. Truthful /\ SenderKeepsRow /\ [Next]_vars => (Truthful /\ SenderKeepsRow)'
  BY TruthfulStep, SenderStep DEF Truthful, Remembered
<1>3. Truthful /\ SenderKeepsRow => QueuedUntilReceived
  <2> SUFFICES ASSUME Truthful, SenderKeepsRow, NEW m \in Msg, cli[m] = "sent", inbox[m] = 0
               PROVE  store[Origin[m]][User(m)].status
                        \in {"__pending_encryption", "undelivered", "intransit"}
    BY DEF QueuedUntilReceived
  <2>1. Origin[m] \in Node /\ User(m) \in Id
    BY IdFacts, StoreAssumption
  <2>2. store[Origin[m]][User(m)].status \in Status
    BY <2>1 DEF Truthful, Remembered, TypeOK, Table, Row
  <2>3. store[Origin[m]][User(m)].status \notin {"absent", "delivered"}
    BY <2>1 DEF Truthful, DeliveredReceived, SenderKeepsRow, Has
  <2> QED BY <2>2, <2>3 DEF Status
<1> QED BY <1>1, <1>2, <1>3, PTL DEF Spec

-----------------------------------------------------------------------------
(* Keys, as the data plane uses them *)

Pending(t, id) == t[id].status = "__pending_encryption"

(* What waits for a key is a user's message, in plaintext ... *)
PendingIsPlain ==
    \A n \in Node, id \in Id :
        Pending(store[n], id) => id.kind = "msg" /\ store[n][id].payload = "plain"

(* ... to somebody else. *)
PlainToOthers == \A m \in Msg : cli[m] = "plain" => Target[m] # Origin[m]

Patient == Sealed /\ PendingIsPlain /\ PlainToOthers

KeysKnown == [n \in Node |-> KnownPeers(n)]

LEMMA PendingStep ==
    ASSUME TypeOK, PendingIsPlain, [Next]_vars
    PROVE  PendingIsPlain'
<1> SUFFICES ASSUME NEW n \in Node, NEW id \in Id, Pending(store'[n], id)
             PROVE  id.kind = "msg" /\ store'[n][id].payload = "plain"
  BY DEF PendingIsPlain, Pending
<1>1. RowStep(n, id)
  BY StepFootprint DEF Footprint, RowsStep
<1>2. CASE Kept(n, id) \/ Relayed(n, id)
  BY <1>2 DEF Kept, Relayed, PendingIsPlain, Pending
<1>3. CASE Typed(n, id)
  BY <1>3 DEF Typed, Pending
<1>4. ~Removed(n, id) /\ ~AckWritten(n, id) /\ ~Arrived(n, id) /\ ~Settled(n, id) /\ ~Queued(n, id)
  BY DEF Pending, Removed, NoRow, AckWritten, Arrived, Settled, Queued
<1> QED BY <1>1, <1>2, <1>3, <1>4 DEF RowStep

LEMMA PlainToOthersStep ==
    ASSUME TypeOK, PlainToOthers, [Next]_vars
    PROVE  PlainToOthers'
<1>1. CASE cli' = cli
  BY <1>1 DEF PlainToOthers
<1>2. CASE UNCHANGED vars
  BY <1>1, <1>2 DEF vars
<1>3. ASSUME NEW m \in Msg, CliLookup(m) PROVE PlainToOthers'
  BY <1>3 DEF CliLookup, PlainToOthers, TypeOK
<1>4. ASSUME NEW m \in Msg, SendToSelf(m) \/ SendPending(m) \/ SendSealed(m) PROVE PlainToOthers'
  <2>1. cli' = [cli EXCEPT ![m] = "sent"]
    BY <1>4 DEF SendToSelf, SendPending, SendSealed, Submit
  <2> QED BY <2>1 DEF PlainToOthers, TypeOK
<1>5. CASE WireStep \/ TimeStep
  BY <1>1, <1>5 DEF WireStep, ReceiveFrame, LoseFrame, TimeStep, Expire, GrowAncient
<1>6. ASSUME NEW n \in Node, AttemptStep(n) PROVE PlainToOthers'
  BY <1>1, <1>6 DEF AttemptStep, TcpServe, TcpRefuse, TcpFail, AttemptSucceeds, AttemptFails, Finish
<1>7. ASSUME NEW n \in Node, TimerStep(n) PROVE PlainToOthers'
  BY <1>1, <1>7 DEF TimerStep, RetrySweep, StartupSweep, EpidemicSweep, HourlyCleanup, WatcherTick,
                    Sync
<1>8. ASSUME NEW n \in Node, PeerStep(n) \/ MachineStep(n) PROVE PlainToOthers'
  BY <1>1, <1>8 DEF PeerStep, Hear, Silence, KeyResponse, MachineStep, Crash, Restart, Move
<1> QED BY <1>2, <1>3, <1>4, <1>5, <1>6, <1>7, <1>8 DEF Next, UserStep

LEMMA PatientStep == Patient /\ [Next]_vars => Patient'
<1> SUFFICES ASSUME Patient, [Next]_vars PROVE Patient'
  OBVIOUS
<1>1. Sealed'
  BY SealedStep DEF Patient
<1> QED BY <1>1, PendingStep, PlainToOthersStep DEF Patient, Sealed, Remembered

LEMMA PatientInit == Init => Patient
<1> SUFFICES ASSUME Init PROVE Patient
  OBVIOUS
<1>1. PendingIsPlain
  BY DEF Init, PendingIsPlain, Pending, EmptyTable, NoRow
<1>2. PlainToOthers
  BY DEF Init, PlainToOthers
<1> QED BY <1>1, <1>2, SealedInit DEF Patient

(* A row waits from `ib send` to the key_res, or to the cleanup.            *)
LEMMA WaitingRow ==
    ASSUME Patient, [Next]_vars, NEW n \in Node, NEW id \in Id,
           Pending(store'[n], id) # Pending(store[n], id)
    PROVE  \/ Pending(store[n], id) /\ (KeyResponse(n, Dest(id)) \/ id \notin Live)
           \/ ~Pending(store[n], id) /\ SendPending(id.of)
<1>1. TypeOK /\ RowStep(n, id)
  BY StepFootprint DEF Patient, Sealed, Remembered, Footprint, RowsStep
<1>2. CASE Pending(store[n], id)
  <2>1. id.kind = "msg" /\ store[n][id].payload = "plain" /\ Has(store[n], id)
    BY <1>2 DEF Patient, PendingIsPlain, Pending, Has
  <2>2. PICK m \in Msg : id = User(m) /\ m = id.of
    BY <2>1, IdFacts
  <2>3. ~InFlight(User(m)) /\ inbox[m] = 0
    BY <2>1, <2>2 DEF Patient, Sealed, PlainIsAlone, Alone
  <2>4. ~InFlight(Ack(m))
    BY <2>3 DEF Patient, Sealed, AckOnlyAfterInbox, Exists, InFlight
  <2>5. cli[m] = "sent"
    BY <2>1, <2>2 DEF Patient, Sealed, Remembered, InboxRemembered, RowsStarted, Started
  <2>6. ~Arrived(n, id) /\ ~Relayed(n, id) /\ ~Settled(n, id)
    BY <2>2, <2>3, <2>4 DEF Arrived, Relayed, Settled, InFlight
  <2>7. ~Typed(n, id) /\ ~AckWritten(n, id) /\ ~Kept(n, id)
    BY <2>1, <2>2, <2>5 DEF Typed, AckWritten, Kept, Pending
  <2>8. Removed(n, id) \/ Queued(n, id)
    BY <1>1, <2>6, <2>7 DEF RowStep
  <2> QED BY <1>2, <2>8 DEF Removed, Queued, Pending
<1>3. CASE ~Pending(store[n], id)
  <2>1. Typed(n, id)
    BY <1>1, <1>3 DEF RowStep, Pending, Kept, Removed, NoRow, AckWritten, Arrived, Relayed, Settled,
                      Queued
  <2> QED BY <1>3, <2>1 DEF Typed, Pending
<1> QED BY <1>2, <1>3

(* Who waits at n. *)
LEMMA WhoWaits ==
    ASSUME TypeOK, NEW n \in Node, NEW p
    PROVE  p \in Waiting[n] <=> \E id \in Live : Pending(store[n], id) /\ Dest(id) = p
<1>1. \A id \in Live : Dest(id) \in Node
  BY EndsAreNodes DEF Live
<1> QED BY <1>1 DEF Waiting, GetPendingEncryptionMessages, Pending

LEMMA WhoWaitsNext ==
    ASSUME TypeOK', NEW n \in Node, NEW p
    PROVE  p \in Waiting'[n] <=> \E id \in Live' : Pending(store'[n], id) /\ Dest(id) = p
<1>1. \A id \in Live' : Dest(id) \in Node
  BY EndsAreNodes DEF Live
<1> QED BY <1>1 DEF Waiting, GetPendingEncryptionMessages, Pending

(* `ib send` without the key asks, if there is anybody to ask. *)
LEMMA SendAsks ==
    ASSUME Patient, TypeOK', NEW m \in Msg, SendPending(m)
    PROVE  Service!Ask(Origin[m], Target[m])
<1> DEFINE n == Origin[m]
           p == Target[m]
           t == InsertMessage(store[n], User(m), "__pending_encryption", 0, "plain")
<1>1. TypeOK /\ n \in Node /\ p \in Node /\ User(m) \in Id /\ Dest(User(m)) = p
  BY IdFacts, StoreAssumption DEF Patient, Sealed, Remembered, Dest
<1>2. p # n
  BY DEF SendPending, Submit, Patient, PlainToOthers
<1>3. Live' = Live /\ UNCHANGED peers
  BY DEF SendPending, Submit, Live
<1>4. User(m) \in Live
  BY <1>1 DEF SendPending, Submit, Patient, Sealed, Remembered, InboxRemembered, UnsentUntouched,
              Live
<1>5. Pending(t, User(m)) /\ \A id \in Id : id # User(m) => t[id] = store[n][id]
  BY <1>1 DEF InsertMessage, TypeOK, Table, Pending
<1>6. store' = [store EXCEPT ![n] = t]
  BY DEF SendPending
<1>7. store'[n] = t /\ \A q \in Node : q # n => store'[q] = store[q]
  BY <1>1, <1>6 DEF TypeOK
<1> HIDE DEF t
<1>8. \A id \in Live : id \in Id
  BY DEF Live
<1>9. \A q \in Node : q # n => Waiting'[q] = Waiting[q]
  BY <1>3, <1>7 DEF Waiting
<1>10. Waiting'[n] = Waiting[n] \cup {p}
  <2>1. ASSUME NEW r, r \in Waiting'[n] PROVE r \in Waiting[n] \cup {p}
    <3>1. PICK id \in Live : Pending(t, id) /\ Dest(id) = r
      BY <1>1, <1>3, <1>7, <2>1, WhoWaitsNext
    <3>2. CASE id = User(m)
      BY <1>1, <3>1, <3>2
    <3>3. CASE id # User(m)
      BY <1>1, <1>5, <1>8, <3>1, <3>3, WhoWaits DEF Pending
    <3> QED BY <3>2, <3>3
  <2>2. ASSUME NEW r, r \in Waiting[n] PROVE r \in Waiting'[n]
    <3>1. PICK id \in Live : Pending(store[n], id) /\ Dest(id) = r
      BY <1>1, <2>2, WhoWaits
    <3>2. Pending(t, id)
      BY <1>5, <1>8, <3>1 DEF Pending
    <3> QED BY <1>1, <1>3, <1>7, <3>1, <3>2, WhoWaitsNext
  <2>3. p \in Waiting'[n]
    BY <1>1, <1>3, <1>4, <1>5, <1>7, WhoWaitsNext
  <2> QED BY <2>1, <2>2, <2>3
<1>11. Waiting' = [Waiting EXCEPT ![n] = Waiting[n] \cup {p}]
  BY <1>1, <1>9, <1>10 DEF Waiting
<1>12. KeysKnown' = KeysKnown
  BY <1>3 DEF KeysKnown, KnownPeers
<1>13. asked' = [asked EXCEPT ![n] = asked[n] \cup IF ActivePeers(n) = {} THEN {} ELSE {p}]
  BY <1>1 DEF SendPending, FloodKeyRequest, TypeOK
<1> QED BY <1>2, <1>11, <1>12, <1>13 DEF Service!Ask, KeysKnown

(* The key_res stores the key and encrypts all that waits for it. *)
LEMMA ResponseAnswers ==
    ASSUME Patient, TypeOK', NEW n \in Node, NEW p \in Node, KeyResponse(n, p)
    PROVE  Service!Answer(n, p)
<1> DEFINE t == EncryptPending(n, p)
           ids == GetMessagesForDestination(t, Live, p)
<1>1. TypeOK /\ p \in asked[n] /\ asked' = asked /\ Live' = Live
  BY DEF KeyResponse, Live, Patient, Sealed, Remembered
<1>2. KeysKnown' = [KeysKnown EXCEPT ![n] = KeysKnown[n] \cup {p}]
  <2>1. peers' = [peers EXCEPT ![n][p] = IF @ = NoPeer THEN NoIp ELSE @]
    BY DEF KeyResponse
  <2>2. NoIp # NoPeer
    BY DEF NoIp, NoPeer
  <2>3. KnownPeers(n)' = KnownPeers(n) \cup {p}
    BY <1>1, <2>1, <2>2 DEF KnownPeers, TypeOK
  <2>4. \A q \in Node : q # n => KnownPeers(q)' = KnownPeers(q)
    BY <1>1, <2>1 DEF KnownPeers, TypeOK
  <2> QED BY <2>3, <2>4 DEF KeysKnown
<1>3. t \in Table /\ \A id \in Id : Pending(t, id) <=> /\ Pending(store[n], id)
                                                     /\ ~(id \in Live /\ Dest(id) = p)
  <2>1. t \in Table
    BY <1>1, RewriteType DEF TypeOK, EncryptPending
  <2>2. ASSUME NEW id \in Id
        PROVE  Pending(t, id) <=> Pending(store[n], id) /\ ~(id \in Live /\ Dest(id) = p)
    <3>1. store[n][id] \in Row
      BY <1>1 DEF TypeOK, Table
    <3> QED BY <3>1 DEF EncryptPending, BulkEncryptPending, GetPendingEncryptionMessages, Pending, Row
  <2> QED BY <2>1, <2>2
<1>4. ids \in SUBSET Id /\ \A id \in ids : ~Pending(t, id)
  BY DEF GetMessagesForDestination, GetAllPending, Live, Pending
<1>5. StartAttempts(n, t, Reachable(n, ids))
  BY DEF KeyResponse, AttemptAndForward
<1> HIDE DEF t, ids
<1>6. /\ \A q \in Node : q # n => store'[q] = store[q]
      /\ \A id \in Id : store'[n][id] = t[id] \/ (id \in ids /\ store'[n][id].status = "intransit")
  BY <1>1, <1>3, <1>4, <1>5, AttemptRows
<1>7. \A id \in Live : Pending(store'[n], id) <=> Pending(store[n], id) /\ Dest(id) # p
  BY <1>3, <1>4, <1>6 DEF Pending, Live
<1>8. \A q \in Node : q # n => Waiting'[q] = Waiting[q]
  BY <1>1, <1>6 DEF Waiting
<1>9. Waiting'[n] = Waiting[n] \ {p}
  BY <1>1, <1>7, WhoWaits, WhoWaitsNext
<1>10. Waiting' = [Waiting EXCEPT ![n] = Waiting[n] \ {p}]
  BY <1>8, <1>9 DEF Waiting
<1> QED BY <1>1, <1>2, <1>10 DEF Service!Answer, KeysKnown

-----------------------------------------------------------------------------
(* All the other steps. *)

Otherwise == /\ \A m \in Msg : ~SendPending(m)
             /\ \A n, p \in Node : ~KeyResponse(n, p)

(* They ask for nothing, and lose keys only by cleanups. *)
KeysStep ==
    \/ KeysKnown' = KeysKnown
    \/ \E n, p \in Node : KeysKnown' = [KeysKnown EXCEPT ![n] = @ \cup {p}]
    \/ Hours /\ \E n \in Node, gone \in SUBSET Node : KeysKnown' = [KeysKnown EXCEPT ![n] = @ \ gone]

LEMMA PeersKept ==
    ASSUME UNCHANGED <<peers, asked, age>>
    PROVE  asked' = asked /\ age' = age /\ KeysStep
BY DEF KeysStep, KeysKnown, KnownPeers

LEMMA Forgetting ==
    ASSUME TypeOK, NEW n \in Node, NEW silent \in SUBSET Node, NEW gone \in Forgotten(silent),
           \/ peers' = [peers EXCEPT ![n] = ClearAllPeerIPs(n, gone)]
           \/ peers' = [peers EXCEPT ![n] = [p \in Node |-> IF p \in gone THEN NoPeer ELSE @[p]]]
    PROVE  KeysStep
<1>1. NoIp # NoPeer
  BY DEF NoIp, NoPeer
<1>2. gone \in SUBSET Node /\ (gone = {} \/ Hours)
  BY DEF Forgotten
<1>3. KnownPeers(n)' = KnownPeers(n) \ gone
  <2>1. CASE peers' = [peers EXCEPT ![n] = ClearAllPeerIPs(n, gone)]
    BY <1>1, <2>1 DEF KnownPeers, ClearAllPeerIPs, TypeOK
  <2>2. CASE peers' = [peers EXCEPT ![n] = [p \in Node |-> IF p \in gone THEN NoPeer ELSE @[p]]]
    BY <1>1, <2>2 DEF KnownPeers, TypeOK
  <2> QED BY <2>1, <2>2
<1>4. \A q \in Node : q # n => KnownPeers(q)' = KnownPeers(q)
  BY DEF KnownPeers, TypeOK
<1>5. KeysKnown' = [KeysKnown EXCEPT ![n] = KeysKnown[n] \ gone]
  BY <1>3, <1>4 DEF KeysKnown
<1>6. CASE gone = {}
  <2>1. KeysKnown' = KeysKnown
    BY <1>5, <1>6 DEF KeysKnown
  <2> QED BY <2>1 DEF KeysStep
<1> QED BY <1>2, <1>5, <1>6 DEF KeysStep

LEMMA PeerKeys ==
    ASSUME TypeOK, Otherwise, NEW n \in Node,
           PeerStep(n) \/ TimerStep(n) \/ MachineStep(n) \/ AttemptStep(n)
    PROVE  asked' = asked /\ age' = age /\ KeysStep
<1>0. NoIp # NoPeer /\ NoPeer \notin Ip
  BY DataPlaneAssumption DEF NoIp, NoPeer
<1>1. ASSUME NEW p \in Node, Hear(n, p) PROVE asked' = asked /\ age' = age /\ KeysStep
  <2>1. peers' = [peers EXCEPT ![n][p] = IpOf(p)] /\ UNCHANGED <<asked, age>> /\ place[p] # Offline
    BY <1>1 DEF Hear, HeardAddress, Audible
  <2>2. IpOf(p) \in Ip
    BY <2>1 DEF TypeOK, Place, IpOf
  <2>3. KnownPeers(n)' = KnownPeers(n) \cup {p}
    BY <1>0, <2>1, <2>2 DEF KnownPeers, TypeOK
  <2>4. \A q \in Node : q # n => KnownPeers(q)' = KnownPeers(q)
    BY <2>1 DEF KnownPeers, TypeOK
  <2>5. KeysKnown' = [KeysKnown EXCEPT ![n] = KeysKnown[n] \cup {p}]
    BY <2>3, <2>4 DEF KeysKnown
  <2> QED BY <2>1, <2>5 DEF KeysStep
<1>2. ASSUME NEW p \in Node, Silence(n, p) PROVE asked' = asked /\ age' = age /\ KeysStep
  <2>1. /\ peers' = [peers EXCEPT ![n][p] = NoIp] /\ UNCHANGED <<asked, age>>
        /\ peers[n][p] \in Ip
    BY <1>2 DEF Silence, ActivePeers
  <2>2. KeysKnown' = KeysKnown
    BY <1>0, <2>1 DEF KeysKnown, KnownPeers, TypeOK
  <2> QED BY <2>1, <2>2 DEF KeysStep
<1>3. CASE WatcherTick(n)
  <2>1. peers' = [peers EXCEPT ![n] = ClearAllPeerIPs(n, {})] /\ UNCHANGED <<asked, age>>
    BY <1>3 DEF WatcherTick
  <2>2. {} \in Forgotten({})
    BY DEF Forgotten
  <2> QED BY <2>1, <2>2, Forgetting
<1>4. CASE Restart(n)
  <2>1. /\ \E gone \in Forgotten(KnownPeers(n)) :
             peers' = [peers EXCEPT ![n] = ClearAllPeerIPs(n, gone)]
        /\ UNCHANGED <<asked, age>>
    BY <1>4 DEF Restart
  <2>2. KnownPeers(n) \in SUBSET Node
    BY DEF KnownPeers
  <2> QED BY <2>1, <2>2, Forgetting
<1>5. CASE HourlyCleanup(n)
  <2>1. /\ \E gone \in Forgotten({p \in KnownPeers(n) : peers[n][p] = NoIp}) :
             peers' = [peers EXCEPT ![n] = [p \in Node |-> IF p \in gone THEN NoPeer ELSE @[p]]]
        /\ UNCHANGED <<asked, age>>
    BY <1>5 DEF HourlyCleanup
  <2>2. {p \in KnownPeers(n) : peers[n][p] = NoIp} \in SUBSET Node
    BY DEF KnownPeers
  <2> QED BY <2>1, <2>2, Forgetting
<1>6. ASSUME RetrySweep(n) \/ StartupSweep(n) \/ EpidemicSweep(n) \/ Sync(n) \/ Crash(n)
             \/ \E to \in Place : Move(n, to)
      PROVE  UNCHANGED <<peers, asked, age>>
  BY <1>6 DEF RetrySweep, StartupSweep, EpidemicSweep, Sync, Crash, Move
<1>7. ASSUME AttemptStep(n) PROVE UNCHANGED <<peers, asked, age>>
  BY <1>7 DEF AttemptStep, TcpServe, TcpRefuse, TcpFail, AttemptSucceeds, AttemptFails, Finish
<1> QED BY <1>1, <1>2, <1>3, <1>4, <1>5, <1>6, <1>7, PeersKept
       DEF Otherwise, PeerStep, TimerStep, MachineStep

(* Time passes by at most one waiting message at a time. *)
LEMMA TimeGivesUp ==
    ASSUME Patient, TypeOK', TimeStep
    PROVE  /\ UNCHANGED <<asked, peers>>
           /\ \/ Waiting' = Waiting
              \/ /\ Mortal # {}
                 /\ \E n, p \in Node : Waiting' = [Waiting EXCEPT ![n] = @ \ {p}]
<1>0. TypeOK
  BY DEF Patient, Sealed, Remembered
<1>1. UNCHANGED <<asked, peers, store>>
  BY DEF TimeStep, Expire, GrowAncient
<1>2. PICK id \in Id : Expire(id) \/ GrowAncient(id)
  BY DEF TimeStep
<1>3. CASE GrowAncient(id)
  <2>1. Live' = Live
    BY <1>0, <1>3 DEF GrowAncient, Live, TypeOK
  <2> QED BY <1>1, <2>1 DEF Waiting
<1>4. CASE Expire(id)
  <2>1. Live' = Live \ {id} /\ Mortal # {}
    BY <1>0, <1>4 DEF Expire, Live, TypeOK
  <2> DEFINE n == From(id)
             p == Dest(id)
  <2>2. n \in Node /\ p \in Node
    BY EndsAreNodes
  <2>3. ASSUME NEW q \in Node, q # n PROVE ~Pending(store[q], id)
    <3> SUFFICES ASSUME Pending(store[q], id) PROVE FALSE
      OBVIOUS
    <3>1. id.kind = "msg" /\ store[q][id].payload = "plain"
      BY DEF Patient, PendingIsPlain
    <3>2. PICK m \in Msg : id = User(m) /\ m = id.of
      BY <3>1, IdFacts
    <3>3. q = Origin[m]
      BY <3>1, <3>2 DEF Patient, Sealed, PlainIsAlone, Alone
    <3> QED BY <2>3, <3>1, <3>2, <3>3 DEF From
  <2>4. ASSUME NEW q \in Node, q # n PROVE Waiting'[q] = Waiting[q]
    <3>1. \A r : r \in Waiting'[q] <=> r \in Waiting[q]
      BY <1>0, <1>1, <2>1, <2>3, <2>4, WhoWaits, WhoWaitsNext
    <3> QED BY <3>1 DEF Waiting
  <2>5. Waiting'[n] = Waiting[n] \/ Waiting'[n] = Waiting[n] \ {p}
    <3>1. \A r : r \in Waiting'[n] => r \in Waiting[n]
      BY <1>0, <1>1, <2>1, <2>2, WhoWaits, WhoWaitsNext
    <3>2. \A r : r \in Waiting[n] /\ r # p => r \in Waiting'[n]
      BY <1>0, <1>1, <2>1, <2>2, WhoWaits, WhoWaitsNext
    <3> QED BY <3>1, <3>2 DEF Waiting
  <2>6. Waiting' = Waiting \/ Waiting' = [Waiting EXCEPT ![n] = Waiting[n] \ {p}]
    BY <2>2, <2>4, <2>5 DEF Waiting
  <2> QED BY <1>1, <2>1, <2>2, <2>6
<1> QED BY <1>2, <1>3, <1>4

(* No other step takes anything out of the wait, or puts anything there. *)
LEMMA OthersWait ==
    ASSUME Patient, TypeOK', [Next]_vars, Otherwise, age' = age
    PROVE  Waiting' = Waiting
<1>0. TypeOK /\ Live' = Live
  BY DEF Patient, Sealed, Remembered, Live
<1>1. ASSUME NEW n \in Node, NEW id \in Live PROVE Pending(store'[n], id) = Pending(store[n], id)
  <2>1. id \in Id /\ id.of \in Msg /\ Dest(id) \in Node
    BY EndsAreNodes DEF Live, Id
  <2> QED BY <2>1, WaitingRow DEF Otherwise
<1>2. \A n \in Node, p \in Node : p \in Waiting'[n] <=> p \in Waiting[n]
  BY <1>0, <1>1, WhoWaits, WhoWaitsNext
<1> QED BY <1>2 DEF Waiting

LEMMA ServiceStep == Patient /\ [Next]_vars => [Service!Next]_(Service!vars)
<1> SUFFICES ASSUME Patient, [Next]_vars PROVE [Service!Next]_(Service!vars)
  OBVIOUS
<1>0. TypeOK /\ TypeOK'
  BY TypeStep DEF Patient, Sealed, Remembered
<1>1. ASSUME NEW m \in Msg, SendPending(m) PROVE Service!Next
  BY <1>0, <1>1, SendAsks, StoreAssumption DEF Service!Next
<1>2. ASSUME NEW n \in Node, NEW p \in Node, KeyResponse(n, p) PROVE Service!Next
  BY <1>0, <1>2, ResponseAnswers DEF Service!Next
<1>3. ASSUME asked' = asked, Waiting' = Waiting, KeysStep PROVE [Service!Next]_(Service!vars)
  <2>1. CASE KeysKnown' = KeysKnown
    BY <1>3, <2>1 DEF Service!vars, KeysKnown
  <2>2. ASSUME NEW n \in Node, NEW p \in Node, KeysKnown' = [KeysKnown EXCEPT ![n] = @ \cup {p}]
        PROVE  Service!Next
    <3>1. Service!Meet(n, p)
      BY <1>3, <2>2 DEF Service!Meet, KeysKnown
    <3> QED BY <3>1 DEF Service!Next
  <2>3. ASSUME Hours, NEW n \in Node, NEW gone \in SUBSET Node,
               KeysKnown' = [KeysKnown EXCEPT ![n] = @ \ gone]
        PROVE  Service!Next
    <3>1. Service!Forget(n, gone)
      BY <1>3, <2>3 DEF Service!Forget, KeysKnown
    <3> QED BY <3>1 DEF Service!Next
  <2> QED BY <1>3, <2>1, <2>2, <2>3 DEF KeysStep
<1>4. CASE TimeStep
  <2>1. asked' = asked /\ KeysKnown' = KeysKnown
    BY <1>0, <1>4, TimeGivesUp DEF KeysKnown, KnownPeers
  <2>2. CASE Waiting' = Waiting
    BY <2>1, <2>2 DEF Service!vars, KeysKnown
  <2>3. ASSUME Mortal # {}, NEW n \in Node, NEW p \in Node,
               Waiting' = [Waiting EXCEPT ![n] = @ \ {p}]
        PROVE  Service!Next
    <3>1. Service!GiveUp(n, p)
      BY <2>1, <2>3 DEF Service!GiveUp, KeysKnown
    <3> QED BY <3>1 DEF Service!Next
  <2> QED BY <1>0, <1>4, <2>2, <2>3, TimeGivesUp
<1>5. CASE Otherwise /\ ~TimeStep
  <2>1. ASSUME UNCHANGED <<peers, asked, age>> PROVE asked' = asked /\ age' = age /\ KeysStep
    BY <2>1, PeersKept
  <2>2. ASSUME UserStep \/ WireStep PROVE UNCHANGED <<peers, asked, age>>
    BY <1>5, <2>2 DEF Otherwise, UserStep, CliLookup, SendToSelf, SendSealed, Submit, WireStep,
                      ReceiveFrame, LoseFrame
  <2>3. asked' = asked /\ age' = age /\ KeysStep
    BY <1>0, <1>5, <2>1, <2>2, PeerKeys DEF Next, vars
  <2> QED BY <1>0, <1>3, <1>5, <2>3, OthersWait
<1> QED BY <1>1, <1>2, <1>4, <1>5 DEF Otherwise

(* The data plane and key discovery meet in KeyService: whatever sweeps,    *)
(* restarts, moves and copies from elsewhere do, a message that waits for a *)
(* key is taken up by the key_res that was asked for, all of one recipient  *)
(* at once, or its ttl ends; and rows of peers go only with the cleanup.    *)
THEOREM ImplementsKeyService == Spec => ServiceUsed
<1>1. Init => Service!Init
  <2> SUFFICES ASSUME Init PROVE Service!Init
    OBVIOUS
  <2>1. Waiting = [n \in Node |-> {}]
    BY DEF Init, Waiting, GetPendingEncryptionMessages, EmptyTable, NoRow, Live
  <2> QED BY <2>1 DEF Init, Service!Init, KnownPeers
<1> QED BY <1>1, PatientInit, PatientStep, ServiceStep, PTL DEF Spec, ServiceUsed, Service!ServiceSpec
=============================================================================
