--------------------------- MODULE DataPlaneProofs ---------------------------
(***************************************************************************)
(* Theorems about DataPlane, for every set of nodes, networks, addresses   *)
(* and messages and every value of the bounds.                             *)
(***************************************************************************)
EXTENDS DataPlane, TLAPS

-----------------------------------------------------------------------------
(* The queries of MessageStore map tables to tables. *)

LEMMA IdFacts ==
    /\ \A m \in Msg : User(m) \in Id /\ Ack(m) \in Id /\ User(m).of = m /\ Ack(m).of = m
                      /\ User(m).kind = "msg" /\ Ack(m).kind = "ack"
    /\ \A id \in Id : id.of \in Msg /\ (id.kind = "msg" \/ id.kind = "ack")
    /\ \A id \in Id : id.kind = "msg" => id = User(id.of)
    /\ \A id \in Id : id.kind = "ack" => id = Ack(id.of)
BY DEF Id, User, Ack

LEMMA EndsAreNodes == \A id \in Id : From(id) \in Node /\ Dest(id) \in Node
BY StoreAssumption, IdFacts DEF From, Dest

LEMMA EmptyTableType == EmptyTable \in Table
BY StoreAssumption DEF EmptyTable, NoRow, Table, Row, Status, Payload

LEMMA InsertType ==
    ASSUME NEW t \in Table, NEW id \in Id, NEW status \in Status, NEW hop \in 0..HopLimit,
           NEW payload \in Payload
    PROVE  InsertMessage(t, id, status, hop, payload) \in Table
BY DEF InsertMessage, Table, Row

LEMMA UpsertType ==
    ASSUME NEW t \in Table, NEW id \in Id, NEW status \in Status, NEW hop \in 0..HopLimit,
           NEW payload \in Payload
    PROVE  UpsertMessage(t, id, status, hop, payload) \in Table
BY InsertType DEF UpsertMessage, Table, Row

LEMMA SetStatusType ==
    ASSUME NEW t \in Table, NEW id \in Id, NEW status \in Status
    PROVE  SetStatus(t, id, status) \in Table
BY DEF SetStatus, Table, Row

LEMMA MarkType ==
    ASSUME NEW t \in Table, NEW id \in Id
    PROVE  MarkDelivered(t, id) \in Table /\ MarkUndelivered(t, id) \in Table
BY SetStatusType DEF MarkDelivered, MarkUndelivered, Status

LEMMA RewriteType ==
    ASSUME NEW t \in Table, NEW ids
    PROVE  /\ MarkInTransit(t, ids) \in Table
           /\ BulkEncryptPending(t, ids) \in Table
           /\ ResetInTransit(t) \in Table
BY DEF MarkInTransit, BulkEncryptPending, ResetInTransit, Table, Row, Status, Payload

LEMMA CleanType ==
    ASSUME NEW t \in Table, NEW dead, NEW old
    PROVE  CleanExpired(t, dead, old) \in Table
BY StoreAssumption DEF CleanExpired, NoRow, Table, Row, Status, Payload

LEMMA PendingFacts ==
    ASSUME NEW t \in Table
    PROVE  /\ GetAllPending(t, Live) \subseteq Live
           /\ \A id \in GetAllPending(t, Live) : Has(t, id) /\ t[id].hop \in 0..(HopLimit - 1)
           /\ \A p : GetMessagesForDestination(t, Live, p) \subseteq GetAllPending(t, Live)
BY StoreAssumption DEF GetAllPending, GetMessagesForDestination, Has, Live, Table, Row

-----------------------------------------------------------------------------
(* What the shared parts of the actions do to the variables' types. *)

LEMMA PlaceFacts ==
    ASSUME TypeOK, NEW n \in Node
    PROVE  /\ IpOf(n) \in Address /\ NetOf(n) \in Net \cup {"offline"}
           /\ place[n] # Offline => IpOf(n) \in Ip /\ NetOf(n) \in Net
<1>1. place[n] \in (Net \X Ip) \cup {Offline}
  BY DEF TypeOK, Place
<1>2. CASE place[n] = Offline
  BY <1>2 DEF Offline, IpOf, NetOf, Address
<1>3. CASE place[n] \in Net \X Ip
  BY <1>3 DEF IpOf, NetOf, Address
<1> QED BY <1>1, <1>2, <1>3

LEMMA ForwardType ==
    ASSUME TypeOK, NEW n \in Node, NEW t \in Table, NEW targets, targets \subseteq ActivePeers(n),
           NEW out \in ForwardMessages(n, t, targets)
    PROVE  out \subseteq Frame
<1>1. CASE place[n] = Offline
  BY <1>1 DEF ForwardMessages
<1>2. CASE place[n] # Offline
  <2>1. ASSUME NEW f \in out
        PROVE  \E p \in targets, id \in GetAllPending(t, Live) : f = RelayFrame(n, t, p, id)
    BY <1>2, <2>1 DEF ForwardMessages, Carriers
  <2>2. ASSUME NEW p \in targets, NEW id \in GetAllPending(t, Live)
        PROVE  RelayFrame(n, t, p, id) \in Frame
    <3>1. peers[n][p] \in Ip
      BY DEF ActivePeers
    <3>2. id \in Id /\ t[id].hop \in 0..(HopLimit - 1) /\ t[id].payload \in Payload
      BY PendingFacts DEF Live, Table, Row
    <3>3. NetOf(n) \in Net /\ IpOf(n) \in Ip
      BY <1>2, PlaceFacts
    <3> QED BY <3>1, <3>2, <3>3 DEF RelayFrame, Frame
  <2> QED BY <2>1, <2>2
<1> QED BY <1>1, <1>2

LEMMA AttemptType ==
    ASSUME TypeOK, NEW n \in Node, NEW t \in Table, NEW ids,
           ids \subseteq {id \in Id : t[id].hop < HopLimit},
           StartAttempts(n, t, Reachable(n, ids))
    PROVE  store' \in [Node -> Table] /\ tasks' \in [Node -> SUBSET Task]
<1> DEFINE tried == Reachable(n, ids)
<1>1. MarkInTransit(t, tried) \in Table
  BY RewriteType
<1>2. store' \in [Node -> Table]
  BY <1>1 DEF TypeOK, StartAttempts
<1>3. ASSUME NEW id \in tried
      PROVE  NewTask(n, t, id) \in Task
  <2>1. id \in Id /\ t[id].hop \in 0..(HopLimit - 1) /\ peers[n][Dest(id)] \in Ip
    <3>1. id \in Id /\ t[id].hop < HopLimit /\ peers[n][Dest(id)] \in Ip
      BY DEF Reachable
    <3>2. t[id].hop \in 0..HopLimit
      BY <3>1 DEF Table, Row
    <3> QED BY <3>1, <3>2, StoreAssumption
  <2>2. (CHOOSE k \in FreeTries(n, id) : TRUE) \in 1..MaxTries
    BY DEF StartAttempts, FreeTries
  <2>3. NetOf(n) \in Net \cup {"offline"}
    BY PlaceFacts
  <2> QED BY <2>1, <2>2, <2>3 DEF NewTask, Task, Stage
<1>4. tasks' \in [Node -> SUBSET Task]
  BY <1>3 DEF TypeOK, StartAttempts
<1> QED BY <1>2, <1>4

LEMMA AttemptAndForwardType ==
    ASSUME TypeOK, NEW n \in Node, NEW t \in Table, NEW ids,
           ids \subseteq {id \in Id : t[id].hop < HopLimit},
           AttemptAndForward(n, t, ids)
    PROVE  store' \in [Node -> Table] /\ tasks' \in [Node -> SUBSET Task] /\ wire' \subseteq Frame
<1>1. store' \in [Node -> Table] /\ tasks' \in [Node -> SUBSET Task]
  BY AttemptType DEF AttemptAndForward
<1>2. MarkInTransit(t, Reachable(n, ids)) \in Table
  BY RewriteType
<1>3. PICK out \in ForwardMessages(n, MarkInTransit(t, Reachable(n, ids)), ActivePeers(n)) :
        wire' = wire \cup out
  BY DEF AttemptAndForward
<1>4. out \subseteq Frame
  BY <1>2, ForwardType
<1> QED BY <1>1, <1>3, <1>4 DEF TypeOK

LEMMA PendingHop ==
    ASSUME NEW t \in Table
    PROVE  /\ GetAllPending(t, Live) \subseteq {id \in Id : t[id].hop < HopLimit}
           /\ \A p : GetMessagesForDestination(t, Live, p) \subseteq {id \in Id : t[id].hop < HopLimit}
BY PendingFacts DEF Live, GetAllPending, GetMessagesForDestination

LEMMA SendAckType ==
    ASSUME NEW n \in Node, NEW t \in Table, NEW m \in Msg
    PROVE  SendAck(n, t, m) \in Table
<1>1. Ack(m) \in Id /\ 0 \in 0..HopLimit /\ "undelivered" \in Status
  BY IdFacts, StoreAssumption DEF Status
<1>2. \A payload \in Payload : InsertMessage(t, Ack(m), "undelivered", 0, payload) \in Table
  BY <1>1, InsertType
<1>3. (IF peers[n][Origin[m]] = NoPeer THEN "plain" ELSE "sealed") \in Payload
  BY DEF Payload
<1> QED BY <1>2, <1>3 DEF SendAck

LEMMA ReceiveType ==
    ASSUME TypeOK, NEW n \in Node, NEW t \in Table, NEW id \in Id, NEW hop \in 0..HopLimit,
           NEW payload \in Payload, NEW outcome \in Outcome, Receive(n, t, id, hop, payload, outcome)
    PROVE  /\ store' \in [Node -> Table]
           /\ inbox' \in [Msg -> Nat]
           /\ faults' \in 0..MaxFaults
<1>1. StoreDelivered(t, id, hop, payload) \in Table
  <2>1. UpsertMessage(t, id, "delivered", hop, payload) \in Table
    BY UpsertType DEF Status
  <2> QED BY <2>1, MarkType DEF StoreDelivered
<1>2. SendAck(n, StoreDelivered(t, id, hop, payload), id.of) \in Table
  BY <1>1, SendAckType, IdFacts
<1>3. store' \in [Node -> Table]
  <2>1. PICK s \in Table : store' = [store EXCEPT ![n] = s]
    <3>1. CASE outcome = "no row"
      BY <3>1 DEF Receive, Acknowledged
    <3>2. CASE outcome # "no row"
      BY <1>1, <1>2, <3>2 DEF Receive
    <3> QED BY <3>1, <3>2
  <2> QED BY <2>1 DEF TypeOK
<1>4. inbox' \in [Msg -> Nat]
  <2>1. id.of \in Msg /\ inbox \in [Msg -> Nat] /\ inbox[id.of] \in Nat
    BY IdFacts DEF TypeOK
  <2>2. inbox' = [inbox EXCEPT ![id.of] = inbox[id.of]] \/ inbox' = [inbox EXCEPT ![id.of] = inbox[id.of] + 1]
    BY DEF Receive
  <2>3. \A k \in Nat : [inbox EXCEPT ![id.of] = k] \in [Msg -> Nat]
    BY <2>1
  <2> QED BY <2>1, <2>2, <2>3
<1>5. faults' \in 0..MaxFaults
  <2>1. CASE outcome = "done"
    BY <2>1 DEF Receive, TypeOK
  <2>2. CASE outcome # "done"
    <3>1. faults < MaxFaults /\ faults' = faults + 1
      BY <2>2 DEF Receive, Outcome
    <3> QED BY <3>1, DataPlaneAssumption DEF TypeOK
  <2> QED BY <2>1, <2>2
<1> QED BY <1>3, <1>4, <1>5

LEMMA DeliverType ==
    ASSUME TypeOK, NEW n \in Node, NEW id \in Id, NEW hop \in 0..HopLimit, NEW payload \in Payload,
           Deliver(n, id, hop, payload)
    PROVE  /\ store' \in [Node -> Table]
           /\ inbox' \in [Msg -> Nat]
           /\ faults' \in 0..MaxFaults
<1>1. CASE UNCHANGED <<store, inbox, faults>>
  BY <1>1 DEF TypeOK
<1>2. CASE id.kind = "ack" /\ store' = [store EXCEPT ![n] = MarkDelivered(@, User(id.of))]
           /\ UNCHANGED <<inbox, faults>>
  <2>1. MarkDelivered(store[n], User(id.of)) \in Table
    BY MarkType, IdFacts DEF TypeOK
  <2> QED BY <1>2, <2>1 DEF TypeOK
<1>3. CASE \E outcome \in Outcome : Receive(n, store[n], id, hop, payload, outcome)
  <2>1. store[n] \in Table
    BY DEF TypeOK
  <2> QED BY <1>3, <2>1, ReceiveType
<1> QED BY <1>1, <1>2, <1>3 DEF Deliver

LEMMA FrameFacts ==
    ASSUME TypeOK, NEW n \in Node, NEW a \in tasks[n]
    PROVE  /\ a \in Task
           /\ place[n] # Offline => DeliverFrame(n, a) \in Frame
<1>1. a \in Task
  BY DEF TypeOK
<1>2. ASSUME place[n] # Offline PROVE DeliverFrame(n, a) \in Frame
  BY <1>1, <1>2, PlaceFacts DEF DeliverFrame, Frame, Task, Payload
<1> QED BY <1>1, <1>2

LEMMA StageType ==
    ASSUME TypeOK, NEW n \in Node, NEW a \in tasks[n], NEW stage \in Stage, SetStage(n, a, stage)
    PROVE  tasks' \in [Node -> SUBSET Task]
<1>1. [a EXCEPT !.stage = stage] \in Task
  <2>1. a \in Task
    BY DEF TypeOK
  <2> QED BY <2>1 DEF Task
<1>2. tasks[n] \subseteq Task
  BY DEF TypeOK
<1>3. (tasks[n] \ {a}) \cup {[a EXCEPT !.stage = stage]} \in SUBSET Task
  BY <1>1, <1>2
<1>4. \A S \in SUBSET Task : [tasks EXCEPT ![n] = S] \in [Node -> SUBSET Task]
  BY DEF TypeOK
<1>5. tasks' = [tasks EXCEPT ![n] = (tasks[n] \ {a}) \cup {[a EXCEPT !.stage = stage]}]
  BY DEF SetStage
<1> QED BY <1>3, <1>4, <1>5

-----------------------------------------------------------------------------
(* TypeOK is inductive. *)

LEMMA TypeInit == Init => TypeOK
<1> SUFFICES ASSUME Init PROVE TypeOK
  OBVIOUS
<1>1. store \in [Node -> Table]
  BY EmptyTableType DEF Init
<1>2. watched \in [Node -> Address]
  <2>1. ASSUME NEW n \in Node PROVE Home[n][2] \in Address
    <3>1. Home[n] \in (Net \X Ip) \cup {Offline}
      BY DataPlaneAssumption DEF Place
    <3>2. CASE Home[n] = Offline
      BY <3>2 DEF Offline, Address
    <3>3. CASE Home[n] \in Net \X Ip
      BY <3>3 DEF Address
    <3> QED BY <3>1, <3>2, <3>3
  <2> QED BY <2>1 DEF Init
<1>3. faults \in 0..MaxFaults /\ moves \in 0..MaxMoves
  BY DataPlaneAssumption DEF Init
<1>4. /\ peers \in [Node -> [Node -> Ip \cup {NoIp, NoPeer}]]
      /\ tasks \in [Node -> SUBSET Task]
      /\ sweepDue \in [Node -> BOOLEAN] /\ up \in [Node -> BOOLEAN]
      /\ asked \in [Node -> SUBSET Node]
      /\ place \in [Node -> Place]
  BY DataPlaneAssumption DEF Init
<1>5. wire \subseteq Frame /\ inbox \in [Msg -> Nat] /\ cli \in [Msg -> CliState] /\ age \in [Id -> Age]
  BY DEF Init, CliState, Age
<1> QED BY <1>1, <1>2, <1>3, <1>4, <1>5 DEF TypeOK

LEMMA UserStepType == TypeOK /\ UserStep => TypeOK'
<1> SUFFICES ASSUME TypeOK, NEW m \in Msg,
                    CliLookup(m) \/ SendToSelf(m) \/ SendPending(m) \/ SendSealed(m)
             PROVE  TypeOK'
  BY DEF UserStep
<1> DEFINE n == Origin[m]
<1>1. /\ n \in Node /\ Target[m] \in Node /\ User(m) \in Id /\ User(m).of = m
      /\ store[n] \in Table
  BY StoreAssumption, IdFacts DEF TypeOK
<1>2. 0 \in 0..HopLimit /\ 0 < HopLimit
  BY StoreAssumption
<1>3. CASE CliLookup(m)
  BY <1>3 DEF CliLookup, TypeOK, CliState
<1>4. ASSUME NEW state, Submit(m, state)
      PROVE  /\ cli' \in [Msg -> CliState]
             /\ UNCHANGED <<peers, sweepDue, watched, up, place, age, moves>>
  BY <1>4 DEF Submit, TypeOK, CliState
<1> DEFINE sealed == InsertMessage(store[n], User(m), "undelivered", 0, "sealed")
<1>5. sealed \in Table /\ sealed[User(m)].hop = 0
  <2>1. sealed \in Table
    BY <1>1, <1>2, InsertType DEF Status, Payload
  <2>2. sealed[User(m)].hop = 0
    BY <1>1 DEF InsertMessage, TypeOK, Table
  <2> QED BY <2>1, <2>2
<1>6. CASE SendToSelf(m)
  <2>1. PICK outcome \in Outcome : Receive(n, sealed, User(m), 0, "sealed", outcome)
    BY <1>6 DEF SendToSelf
  <2>2. store' \in [Node -> Table] /\ inbox' \in [Msg -> Nat] /\ faults' \in 0..MaxFaults
    BY <1>1, <1>2, <1>5, <2>1, ReceiveType DEF Payload
  <2>3. UNCHANGED <<tasks, asked, wire>> /\ Submit(m, "sealed")
    BY <1>6 DEF SendToSelf
  <2> QED BY <1>4, <2>2, <2>3 DEF TypeOK
<1>7. CASE SendPending(m)
  <2>1. InsertMessage(store[n], User(m), "__pending_encryption", 0, "plain") \in Table
    BY <1>1, <1>2, InsertType DEF Status, Payload
  <2>2. store' \in [Node -> Table]
    BY <1>1, <1>7, <2>1 DEF SendPending, TypeOK
  <2>3. asked' \in [Node -> SUBSET Node]
    BY <1>1, <1>7 DEF SendPending, FloodKeyRequest, TypeOK
  <2>4. UNCHANGED <<tasks, wire, inbox, faults>> /\ Submit(m, "plain")
    BY <1>7 DEF SendPending
  <2> QED BY <1>4, <2>2, <2>3, <2>4 DEF TypeOK
<1>8. CASE SendSealed(m)
  <2>1. AttemptAndForward(n, sealed, {User(m)})
    BY <1>8 DEF SendSealed
  <2>2. {User(m)} \subseteq {id \in Id : sealed[id].hop < HopLimit}
    BY <1>1, <1>2, <1>5
  <2>3. store' \in [Node -> Table] /\ tasks' \in [Node -> SUBSET Task] /\ wire' \subseteq Frame
    BY <1>1, <1>5, <2>1, <2>2, AttemptAndForwardType
  <2>4. UNCHANGED <<asked, inbox, faults>> /\ Submit(m, "sealed")
    BY <1>8 DEF SendSealed
  <2> QED BY <1>4, <2>3, <2>4 DEF TypeOK
<1> QED BY <1>3, <1>6, <1>7, <1>8

LEMMA AttemptStepType == ASSUME TypeOK, NEW n \in Node, AttemptStep(n) PROVE TypeOK'
<1> PICK a \in tasks[n] : \/ TcpServe(n, a) \/ TcpRefuse(n, a) \/ TcpFail(n, a)
                         \/ AttemptSucceeds(n, a) \/ AttemptFails(n, a)
  BY DEF AttemptStep
<1>1. a \in Task /\ a.id \in Id /\ a.hop \in 0..HopLimit
  <2>1. a \in Task
    BY FrameFacts
  <2>2. a.id \in Id /\ a.hop \in 0..(HopLimit - 1)
    BY <2>1 DEF Task
  <2> QED BY <2>1, <2>2, StoreAssumption
<1>2. {"acked", "nacked", "udpsent", "failed"} \subseteq Stage
  BY DEF Stage
<1>3. CASE TcpServe(n, a)
  <2>1. PICK q \in Node : Deliver(q, a.id, a.hop, "sealed")
    BY <1>3 DEF TcpServe, Listeners
  <2>2. store' \in [Node -> Table] /\ inbox' \in [Msg -> Nat] /\ faults' \in 0..MaxFaults
    BY <1>1, <2>1, DeliverType DEF Payload
  <2>3. tasks' \in [Node -> SUBSET Task]
    BY <1>2, <1>3, StageType DEF TcpServe
  <2>4. UNCHANGED <<peers, sweepDue, watched, asked, up, place, wire, cli, age, moves>>
    BY <1>3 DEF TcpServe
  <2> QED BY <2>2, <2>3, <2>4 DEF TypeOK
<1>4. CASE TcpRefuse(n, a)
  <2>1. tasks' \in [Node -> SUBSET Task]
    BY <1>2, <1>4, StageType DEF TcpRefuse
  <2>2. UNCHANGED <<store, peers, sweepDue, watched, asked, up, place, wire, inbox, cli, age,
                    faults, moves>>
    BY <1>4 DEF TcpRefuse
  <2> QED BY <2>1, <2>2 DEF TypeOK
<1>5. CASE TcpFail(n, a)
  <2>1. tasks' \in [Node -> SUBSET Task]
    BY <1>2, <1>5, StageType DEF TcpFail
  <2>2. wire' \subseteq Frame
    <3>1. wire \subseteq Frame
      BY DEF TypeOK
    <3>2. PICK late : /\ late = {} \/ (place[n] # Offline /\ late = {DeliverFrame(n, a)})
                      /\ \/ place[n] # Offline /\ wire' = wire \cup late \cup {DeliverFrame(n, a)}
                         \/ wire' = wire \cup late
      BY <1>5 DEF TcpFail
    <3> QED BY <3>1, <3>2, FrameFacts
  <2>3. UNCHANGED <<store, peers, sweepDue, watched, asked, up, place, inbox, cli, age,
                    faults, moves>>
    BY <1>5 DEF TcpFail
  <2> QED BY <2>1, <2>2, <2>3 DEF TypeOK
<1>6. ASSUME Finish(n, a) PROVE tasks' \in [Node -> SUBSET Task]
  BY <1>6 DEF Finish, TypeOK
<1>7. ASSUME NEW t \in Table, store' = [store EXCEPT ![n] = t] PROVE store' \in [Node -> Table]
  BY <1>7 DEF TypeOK
<1>8. store[n] \in Table
  BY DEF TypeOK
<1>9. CASE AttemptSucceeds(n, a)
  <2>1. store' \in [Node -> Table]
    BY <1>1, <1>7, <1>8, <1>9, MarkType DEF AttemptSucceeds
  <2>2. Finish(n, a)
    BY <1>9 DEF AttemptSucceeds
  <2> QED BY <1>6, <2>1, <2>2 DEF Finish, TypeOK
<1>10. CASE AttemptFails(n, a)
  <2>1. store' \in [Node -> Table]
    BY <1>1, <1>7, <1>8, <1>10, MarkType DEF AttemptFails
  <2>2. Finish(n, a)
    BY <1>10 DEF AttemptFails
  <2> QED BY <1>6, <2>1, <2>2 DEF Finish, TypeOK
<1> QED BY <1>3, <1>4, <1>5, <1>9, <1>10

LEMMA RelayType ==
    ASSUME TypeOK, NEW n \in Node, NEW f \in wire, Relay(n, f)
    PROVE  store' \in [Node -> Table] /\ wire' \subseteq Frame
<1> DEFINE t == UpsertMessage(store[n], f.id, "undelivered", RelayHop(f), f.payload)
<1>1. f \in Frame /\ f.id \in Id /\ f.payload \in Payload /\ f.hop \in 0..(HopLimit - 1)
  <2>1. f \in Frame
    BY DEF TypeOK
  <2> QED BY <2>1 DEF Frame
<1>2. RelayHop(f) \in 0..HopLimit
  BY <1>1, StoreAssumption DEF RelayHop
<1>3. store[n] \in Table
  BY DEF TypeOK
<1>4. t \in Table
  BY <1>1, <1>2, <1>3, UpsertType DEF Status
<1>5. store' \in [Node -> Table]
  BY <1>4 DEF Relay, TypeOK
<1>6. PICK rest \in Consumed(f) :
        \/ wire' = rest
        \/ \E out \in ForwardMessages(n, t, SpreadPeers(n, f.src)) : wire' = rest \cup out
  BY DEF Relay
<1>7. rest \subseteq Frame
  BY DEF Consumed, TypeOK
<1>8. \A out \in ForwardMessages(n, t, SpreadPeers(n, f.src)) : out \subseteq Frame
  <2>1. SpreadPeers(n, f.src) \subseteq ActivePeers(n)
    BY DEF SpreadPeers
  <2> QED BY <1>4, <2>1, ForwardType
<1> QED BY <1>5, <1>6, <1>7, <1>8

LEMMA WireStepType == TypeOK /\ WireStep => TypeOK'
<1> SUFFICES ASSUME TypeOK, NEW f \in wire, ReceiveFrame(f) \/ LoseFrame(f) PROVE TypeOK'
  BY DEF WireStep
<1>1. f.id \in Id /\ f.payload \in Payload /\ f.hop \in 0..HopLimit
  <2>1. f \in Frame
    BY DEF TypeOK
  <2>2. f.id \in Id /\ f.payload \in Payload /\ f.hop \in 0..(HopLimit - 1)
    BY <2>1 DEF Frame
  <2> QED BY <2>2, StoreAssumption
<1>2. CASE LoseFrame(f)
  BY <1>2 DEF LoseFrame, TypeOK
<1>3. CASE ReceiveFrame(f)
  <2>0. PICK n \in Listeners(f.net, f.to) :
           \/ /\ f.type = "relay" /\ Dest(f.id) # n
              /\ Relay(n, f)
           \/ /\ f.type = "deliver" \/ Dest(f.id) = n
              /\ wire' \in Consumed(f)
              /\ Deliver(n, f.id, f.hop, f.payload)
    BY <1>3 DEF ReceiveFrame
  <2>1. /\ n \in Node
        /\ \/ Relay(n, f)
           \/ wire' \in Consumed(f) /\ Deliver(n, f.id, f.hop, f.payload)
    BY <2>0 DEF Listeners
  <2>2. UNCHANGED <<peers, tasks, sweepDue, watched, asked, up, place, cli, age, moves>>
    BY <1>3 DEF ReceiveFrame
  <2>3. CASE Relay(n, f)
    <3>1. store' \in [Node -> Table] /\ wire' \subseteq Frame
      BY <2>1, <2>3, RelayType
    <3>2. UNCHANGED <<inbox, faults>>
      BY <2>3 DEF Relay
    <3> QED BY <2>2, <3>1, <3>2 DEF TypeOK
  <2>4. CASE wire' \in Consumed(f) /\ Deliver(n, f.id, f.hop, f.payload)
    <3>1. store' \in [Node -> Table] /\ inbox' \in [Msg -> Nat] /\ faults' \in 0..MaxFaults
      BY <1>1, <2>1, <2>4, DeliverType
    <3>2. wire' \subseteq Frame
      BY <2>4 DEF Consumed, TypeOK
    <3> QED BY <2>2, <3>1, <3>2 DEF TypeOK
  <2> QED BY <2>1, <2>3, <2>4
<1> QED BY <1>2, <1>3

LEMMA CleanNodeType ==
    ASSUME TypeOK, NEW n \in Node, store' = [store EXCEPT ![n] = Clean(n)]
    PROVE  store' \in [Node -> Table]
<1>1. Clean(n) \in Table
  BY CleanType DEF Clean, TypeOK
<1> QED BY <1>1 DEF TypeOK

LEMMA TimerStepType == ASSUME TypeOK, NEW n \in Node, TimerStep(n) PROVE TypeOK'
<1>1. store[n] \in Table /\ ResetInTransit(store[n]) \in Table
  BY RewriteType DEF TypeOK
<1>2. CASE RetrySweep(n)
  <2>1. store' \in [Node -> Table] /\ tasks' \in [Node -> SUBSET Task]
    BY <1>1, <1>2, PendingHop, AttemptType DEF RetrySweep
  <2> QED BY <1>2, <2>1 DEF RetrySweep, TypeOK
<1>3. CASE StartupSweep(n)
  <2>1. store' \in [Node -> Table] /\ tasks' \in [Node -> SUBSET Task]
    BY <1>1, <1>3, PendingHop, AttemptType DEF StartupSweep
  <2> QED BY <1>3, <2>1 DEF StartupSweep, TypeOK
<1>4. CASE EpidemicSweep(n)
  <2>1. PICK out \in ForwardMessages(n, store[n], ActivePeers(n)) : wire' = wire \cup out
    BY <1>4 DEF EpidemicSweep
  <2>2. out \subseteq Frame
    BY <1>1, <2>1, ForwardType
  <2>3. wire' \subseteq Frame
    BY <2>1, <2>2 DEF TypeOK
  <2>4. UNCHANGED <<store, peers, tasks, sweepDue, watched, asked, up, place, inbox, cli, age,
                    faults, moves>>
    BY <1>4 DEF EpidemicSweep
  <2> QED BY <2>3, <2>4 DEF TypeOK
<1>5. CASE HourlyCleanup(n)
  <2>1. store' \in [Node -> Table]
    BY <1>5, CleanNodeType DEF HourlyCleanup
  <2>2. peers' \in [Node -> [Node -> Ip \cup {NoIp, NoPeer}]]
    BY <1>5 DEF HourlyCleanup, TypeOK
  <2>3. UNCHANGED <<tasks, sweepDue, watched, asked, up, place, wire, inbox, cli, age, faults, moves>>
    BY <1>5 DEF HourlyCleanup
  <2> QED BY <2>1, <2>2, <2>3 DEF TypeOK
<1>6. CASE WatcherTick(n)
  <2>1. watched' \in [Node -> Address]
    BY <1>6, PlaceFacts DEF WatcherTick, TypeOK
  <2>2. peers' \in [Node -> [Node -> Ip \cup {NoIp, NoPeer}]]
    BY <1>6 DEF WatcherTick, ClearAllPeerIPs, TypeOK
  <2>3. sweepDue' \in [Node -> BOOLEAN]
    BY <1>6 DEF WatcherTick, TypeOK
  <2>4. UNCHANGED <<store, tasks, asked, up, place, wire, inbox, cli, age, faults, moves>>
    BY <1>6 DEF WatcherTick
  <2> QED BY <2>1, <2>2, <2>3, <2>4 DEF TypeOK
<1>7. CASE Sync(n)
  <2>1. store' \in [Node -> Table] /\ tasks' \in [Node -> SUBSET Task] /\ wire' \subseteq Frame
    BY <1>1, <1>7, PendingHop, AttemptAndForwardType DEF Sync
  <2>2. UNCHANGED <<peers, sweepDue, watched, asked, up, place, inbox, cli, age, faults, moves>>
    BY <1>7 DEF Sync
  <2> QED BY <2>1, <2>2 DEF TypeOK
<1> QED BY <1>2, <1>3, <1>4, <1>5, <1>6, <1>7 DEF TimerStep

LEMMA PeerStepType == ASSUME TypeOK, NEW n \in Node, PeerStep(n) PROVE TypeOK'
<1> PICK p \in Node : Hear(n, p) \/ Silence(n, p) \/ KeyResponse(n, p)
  BY DEF PeerStep
<1>1. CASE Hear(n, p)
  <2>1. IpOf(p) \in Ip
    BY <1>1, PlaceFacts DEF Hear, Audible
  <2>2. peers' \in [Node -> [Node -> Ip \cup {NoIp, NoPeer}]]
    BY <1>1, <2>1 DEF Hear, HeardAddress, TypeOK
  <2>3. UNCHANGED <<store, tasks, sweepDue, watched, asked, up, place, wire, inbox, cli, age,
                    faults, moves>>
    BY <1>1 DEF Hear
  <2> QED BY <2>2, <2>3 DEF TypeOK
<1>2. CASE Silence(n, p)
  <2>1. peers' \in [Node -> [Node -> Ip \cup {NoIp, NoPeer}]]
    BY <1>2 DEF Silence, TypeOK
  <2>2. UNCHANGED <<store, tasks, sweepDue, watched, asked, up, place, wire, inbox, cli, age,
                    faults, moves>>
    BY <1>2 DEF Silence
  <2> QED BY <2>1, <2>2 DEF TypeOK
<1>3. CASE KeyResponse(n, p)
  <2> DEFINE t == BulkEncryptPending(store[n], GetPendingEncryptionMessages(store[n], Live, p))
  <2>1. t \in Table
    BY RewriteType DEF TypeOK
  <2>2. AttemptAndForward(n, t, GetMessagesForDestination(t, Live, p))
    BY <1>3 DEF KeyResponse, EncryptPending
  <2>3. store' \in [Node -> Table] /\ tasks' \in [Node -> SUBSET Task] /\ wire' \subseteq Frame
    BY <2>1, <2>2, PendingHop, AttemptAndForwardType
  <2>4. peers' \in [Node -> [Node -> Ip \cup {NoIp, NoPeer}]]
    BY <1>3 DEF KeyResponse, TypeOK
  <2>5. UNCHANGED <<sweepDue, watched, asked, up, place, inbox, cli, age, faults, moves>>
    BY <1>3 DEF KeyResponse
  <2> QED BY <2>3, <2>4, <2>5 DEF TypeOK
<1> QED BY <1>1, <1>2, <1>3

LEMMA MachineStepType == ASSUME TypeOK, NEW n \in Node, MachineStep(n) PROVE TypeOK'
<1>1. CASE Crash(n)
  <2>1. faults' \in 0..MaxFaults
    BY <1>1, DataPlaneAssumption DEF Crash, TypeOK
  <2> QED BY <1>1, <2>1 DEF Crash, TypeOK
<1>2. CASE Restart(n)
  <2>1. store' \in [Node -> Table]
    BY <1>2, CleanNodeType DEF Restart
  <2>2. peers' \in [Node -> [Node -> Ip \cup {NoIp, NoPeer}]]
    BY <1>2 DEF Restart, ClearAllPeerIPs, TypeOK
  <2>3. watched' \in [Node -> Address]
    BY <1>2, PlaceFacts DEF Restart, TypeOK
  <2>4. up' \in [Node -> BOOLEAN] /\ sweepDue' \in [Node -> BOOLEAN]
    BY <1>2 DEF Restart, TypeOK
  <2>5. UNCHANGED <<tasks, asked, place, wire, inbox, cli, age, faults, moves>>
    BY <1>2 DEF Restart
  <2> QED BY <2>1, <2>2, <2>3, <2>4, <2>5 DEF TypeOK
<1>3. ASSUME NEW to \in Place, Move(n, to) PROVE TypeOK'
  <2>1. moves' \in 0..MaxMoves
    BY <1>3, DataPlaneAssumption DEF Move, TypeOK
  <2> QED BY <1>3, <2>1 DEF Move, TypeOK
<1> QED BY <1>1, <1>2, <1>3 DEF MachineStep

LEMMA TypeStep == TypeOK /\ [Next]_vars => TypeOK'
<1> SUFFICES ASSUME TypeOK, [Next]_vars PROVE TypeOK'
  OBVIOUS
<1>1. CASE UNCHANGED vars
  BY <1>1 DEF vars, TypeOK
<1>2. CASE TimeStep
  BY <1>2 DEF TimeStep, Expire, GrowAncient, TypeOK, Age
<1>3. CASE \E n \in Node : AttemptStep(n) \/ TimerStep(n) \/ PeerStep(n) \/ MachineStep(n)
  BY <1>3, AttemptStepType, TimerStepType, PeerStepType, MachineStepType
<1> QED BY <1>1, <1>2, <1>3, UserStepType, WireStepType DEF Next

(* Every variable keeps its type: in particular no row, frame or attempt    *)
(* ever has a hop count beyond the limit that getAllPending sets.           *)
THEOREM TypeCorrect == Spec => []TypeOK
BY TypeInit, TypeStep, PTL DEF Spec
=============================================================================
