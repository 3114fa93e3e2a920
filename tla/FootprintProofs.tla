--------------------------- MODULE FootprintProofs ----------------------------
(***************************************************************************)
(* What a step of the data plane may do to a row, a frame, an attempt and  *)
(* the inbox, said once for all actions (Footprint), and the invariants    *)
(* that follow from it: hop counts, attempts behind 'intransit' rows,      *)
(* acknowledgements, and the plaintext that stays at home.                 *)
(***************************************************************************)
EXTENDS MailboxProofs

(* A copy of it is on its way to somebody's handleIncomingMessage. *)
InFlight(id) ==
    \/ \E f \in wire : f.id = id
    \/ \E q \in Node : \E a \in tasks[q] : a.id = id

-----------------------------------------------------------------------------
(* The ways in which the row of id may change at n. *)

Kept(n, id) == store'[n][id] = store[n][id]

(* cleanExpired *)
Removed(n, id) == store'[n][id] = NoRow /\ id \notin Live

(* `ib send` *)
Typed(n, id) ==
    /\ id.kind = "msg" /\ n = Origin[id.of]
    /\ cli[id.of] # "sent" /\ cli'[id.of] = "sent"
    /\ \/ /\ store'[n][id].status = "__pending_encryption" /\ store'[n][id].payload = "plain"
          /\ SendPending(id.of)
       \/ /\ store'[n][id].payload = "sealed"
          /\ \/ store'[n][id].status = "undelivered"
             \/ store'[n][id].status = "intransit" /\ \E a \in tasks'[n] : a.id = id
             \/ store'[n][id].status = "delivered" /\ (inbox'[id.of] > 0 \/ faults' > faults)

(* sendAck *)
AckWritten(n, id) ==
    /\ id.kind = "ack" /\ n = Target[id.of]
    /\ inbox'[id.of] > 0
    /\ store'[n][id].status = "undelivered" /\ store'[n][id].payload # "none"

(* handleIncomingMessage, at the recipient *)
Arrived(n, id) ==
    /\ id.kind = "msg" /\ n = Target[id.of]
    /\ store'[n][id].status = "delivered"
    /\ InFlight(id)
    /\ IF Has(store[n], id) THEN store'[n][id].payload = store[n][id].payload
       ELSE store'[n][id].payload = "sealed"
            \/ \E f \in wire : f.id = id /\ f.payload = store'[n][id].payload
    /\ inbox'[id.of] > 0 \/ faults' > faults

(* the relay branch *)
Relayed(n, id) ==
    /\ n # Dest(id)
    /\ \E f \in wire :
         /\ f.id = id
         /\ \/ /\ Has(store[n], id)
               /\ store'[n][id].status = store[n][id].status
               /\ store'[n][id].payload = store[n][id].payload
               /\ store'[n][id].hop \in {store[n][id].hop, f.hop + 1}
            \/ /\ store'[n][id].status = "undelivered"
               /\ store'[n][id].payload = f.payload
               /\ store'[n][id].hop = f.hop + 1

(* An attempt ends, or the acknowledgement comes. *)
Settled(n, id) ==
    /\ Has(store[n], id)
    /\ store'[n][id].hop = store[n][id].hop /\ store'[n][id].payload = store[n][id].payload
    /\ \/ /\ store'[n][id].status \in {"delivered", "undelivered"}
          /\ \E a \in tasks[n] : /\ a.id = id
                                 /\ store'[n][id].status = "delivered" => a.stage \in {"acked", "udpsent"}
       \/ /\ store'[n][id].status = "delivered"
          /\ id.kind = "msg" /\ InFlight(Ack(id.of))

(* Encrypted, reset or attempted. *)
Queued(n, id) ==
    /\ Has(store[n], id) /\ store[n][id].status # "delivered"
    /\ store[n][id].status = "__pending_encryption" => KeyResponse(n, Dest(id))
    /\ store'[n][id].hop = store[n][id].hop
    /\ \/ /\ store'[n][id].status = "undelivered"
          /\ \/ store'[n][id].payload = "sealed"
             \/ store[n][id].status = "intransit" /\ store'[n][id].payload = store[n][id].payload
       \/ /\ store'[n][id].status = "intransit" /\ store'[n][id].payload = "sealed"
          /\ \E a \in tasks'[n] : a.id = id

RowStep(n, id) ==
    \/ Kept(n, id) \/ Removed(n, id) \/ Typed(n, id) \/ AckWritten(n, id) \/ Arrived(n, id)
    \/ Relayed(n, id) \/ Settled(n, id) \/ Queued(n, id)

-----------------------------------------------------------------------------
RowsStep == \A n \in Node, id \in Id : RowStep(n, id)

(* New frames hold what an attempt is for, or a pending row. *)
FramesStep ==
    \A f \in wire' :
        \/ f \in wire
        \/ f.payload = "sealed" /\ \E n \in Node : \E a \in tasks[n] : a.id = f.id
        \/ \E n \in Node : /\ store'[n][f.id].status \in {"undelivered", "intransit"}
                           /\ f.payload = store'[n][f.id].payload

(* New attempts are for rows marked 'intransit', and an attempt is over      *)
(* when its row is settled or the daemon dies.                              *)
AttemptsStep ==
    \A n \in Node :
        /\ \A b \in tasks'[n] : \/ \E a \in tasks[n] : a.id = b.id
                                \/ store'[n][b.id].status = "intransit"
        /\ \A a \in tasks[n] : \/ \E b \in tasks'[n] : b.id = a.id
                               \/ ~up'[n]
                               \/ store'[n][a.id].status # "intransit"

(* The inbox grows by what was in flight, or by a message to oneself. *)
InboxStep ==
    \A m \in Msg :
        \/ inbox'[m] = inbox[m]
        \/ /\ inbox'[m] > inbox[m]
           /\ \/ InFlight(User(m))
              \/ cli[m] # "sent" /\ store'[Origin[m]][User(m)].payload = "sealed"

(* After a start or a change of network the sweep is due until it ran. *)
SweepStep ==
    \A n \in Node :
        up'[n] /\ ~sweepDue'[n] =>
            \/ up[n] /\ ~sweepDue[n]
            \/ \A id \in Id : store'[n][id].status = "intransit" => \E a \in tasks'[n] : a.id = id

(* What the send command hands over gets its row at once. *)
SentStep ==
    \A m \in Msg : cli'[m] = "sent" => cli[m] = "sent" \/ Typed(Origin[m], User(m))

Footprint == RowsStep /\ FramesStep /\ AttemptsStep /\ InboxStep /\ SweepStep

-----------------------------------------------------------------------------
(* What the shared parts of the actions contribute. *)

LEMMA AttemptRows ==
    ASSUME TypeOK, NEW n \in Node, NEW t \in Table, NEW ids \in SUBSET Id,
           StartAttempts(n, t, Reachable(n, ids))
    PROVE  /\ \A q \in Node : q # n => store'[q] = store[q]
           /\ \A id \in Id : \/ store'[n][id] = t[id]
                             \/ /\ id \in ids
                                /\ store'[n][id].status = "intransit"
                                /\ store'[n][id].payload = "sealed"
                                /\ store'[n][id].hop = t[id].hop
                                /\ \E a \in tasks'[n] : a.id = id
           /\ \A q \in Node : tasks[q] \subseteq tasks'[q]
           /\ \A q \in Node : \A b \in tasks'[q] :
                 b \in tasks[q] \/ (q = n /\ store'[n][b.id].status = "intransit")
<1> DEFINE tried == Reachable(n, ids)
<1>1. tried \subseteq ids
  BY DEF Reachable
<1>2. store' = [store EXCEPT ![n] = MarkInTransit(t, tried)] /\ store'[n] = MarkInTransit(t, tried)
  BY DEF StartAttempts, TypeOK
<1>3. tasks' = [tasks EXCEPT ![n] = tasks[n] \cup {NewTask(n, t, id) : id \in tried}]
  BY DEF StartAttempts
<1>4. \A id \in tried : NewTask(n, t, id).id = id
  BY DEF NewTask
<1>5. \A q \in Node : tasks[q] \subseteq tasks'[q]
  BY <1>3 DEF TypeOK
<1>6. \A id \in tried : NewTask(n, t, id) \in tasks'[n]
  BY <1>3 DEF TypeOK
<1> HIDE DEF tried
<1>7. ASSUME NEW id \in tried
      PROVE  /\ store'[n][id].status = "intransit"
             /\ store'[n][id].payload = "sealed"
             /\ store'[n][id].hop = t[id].hop
  <2>1. t[id] \in Row /\ id \in Id
    BY <1>1 DEF Table
  <2>2. store'[n][id] = [t[id] EXCEPT !.status = "intransit", !.payload = "sealed"]
    BY <1>2, <2>1 DEF MarkInTransit
  <2> QED BY <2>1, <2>2 DEF Row
<1>8. \A id \in Id : id \notin tried => store'[n][id] = t[id]
  BY <1>2 DEF MarkInTransit
<1>9. \A q \in Node : q # n => store'[q] = store[q]
  BY <1>2 DEF TypeOK
<1>10. \A q \in Node : \A b \in tasks'[q] :
         b \in tasks[q] \/ (q = n /\ \E id \in tried : b = NewTask(n, t, id))
  BY <1>3 DEF TypeOK
<1>11. \A q \in Node : \A b \in tasks'[q] :
         b \in tasks[q] \/ (q = n /\ store'[n][b.id].status = "intransit")
  BY <1>4, <1>7, <1>10
<1> QED BY <1>1, <1>4, <1>5, <1>6, <1>7, <1>8, <1>9, <1>11

LEMMA ForwardRows ==
    ASSUME NEW n, NEW t, NEW targets, NEW out \in ForwardMessages(n, t, targets), NEW f \in out
    PROVE  /\ t[f.id].status \in {"undelivered", "intransit"}
           /\ f.payload = t[f.id].payload
<1>1. PICK pair \in targets \X GetAllPending(t, Live) : f = RelayFrame(n, t, pair[1], pair[2])
  BY DEF ForwardMessages, Carriers
<1>2. f.id \in GetAllPending(t, Live) /\ f.payload = t[f.id].payload
  BY <1>1 DEF RelayFrame
<1> QED BY <1>2 DEF GetAllPending

LEMMA AttemptAndForwardRows ==
    ASSUME TypeOK, NEW n \in Node, NEW t \in Table, NEW ids,
           AttemptAndForward(n, t, ids)
    PROVE  /\ StartAttempts(n, t, Reachable(n, ids))
           /\ FramesStep
<1> DEFINE marked == MarkInTransit(t, Reachable(n, ids))
<1>1. PICK out \in ForwardMessages(n, marked, ActivePeers(n)) : wire' = wire \cup out
  BY DEF AttemptAndForward
<1>2. StartAttempts(n, t, Reachable(n, ids))
  BY DEF AttemptAndForward
<1>3. store'[n] = marked
  BY <1>2 DEF StartAttempts, TypeOK
<1>4. \A f \in out : /\ marked[f.id].status \in {"undelivered", "intransit"}
                     /\ f.payload = marked[f.id].payload
  BY ForwardRows
<1> QED BY <1>1, <1>2, <1>3, <1>4 DEF FramesStep

(* The rows of the table that a sweep or a key_res starts from. *)
RowQueued(t, n, id) ==
    /\ Has(store[n], id) /\ store[n][id].status # "delivered"
    /\ store[n][id].status = "__pending_encryption" => KeyResponse(n, Dest(id))
    /\ t[id].hop = store[n][id].hop
    /\ t[id].status = "undelivered"
    /\ \/ t[id].payload = "sealed"
       \/ store[n][id].status = "intransit" /\ t[id].payload = store[n][id].payload

LEMMA RewrittenRows ==
    ASSUME TypeOK, NEW n \in Node, NEW p, NEW id \in Id
    PROVE  /\ ResetInTransit(store[n])[id] = store[n][id]
              \/ RowQueued(ResetInTransit(store[n]), n, id)
           /\ KeyResponse(n, p) => \/ EncryptPending(n, p)[id] = store[n][id]
                                    \/ RowQueued(EncryptPending(n, p), n, id)
           /\ ResetInTransit(store[n])[id].status # "intransit"
<1>1. store[n][id] \in Row
  BY DEF TypeOK, Table
<1>2. CASE store[n][id].status = "intransit"
  <2>1. ResetInTransit(store[n])[id] = [store[n][id] EXCEPT !.status = "undelivered"]
    BY <1>2 DEF ResetInTransit
  <2>2. RowQueued(ResetInTransit(store[n]), n, id)
    BY <1>1, <1>2, <2>1 DEF RowQueued, Row, Has
  <2>3. EncryptPending(n, p)[id] = store[n][id]
    BY <1>2 DEF EncryptPending, BulkEncryptPending, GetPendingEncryptionMessages
  <2> QED BY <1>1, <2>1, <2>2, <2>3 DEF Row
<1>3. CASE store[n][id].status # "intransit"
  <2>1. ResetInTransit(store[n])[id] = store[n][id]
    BY <1>3 DEF ResetInTransit
  <2>2. CASE id \notin GetPendingEncryptionMessages(store[n], Live, p)
    <3>1. EncryptPending(n, p)[id] = store[n][id]
      BY <2>2 DEF EncryptPending, BulkEncryptPending
    <3> QED BY <1>3, <2>1, <3>1
  <2>3. CASE id \in GetPendingEncryptionMessages(store[n], Live, p)
    <3>1. /\ store[n][id].status = "__pending_encryption" /\ Dest(id) = p
          /\ EncryptPending(n, p)[id] = [store[n][id] EXCEPT !.status = "undelivered", !.payload = "sealed"]
      BY <2>3 DEF EncryptPending, BulkEncryptPending, GetPendingEncryptionMessages
    <3>2. KeyResponse(n, p) => RowQueued(EncryptPending(n, p), n, id)
      BY <1>1, <3>1 DEF RowQueued, Row, Has
    <3> QED BY <1>3, <2>1, <3>2
  <2> QED BY <2>2, <2>3
<1> QED BY <1>2, <1>3

(* A sweep, a sync or a key_res: rows of t are attempted. *)
LEMMA AttemptFootprint ==
    ASSUME TypeOK, NEW n \in Node, NEW t \in Table, NEW ids \in SUBSET Id,
           \A id \in Id : t[id] = store[n][id] \/ RowQueued(t, n, id),
           \A id \in ids : t[id].status \in {"undelivered", "intransit"},
           StartAttempts(n, t, Reachable(n, ids))
    PROVE  RowsStep /\ AttemptsStep
<1>1. /\ \A q \in Node : q # n => store'[q] = store[q]
      /\ \A id \in Id : \/ store'[n][id] = t[id]
                        \/ /\ id \in ids
                           /\ store'[n][id].status = "intransit"
                           /\ store'[n][id].payload = "sealed"
                           /\ store'[n][id].hop = t[id].hop
                           /\ \E a \in tasks'[n] : a.id = id
      /\ \A q \in Node : tasks[q] \subseteq tasks'[q]
      /\ \A q \in Node : \A b \in tasks'[q] :
            b \in tasks[q] \/ (q = n /\ store'[n][b.id].status = "intransit")
  BY AttemptRows
<1>2. ASSUME NEW q \in Node, NEW id \in Id PROVE RowStep(q, id)
  <2>1. CASE q # n
    BY <1>1, <2>1 DEF RowStep, Kept
  <2>2. CASE q = n /\ store'[n][id] = t[id]
    <3>1. CASE t[id] = store[n][id]
      BY <2>2, <3>1 DEF RowStep, Kept
    <3>2. CASE RowQueued(t, n, id)
      <4>1. Queued(q, id)
        BY <2>2, <3>2 DEF RowQueued, Queued
      <4> QED BY <4>1 DEF RowStep
    <3> QED BY <3>1, <3>2
  <2>3. CASE q = n /\ store'[n][id] # t[id]
    <3>1. /\ id \in ids
          /\ store'[n][id].status = "intransit" /\ store'[n][id].payload = "sealed"
          /\ store'[n][id].hop = t[id].hop /\ \E a \in tasks'[n] : a.id = id
      BY <1>1, <2>3
    <3>2. /\ Has(store[n], id) /\ store[n][id].status # "delivered" /\ t[id].hop = store[n][id].hop
          /\ store[n][id].status = "__pending_encryption" => KeyResponse(n, Dest(id))
      BY <3>1 DEF RowQueued, Has
    <3>3. Queued(q, id)
      BY <2>3, <3>1, <3>2 DEF Queued
    <3> QED BY <3>3 DEF RowStep
  <2> QED BY <2>1, <2>2, <2>3
<1>3. AttemptsStep
  BY <1>1 DEF AttemptsStep
<1> QED BY <1>2, <1>3 DEF RowsStep

-----------------------------------------------------------------------------
(* Deliveries *)

LEMMA UpsertEffect ==
    ASSUME NEW t \in Table, NEW id \in Id, NEW status \in Status \ {"absent"},
           NEW hop \in 0..HopLimit, NEW payload \in Payload
    PROVE  LET s == UpsertMessage(t, id, status, hop, payload) IN
           /\ s \in Table
           /\ \A other \in Id : other # id => s[other] = t[other]
           /\ Has(t, id) => /\ s[id].status = t[id].status /\ s[id].payload = t[id].payload
                            /\ s[id].hop \in {t[id].hop, hop}
           /\ ~Has(t, id) => s[id] = [status |-> status, hop |-> hop, payload |-> payload]
<1>1. UpsertMessage(t, id, status, hop, payload) \in Table
  BY UpsertType
<1>2. t[id] \in Row
  BY DEF Table
<1>3. CASE ~Has(t, id)
  BY <1>1, <1>3 DEF UpsertMessage, InsertMessage, Table
<1>4. CASE Has(t, id) /\ hop < t[id].hop
  BY <1>1, <1>2, <1>4 DEF UpsertMessage, Table, Row
<1>5. CASE Has(t, id) /\ ~(hop < t[id].hop)
  BY <1>1, <1>5 DEF UpsertMessage
<1> QED BY <1>3, <1>4, <1>5

LEMMA MarkEffect ==
    ASSUME NEW t \in Table, NEW id \in Id, NEW status \in Status
    PROVE  LET s == SetStatus(t, id, status) IN
           /\ s \in Table
           /\ \A other \in Id : other # id => s[other] = t[other]
           /\ Has(t, id) => s[id].status = status
           /\ ~Has(t, id) => s = t
           /\ s[id].hop = t[id].hop /\ s[id].payload = t[id].payload
<1>1. SetStatus(t, id, status) \in Table
  BY SetStatusType
<1>2. t[id] \in Row
  BY DEF Table
<1> QED BY <1>1, <1>2 DEF SetStatus, Table, Row

(* Receive: the message, and with it its acknowledgement. *)
LEMMA ReceiveEffect ==
    ASSUME TypeOK, NEW n \in Node, NEW t \in Table, NEW id \in Id, id.kind = "msg",
           NEW hop \in 0..HopLimit, NEW payload \in Payload, NEW outcome \in Outcome,
           Receive(n, t, id, hop, payload, outcome)
    PROVE  /\ \A q \in Node : q # n => store'[q] = store[q]
           /\ \A other \in Id : other \notin {id, Ack(id.of)} => store'[n][other] = t[other]
           /\ \/ store'[n][id] = t[id]
              \/ /\ store'[n][id].status = "delivered"
                 /\ store'[n][id].payload = IF Has(t, id) THEN t[id].payload ELSE payload
           /\ \/ store'[n][Ack(id.of)] = t[Ack(id.of)]
              \/ /\ inbox'[id.of] > 0
                 /\ store'[n][Ack(id.of)].status = "undelivered"
                 /\ store'[n][Ack(id.of)].payload # "none"
           /\ inbox'[id.of] > 0 \/ faults' > faults
           /\ inbox'[id.of] = inbox[id.of] \/ inbox'[id.of] > inbox[id.of]
           /\ \A m \in Msg : m # id.of => inbox'[m] = inbox[m]
<1> DEFINE upserted == UpsertMessage(t, id, "delivered", hop, payload)
           stored == StoreDelivered(t, id, hop, payload)
           m == id.of
<1>1. m \in Msg /\ id = User(m) /\ Ack(m) \in Id /\ id # Ack(m)
  BY IdFacts
<1>2. "delivered" \in Status \ {"absent"}
  BY DEF Status
<1>3. /\ upserted \in Table
      /\ \A other \in Id : other # id => upserted[other] = t[other]
      /\ Has(upserted, id)
      /\ upserted[id].payload = IF Has(t, id) THEN t[id].payload ELSE payload
  <2>1. /\ upserted \in Table
        /\ \A other \in Id : other # id => upserted[other] = t[other]
        /\ Has(t, id) => /\ upserted[id].status = t[id].status
                         /\ upserted[id].payload = t[id].payload
        /\ ~Has(t, id) => upserted[id] = [status |-> "delivered", hop |-> hop, payload |-> payload]
    BY <1>2, UpsertEffect
  <2> HIDE DEF upserted
  <2>2. CASE Has(t, id)
    BY <2>1, <2>2 DEF Has
  <2>3. CASE ~Has(t, id)
    <3>1. upserted[id].status = "delivered" /\ upserted[id].payload = payload
      BY <2>1, <2>3
    <3> QED BY <2>1, <2>3, <3>1 DEF Has
  <2> QED BY <2>2, <2>3
<1>4. stored = SetStatus(upserted, id, "delivered")
  BY DEF StoreDelivered, MarkDelivered
<1>0. store' = [store EXCEPT ![n] = IF outcome = "done" THEN SendAck(n, stored, m)
                                     ELSE IF outcome = "no row" THEN t ELSE stored]
  BY DEF Receive, Acknowledged
<1> HIDE DEF upserted, stored
<1>5. /\ stored \in Table /\ stored[id].status = "delivered"
      /\ stored[id].payload = IF Has(t, id) THEN t[id].payload ELSE payload
      /\ \A other \in Id : other # id => stored[other] = t[other]
  BY <1>2, <1>3, <1>4, MarkEffect
<1> DEFINE acked == SendAck(n, stored, m)
<1>6. /\ \A other \in Id : other # Ack(m) => acked[other] = stored[other]
      /\ acked[Ack(m)].status = "undelivered" /\ acked[Ack(m)].payload # "none"
  BY <1>1, <1>5 DEF SendAck, InsertMessage, Table
<1>7. \/ outcome = "done" /\ store' = [store EXCEPT ![n] = acked]
      \/ outcome # "done" /\ \E s \in {t, stored} : store' = [store EXCEPT ![n] = s]
  BY <1>0
<1> HIDE DEF acked
<1>8. \A q \in Node : q # n => store'[q] = store[q]
  BY <1>7 DEF TypeOK
<1>9. \/ outcome = "done" /\ store'[n] = acked
      \/ outcome # "done" /\ store'[n] \in {t, stored}
  BY <1>7 DEF TypeOK
<1>10. inbox \in [Msg -> Nat] /\ inbox[m] \in Nat /\ faults \in Nat
  BY <1>1, DataPlaneAssumption DEF TypeOK
<1>11. /\ inbox' = [inbox EXCEPT ![m] = IF outcome \in {"done", "no ack"} THEN inbox[m] + 1
                                         ELSE inbox[m]]
       /\ faults' = IF outcome = "done" THEN faults ELSE faults + 1
  BY DEF Receive
<1>12. /\ outcome = "done" => inbox'[m] > 0
       /\ outcome # "done" => faults' > faults
       /\ inbox'[m] = inbox[m] \/ inbox'[m] > inbox[m]
       /\ \A o \in Msg : o # m => inbox'[o] = inbox[o]
  <2>1. /\ inbox'[m] = IF outcome \in {"done", "no ack"} THEN inbox[m] + 1 ELSE inbox[m]
        /\ \A o \in Msg : o # m => inbox'[o] = inbox[o]
    BY <1>1, <1>10, <1>11
  <2>2. faults' = IF outcome = "done" THEN faults ELSE faults + 1
    BY <1>11
  <2>3. outcome # "done" => faults' > faults
    BY <1>10, <2>2
  <2>4. inbox'[m] = inbox[m] \/ inbox'[m] > inbox[m]
    <3>1. \A k \in Nat : k + 1 > k
      OBVIOUS
    <3>2. inbox'[m] = inbox[m] \/ inbox'[m] = inbox[m] + 1
      BY <2>1
    <3>3. inbox[m] + 1 > inbox[m]
      BY <1>10, <3>1
    <3> QED BY <3>2, <3>3, Zenon
  <2>5. outcome = "done" => inbox'[m] > 0
    BY <1>10, <2>1
  <2> QED BY <2>1, <2>3, <2>4, <2>5
<1> QED BY <1>1, <1>5, <1>6, <1>8, <1>9, <1>12

(* A frame or a served attempt reaches the part after the relay branch. *)
LEMMA DeliverFootprint ==
    ASSUME TypeOK, NEW n \in Node, NEW id \in Id, NEW hop \in 0..HopLimit,
           NEW payload \in Payload, InFlight(id),
           payload = "sealed" \/ \E f \in wire : f.id = id /\ f.payload = payload,
           Deliver(n, id, hop, payload)
    PROVE  RowsStep /\ InboxStep
<1>1. CASE UNCHANGED <<store, inbox, faults>>
  BY <1>1 DEF RowsStep, RowStep, Kept, InboxStep
<1>2. CASE /\ ~Ignores(n, id) /\ id.kind = "ack"
           /\ store' = [store EXCEPT ![n] = MarkDelivered(@, User(id.of))]
           /\ UNCHANGED <<inbox, faults>>
  <2> DEFINE user == User(id.of)
             s == SetStatus(store[n], user, "delivered")
  <2>1. user \in Id /\ id = Ack(user.of) /\ user.kind = "msg" /\ store[n] \in Table
    <3>1. id.of \in Msg /\ id = Ack(id.of)
      BY <1>2, IdFacts
    <3> QED BY <3>1, IdFacts DEF TypeOK
  <2>2. store' = [store EXCEPT ![n] = s]
    BY <1>2 DEF MarkDelivered
  <2>3. store'[n] = s /\ \A q \in Node : q # n => store'[q] = store[q]
    BY <2>2 DEF TypeOK
  <2>4. /\ \A other \in Id : other # user => s[other] = store[n][other]
        /\ Has(store[n], user) => s[user].status = "delivered"
        /\ ~Has(store[n], user) => s = store[n]
        /\ s[user].hop = store[n][user].hop /\ s[user].payload = store[n][user].payload
    BY <2>1, MarkEffect DEF Status
  <2> HIDE DEF s, user
  <2>5. ASSUME NEW q \in Node, NEW other \in Id PROVE RowStep(q, other)
    <3>1. CASE q = n /\ other = user /\ Has(store[n], user)
      <4>1. Settled(q, other)
        BY <2>1, <2>3, <2>4, <3>1 DEF Settled
      <4> QED BY <4>1 DEF RowStep
    <3>2. CASE ~(q = n /\ other = user /\ Has(store[n], user))
      BY <2>3, <2>4, <3>2 DEF RowStep, Kept
    <3> QED BY <3>1, <3>2
  <2> QED BY <1>2, <2>5 DEF RowsStep, InboxStep
<1>3. CASE /\ ~Ignores(n, id) /\ id.kind = "msg"
           /\ \E outcome \in Outcome : Receive(n, store[n], id, hop, payload, outcome)
  <2>1. store[n] \in Table /\ id.of \in Msg /\ id = User(id.of) /\ Ack(id.of) \in Id
        /\ n = Target[id.of] /\ Ack(id.of).of = id.of /\ Ack(id.of).kind = "ack"
    BY <1>3, IdFacts DEF TypeOK, Ignores, Dest
  <2>2. /\ \A q \in Node : q # n => store'[q] = store[q]
        /\ \A other \in Id : other \notin {id, Ack(id.of)} => store'[n][other] = store[n][other]
        /\ \/ store'[n][id] = store[n][id]
           \/ /\ store'[n][id].status = "delivered"
              /\ store'[n][id].payload = IF Has(store[n], id) THEN store[n][id].payload ELSE payload
        /\ \/ store'[n][Ack(id.of)] = store[n][Ack(id.of)]
           \/ /\ inbox'[id.of] > 0
              /\ store'[n][Ack(id.of)].status = "undelivered"
              /\ store'[n][Ack(id.of)].payload # "none"
        /\ inbox'[id.of] > 0 \/ faults' > faults
        /\ inbox'[id.of] = inbox[id.of] \/ inbox'[id.of] > inbox[id.of]
        /\ \A m \in Msg : m # id.of => inbox'[m] = inbox[m]
    BY <1>3, <2>1, ReceiveEffect
  <2>3. Kept(n, id) \/ Arrived(n, id)
    BY <1>3, <2>1, <2>2 DEF Kept, Arrived
  <2>4. Kept(n, Ack(id.of)) \/ AckWritten(n, Ack(id.of))
    BY <2>1, <2>2 DEF AckWritten, Kept
  <2>5. ASSUME NEW q \in Node, NEW other \in Id PROVE RowStep(q, other)
    <3>1. CASE q # n \/ other \notin {id, Ack(id.of)}
      BY <2>2, <3>1 DEF RowStep, Kept
    <3> QED BY <2>3, <2>4, <3>1 DEF RowStep
  <2>6. InboxStep
    BY <2>1, <2>2 DEF InboxStep
  <2> QED BY <2>5, <2>6 DEF RowsStep
<1> QED BY <1>1, <1>2, <1>3 DEF Deliver

-----------------------------------------------------------------------------
(* Every step leaves no other footprint. *)

LEMMA NothingElse ==
    /\ UNCHANGED store => RowsStep
    /\ UNCHANGED wire => FramesStep
    /\ UNCHANGED tasks => AttemptsStep
    /\ UNCHANGED inbox => InboxStep
    /\ UNCHANGED <<up, sweepDue>> => SweepStep
BY DEF RowsStep, RowStep, Kept, FramesStep, AttemptsStep, InboxStep, SweepStep

LEMMA UserFootprint == TypeOK /\ UserStep => Footprint /\ SentStep
<1> SUFFICES ASSUME TypeOK, NEW m \in Msg,
                    CliLookup(m) \/ SendToSelf(m) \/ SendPending(m) \/ SendSealed(m)
             PROVE  Footprint /\ SentStep
  BY DEF UserStep
<1> DEFINE n == Origin[m]
           sealed == InsertMessage(store[n], User(m), "undelivered", 0, "sealed")
<1>1. /\ n \in Node /\ store[n] \in Table /\ 0 \in 0..HopLimit
      /\ User(m) \in Id /\ Ack(m) \in Id /\ User(m).of = m /\ Ack(m).of = m
      /\ User(m).kind = "msg" /\ Ack(m).kind = "ack"
  BY IdFacts, StoreAssumption DEF TypeOK
<1>2. /\ sealed \in Table
      /\ sealed[User(m)] = [status |-> "undelivered", hop |-> 0, payload |-> "sealed"]
      /\ \A id \in Id : id # User(m) => sealed[id] = store[n][id]
  <2>1. sealed \in Table
    BY <1>1, InsertType DEF Status, Payload
  <2> QED BY <1>1, <2>1 DEF InsertMessage, Table
<1>3. CASE CliLookup(m)
  <2>1. UNCHANGED <<store, wire, tasks, inbox, up, sweepDue>>
    BY <1>3 DEF CliLookup
  <2>2. SentStep
    BY <1>3 DEF CliLookup, SentStep, TypeOK
  <2> QED BY <2>1, <2>2, NothingElse DEF Footprint
<1>4. ASSUME Submit(m, "sealed") \/ Submit(m, "plain")
      PROVE  /\ cli[m] # "sent" /\ cli'[m] = "sent" /\ SweepStep
             /\ Typed(n, User(m)) => SentStep
  <2>1. /\ cli[m] # "sent" /\ cli'[m] = "sent" /\ UNCHANGED <<up, sweepDue>>
        /\ \A o \in Msg : o # m => cli'[o] = cli[o]
    BY <1>4 DEF Submit, TypeOK
  <2> QED BY <2>1, NothingElse DEF SentStep
<1> HIDE DEF sealed
<1>5. CASE SendToSelf(m)
  <2>1. PICK outcome \in Outcome : Receive(n, sealed, User(m), 0, "sealed", outcome)
    BY <1>5 DEF SendToSelf, sealed
  <2>2. Target[m] = n /\ UNCHANGED <<tasks, wire>> /\ Submit(m, "sealed")
    BY <1>5 DEF SendToSelf
  <2>3. Has(sealed, User(m)) /\ sealed[User(m)].payload = "sealed" /\ "sealed" \in Payload
    BY <1>2 DEF Has, Payload
  <2>4. /\ \A q \in Node : q # n => store'[q] = store[q]
        /\ \A other \in Id : other \notin {User(m), Ack(m)} => store'[n][other] = sealed[other]
        /\ store'[n][User(m)].status \in {"undelivered", "delivered"}
        /\ store'[n][User(m)].payload = "sealed"
        /\ \/ store'[n][Ack(m)] = sealed[Ack(m)]
           \/ /\ inbox'[m] > 0
              /\ store'[n][Ack(m)].status = "undelivered"
              /\ store'[n][Ack(m)].payload # "none"
        /\ inbox'[m] > 0 \/ faults' > faults
        /\ inbox'[m] = inbox[m] \/ inbox'[m] > inbox[m]
        /\ \A o \in Msg : o # m => inbox'[o] = inbox[o]
    BY <1>1, <1>2, <2>1, <2>3, ReceiveEffect
  <2>5. Typed(n, User(m))
    BY <1>1, <1>4, <2>2, <2>4 DEF Typed
  <2>6. Kept(n, Ack(m)) \/ AckWritten(n, Ack(m))
    <3>1. Ack(m) # User(m)
      BY <1>1
    <3>2. sealed[Ack(m)] = store[n][Ack(m)]
      BY <1>1, <1>2, <3>1
    <3> QED BY <1>1, <2>2, <2>4, <3>2 DEF Kept, AckWritten
  <2>7. ASSUME NEW q \in Node, NEW other \in Id PROVE RowStep(q, other)
    <3>1. CASE q # n \/ other \notin {User(m), Ack(m)}
      BY <1>2, <2>4, <3>1 DEF RowStep, Kept
    <3> QED BY <2>5, <2>6, <3>1 DEF RowStep
  <2>8. InboxStep
    BY <1>4, <2>2, <2>4 DEF InboxStep
  <2> QED BY <1>4, <2>2, <2>5, <2>7, <2>8, NothingElse DEF Footprint, RowsStep
<1>6. CASE SendPending(m)
  <2> DEFINE t == InsertMessage(store[n], User(m), "__pending_encryption", 0, "plain")
  <2>1. /\ t[User(m)] = [status |-> "__pending_encryption", hop |-> 0, payload |-> "plain"]
        /\ \A id \in Id : id # User(m) => t[id] = store[n][id]
    BY <1>1 DEF InsertMessage, Table
  <2>2. store' = [store EXCEPT ![n] = t]
    BY <1>6 DEF SendPending
  <2>3. store'[n] = t /\ \A q \in Node : q # n => store'[q] = store[q]
    BY <1>1, <2>2 DEF TypeOK
  <2>4. UNCHANGED <<tasks, wire, inbox>> /\ Submit(m, "plain")
    BY <1>6 DEF SendPending
  <2> HIDE DEF t
  <2>5. Typed(n, User(m))
    BY <1>1, <1>4, <1>6, <2>1, <2>3, <2>4 DEF Typed
  <2>6. ASSUME NEW q \in Node, NEW other \in Id PROVE RowStep(q, other)
    <3>1. CASE q # n \/ other # User(m)
      BY <2>1, <2>3, <3>1 DEF RowStep, Kept
    <3> QED BY <2>5, <3>1 DEF RowStep
  <2> QED BY <1>4, <2>4, <2>5, <2>6, NothingElse DEF Footprint, RowsStep
<1>7. CASE SendSealed(m)
  <2>1. AttemptAndForward(n, sealed, {User(m)}) /\ UNCHANGED inbox /\ Submit(m, "sealed")
    BY <1>7 DEF SendSealed, sealed
  <2>2. StartAttempts(n, sealed, Reachable(n, {User(m)})) /\ FramesStep
    BY <1>1, <1>2, <2>1, AttemptAndForwardRows
  <2>3. /\ \A q \in Node : q # n => store'[q] = store[q]
        /\ \A id \in Id : \/ store'[n][id] = sealed[id]
                          \/ /\ id \in {User(m)}
                             /\ store'[n][id].status = "intransit"
                             /\ store'[n][id].payload = "sealed"
                             /\ store'[n][id].hop = sealed[id].hop
                             /\ \E a \in tasks'[n] : a.id = id
        /\ \A q \in Node : tasks[q] \subseteq tasks'[q]
        /\ \A q \in Node : \A b \in tasks'[q] :
              b \in tasks[q] \/ (q = n /\ store'[n][b.id].status = "intransit")
    BY <1>1, <1>2, <2>2, AttemptRows
  <2>4. Typed(n, User(m))
    <3>1. store'[n][User(m)].payload = "sealed"
          /\ \/ store'[n][User(m)].status = "undelivered"
             \/ store'[n][User(m)].status = "intransit" /\ \E a \in tasks'[n] : a.id = User(m)
      BY <1>1, <1>2, <2>3
    <3> QED BY <1>1, <1>4, <2>1, <3>1 DEF Typed
  <2>5. ASSUME NEW q \in Node, NEW other \in Id PROVE RowStep(q, other)
    <3>1. CASE q # n \/ other # User(m)
      BY <1>2, <2>3, <3>1 DEF RowStep, Kept
    <3> QED BY <2>4, <3>1 DEF RowStep
  <2>6. AttemptsStep
    BY <2>3 DEF AttemptsStep
  <2> QED BY <1>4, <2>1, <2>2, <2>4, <2>5, <2>6, NothingElse DEF Footprint, RowsStep
<1> QED BY <1>3, <1>5, <1>6, <1>7

(* An attempt whose row is settled is over. *)
LEMMA FinishFootprint ==
    ASSUME TypeOK, NEW n \in Node, NEW a \in tasks[n], NEW status \in {"delivered", "undelivered"},
           status = "delivered" => a.stage \in {"acked", "udpsent"},
           store' = [store EXCEPT ![n] = SetStatus(store[n], a.id, status)],
           Finish(n, a)
    PROVE  Footprint
<1> DEFINE s == SetStatus(store[n], a.id, status)
<1>1. a.id \in Id /\ store[n] \in Table /\ status \in Status
  BY FrameFacts DEF Task, TypeOK, Status
<1>2. /\ \A other \in Id : other # a.id => s[other] = store[n][other]
      /\ Has(store[n], a.id) => s[a.id].status = status
      /\ ~Has(store[n], a.id) => s = store[n]
      /\ s[a.id].hop = store[n][a.id].hop /\ s[a.id].payload = store[n][a.id].payload
  BY <1>1, MarkEffect
<1>3. store'[n] = s /\ \A q \in Node : q # n => store'[q] = store[q]
  BY DEF TypeOK
<1> HIDE DEF s
<1>4. ASSUME NEW q \in Node, NEW other \in Id PROVE RowStep(q, other)
  <2>1. CASE q = n /\ other = a.id /\ Has(store[n], a.id)
    <3>1. Settled(q, other)
      BY <1>2, <1>3, <2>1 DEF Settled
    <3> QED BY <3>1 DEF RowStep
  <2>2. CASE ~(q = n /\ other = a.id /\ Has(store[n], a.id))
    BY <1>2, <1>3, <2>2 DEF RowStep, Kept
  <2> QED BY <2>1, <2>2
<1>5. tasks' = [tasks EXCEPT ![n] = tasks[n] \ {a}] /\ UNCHANGED <<wire, inbox, up, sweepDue>>
  BY DEF Finish
<1>6. store'[n][a.id].status # "intransit"
  <2>1. CASE Has(store[n], a.id)
    BY <1>2, <1>3, <2>1
  <2>2. CASE ~Has(store[n], a.id)
    BY <1>2, <1>3, <2>2 DEF Has
  <2> QED BY <2>1, <2>2
<1>7. AttemptsStep
  <2>1. \A q \in Node : /\ tasks'[q] \subseteq tasks[q]
                       /\ \A b \in tasks[q] : b \in tasks'[q] \/ (q = n /\ b = a)
    BY <1>5 DEF TypeOK
  <2> QED BY <1>6, <2>1 DEF AttemptsStep
<1> QED BY <1>4, <1>5, <1>7, NothingElse DEF Footprint, RowsStep

LEMMA AttemptStepFootprint == ASSUME TypeOK, NEW n \in Node, AttemptStep(n) PROVE Footprint
<1> PICK a \in tasks[n] : \/ TcpServe(n, a) \/ TcpRefuse(n, a) \/ TcpFail(n, a)
                         \/ AttemptSucceeds(n, a) \/ AttemptFails(n, a)
  BY DEF AttemptStep
<1>1. a \in Task /\ a.id \in Id /\ a.hop \in 0..HopLimit /\ InFlight(a.id)
  <2>1. a \in Task
    BY FrameFacts
  <2>2. a.id \in Id /\ a.hop \in 0..(HopLimit - 1)
    BY <2>1 DEF Task
  <2> QED BY <2>1, <2>2, StoreAssumption DEF InFlight
<1>2. ASSUME NEW stage, SetStage(n, a, stage) PROVE AttemptsStep
  <2> DEFINE b == [a EXCEPT !.stage = stage]
  <2>1. b.id = a.id
    BY <1>1 DEF Task
  <2>2. tasks' = [tasks EXCEPT ![n] = (tasks[n] \ {a}) \cup {b}]
    BY <1>2 DEF SetStage
  <2> HIDE DEF b
  <2>3. \A q \in Node : /\ \A c \in tasks'[q] : c \in tasks[q] \/ (q = n /\ c = b)
                       /\ \A c \in tasks[q] : c \in tasks'[q] \/ (q = n /\ c = a)
    BY <2>2 DEF TypeOK
  <2>4. b \in tasks'[n]
    BY <2>2 DEF TypeOK
  <2> QED BY <2>1, <2>3, <2>4 DEF AttemptsStep
<1>3. CASE TcpServe(n, a)
  <2>1. PICK q \in Node : Deliver(q, a.id, a.hop, "sealed")
    BY <1>3 DEF TcpServe, Listeners
  <2>2. RowsStep /\ InboxStep
    BY <1>1, <2>1, DeliverFootprint DEF Payload
  <2>3. SetStage(n, a, "acked") /\ UNCHANGED <<wire, up, sweepDue>>
    BY <1>3 DEF TcpServe
  <2> QED BY <1>2, <2>2, <2>3, NothingElse DEF Footprint
<1>4. CASE TcpRefuse(n, a)
  <2>1. SetStage(n, a, "nacked") /\ UNCHANGED <<store, wire, inbox, up, sweepDue>>
    BY <1>4 DEF TcpRefuse
  <2> QED BY <1>2, <2>1, NothingElse DEF Footprint
<1>5. CASE TcpFail(n, a)
  <2>1. /\ UNCHANGED <<store, inbox, up, sweepDue>>
        /\ (SetStage(n, a, "udpsent") \/ SetStage(n, a, "failed"))
        /\ \A f \in wire' : f \in wire \/ f = DeliverFrame(n, a)
    BY <1>5 DEF TcpFail
  <2>2. FramesStep
    BY <2>1 DEF FramesStep, DeliverFrame
  <2> QED BY <1>2, <2>1, <2>2, NothingElse DEF Footprint
<1>6. CASE AttemptSucceeds(n, a)
  BY <1>6, FinishFootprint DEF AttemptSucceeds, MarkDelivered
<1>7. CASE AttemptFails(n, a)
  BY <1>7, FinishFootprint DEF AttemptFails, MarkUndelivered
<1> QED BY <1>3, <1>4, <1>5, <1>6, <1>7

LEMMA RelayFootprint ==
    ASSUME TypeOK, NEW n \in Node, NEW f \in wire, Dest(f.id) # n, Relay(n, f)
    PROVE  RowsStep /\ FramesStep
<1> DEFINE t == UpsertMessage(store[n], f.id, "undelivered", RelayHop(f), f.payload)
<1>1. f.id \in Id /\ f.payload \in Payload /\ RelayHop(f) \in 0..HopLimit /\ RelayHop(f) = f.hop + 1
  <2>1. f \in Frame
    BY DEF TypeOK
  <2>2. f.id \in Id /\ f.payload \in Payload /\ f.hop \in 0..(HopLimit - 1)
    BY <2>1 DEF Frame
  <2> QED BY <2>2, StoreAssumption DEF RelayHop
<1>2. store[n] \in Table /\ "undelivered" \in Status \ {"absent"}
  BY DEF TypeOK, Status
<1>3. /\ \A other \in Id : other # f.id => t[other] = store[n][other]
      /\ Has(store[n], f.id) => /\ t[f.id].status = store[n][f.id].status
                                /\ t[f.id].payload = store[n][f.id].payload
                                /\ t[f.id].hop \in {store[n][f.id].hop, RelayHop(f)}
      /\ ~Has(store[n], f.id) =>
            t[f.id] = [status |-> "undelivered", hop |-> RelayHop(f), payload |-> f.payload]
  BY <1>1, <1>2, UpsertEffect
<1>4. store' = [store EXCEPT ![n] = t]
  BY DEF Relay
<1>5. store'[n] = t /\ \A q \in Node : q # n => store'[q] = store[q]
  BY <1>4 DEF TypeOK
<1>6. PICK rest \in Consumed(f) :
        \/ wire' = rest
        \/ \E out \in ForwardMessages(n, t, SpreadPeers(n, f.src)) : wire' = rest \cup out
  BY DEF Relay
<1>7. rest \subseteq wire
  BY DEF Consumed
<1> HIDE DEF t
<1>8. Relayed(n, f.id)
  <2>1. CASE Has(store[n], f.id)
    BY <1>1, <1>3, <1>5, <2>1 DEF Relayed
  <2>2. CASE ~Has(store[n], f.id)
    BY <1>1, <1>3, <1>5, <2>2 DEF Relayed
  <2> QED BY <2>1, <2>2
<1>9. RowsStep
  BY <1>3, <1>5, <1>8 DEF RowsStep, RowStep, Kept
<1>10. \A out \in ForwardMessages(n, t, SpreadPeers(n, f.src)) : \A g \in out :
         t[g.id].status \in {"undelivered", "intransit"} /\ g.payload = t[g.id].payload
  BY ForwardRows
<1>11. FramesStep
  BY <1>5, <1>6, <1>7, <1>10 DEF FramesStep
<1> QED BY <1>9, <1>11

LEMMA WireFootprint == TypeOK /\ WireStep => Footprint
<1> SUFFICES ASSUME TypeOK, NEW f \in wire, ReceiveFrame(f) \/ LoseFrame(f) PROVE Footprint
  BY DEF WireStep
<1>1. CASE LoseFrame(f)
  <2>1. UNCHANGED <<store, tasks, inbox, up, sweepDue>> /\ wire' \subseteq wire
    BY <1>1 DEF LoseFrame
  <2>2. FramesStep
    BY <2>1 DEF FramesStep
  <2> QED BY <2>1, <2>2, NothingElse DEF Footprint
<1>2. CASE ReceiveFrame(f)
  <2>1. PICK n \in Listeners(f.net, f.to) :
           \/ /\ f.type = "relay" /\ Dest(f.id) # n
              /\ Relay(n, f)
           \/ /\ f.type = "deliver" \/ Dest(f.id) = n
              /\ wire' \in Consumed(f)
              /\ Deliver(n, f.id, f.hop, f.payload)
    BY <1>2 DEF ReceiveFrame
  <2>2. n \in Node /\ UNCHANGED <<tasks, up, sweepDue>>
    BY <1>2, <2>1 DEF ReceiveFrame, Listeners
  <2>3. CASE Dest(f.id) # n /\ Relay(n, f)
    <3>1. RowsStep /\ FramesStep
      BY <2>2, <2>3, RelayFootprint
    <3>2. UNCHANGED inbox
      BY <2>3 DEF Relay
    <3> QED BY <2>2, <3>1, <3>2, NothingElse DEF Footprint
  <2>4. CASE wire' \in Consumed(f) /\ Deliver(n, f.id, f.hop, f.payload)
    <3>1. f.id \in Id /\ f.payload \in Payload /\ f.hop \in 0..HopLimit /\ InFlight(f.id)
      <4>1. f \in Frame
        BY DEF TypeOK
      <4>2. f.id \in Id /\ f.payload \in Payload /\ f.hop \in 0..(HopLimit - 1)
        BY <4>1 DEF Frame
      <4> QED BY <4>2, StoreAssumption DEF InFlight
    <3>2. RowsStep /\ InboxStep
      BY <2>2, <2>4, <3>1, DeliverFootprint
    <3>3. FramesStep
      BY <2>4 DEF Consumed, FramesStep
    <3> QED BY <2>2, <3>2, <3>3, NothingElse DEF Footprint
  <2> QED BY <2>1, <2>3, <2>4
<1> QED BY <1>1, <1>2

LEMMA CleanFootprint ==
    ASSUME TypeOK, NEW n \in Node, store' = [store EXCEPT ![n] = Clean(n)]
    PROVE  RowsStep
<1>1. store'[n] = Clean(n) /\ \A q \in Node : q # n => store'[q] = store[q]
  BY DEF TypeOK
<1>2. ASSUME NEW id \in Id PROVE Clean(n)[id] = store[n][id] \/ (Clean(n)[id] = NoRow /\ id \notin Live)
  BY <1>2 DEF Clean, CleanExpired, Live
<1>3. NoRow.status = "absent"
  BY DEF NoRow
<1> QED BY <1>1, <1>2, <1>3 DEF RowsStep, RowStep, Kept, Removed, Has

LEMMA TimerFootprint == ASSUME TypeOK, NEW n \in Node, TimerStep(n) PROVE Footprint
<1> DEFINE t == ResetInTransit(store[n])
<1>1. /\ store[n] \in Table /\ t \in Table
      /\ \A id \in Id : t[id] = store[n][id] \/ RowQueued(t, n, id)
      /\ \A id \in Id : t[id].status # "intransit"
  BY RewriteType, RewrittenRows DEF TypeOK
<1>2. \A s \in Table : /\ GetAllPending(s, Live) \in SUBSET Id
                       /\ \A id \in GetAllPending(s, Live) : s[id].status \in {"undelivered", "intransit"}
  BY DEF GetAllPending, Live
<1> HIDE DEF t
<1>3. CASE RetrySweep(n)
  <2>1. /\ UNCHANGED <<wire, inbox, up, sweepDue>>
        /\ StartAttempts(n, store[n], Reachable(n, GetAllPending(store[n], Live)))
    BY <1>3 DEF RetrySweep
  <2>2. RowsStep /\ AttemptsStep
    BY <1>1, <1>2, <2>1, AttemptFootprint
  <2> QED BY <2>1, <2>2, NothingElse DEF Footprint
<1>4. ASSUME NEW ids \in SUBSET Id, StartAttempts(n, t, Reachable(n, ids))
      PROVE  \A id \in Id : store'[n][id].status = "intransit" => \E a \in tasks'[n] : a.id = id
  <2>1. \A id \in Id : \/ store'[n][id] = t[id]
                      \/ /\ id \in ids
                         /\ store'[n][id].status = "intransit"
                         /\ store'[n][id].payload = "sealed"
                         /\ store'[n][id].hop = t[id].hop
                         /\ \E a \in tasks'[n] : a.id = id
    BY <1>1, <1>4, AttemptRows
  <2> QED BY <1>1, <2>1
<1>5. CASE StartupSweep(n)
  <2>1. /\ UNCHANGED <<wire, inbox, up>> /\ \A q \in Node : q # n => sweepDue'[q] = sweepDue[q]
        /\ StartAttempts(n, t, Reachable(n, GetAllPending(t, Live)))
    BY <1>5 DEF StartupSweep, TypeOK, t
  <2>2. RowsStep /\ AttemptsStep
    BY <1>1, <1>2, <2>1, AttemptFootprint
  <2>3. SweepStep
    BY <1>1, <1>2, <1>4, <2>1 DEF SweepStep
  <2> QED BY <2>1, <2>2, <2>3, NothingElse DEF Footprint
<1>6. CASE EpidemicSweep(n)
  <2>1. UNCHANGED <<store, tasks, inbox, up, sweepDue>>
    BY <1>6 DEF EpidemicSweep
  <2>2. PICK out \in ForwardMessages(n, store[n], ActivePeers(n)) : wire' = wire \cup out
    BY <1>6 DEF EpidemicSweep
  <2>3. FramesStep
    BY <2>1, <2>2, ForwardRows DEF FramesStep
  <2> QED BY <2>1, <2>3, NothingElse DEF Footprint
<1>7. CASE HourlyCleanup(n)
  <2>1. UNCHANGED <<tasks, wire, inbox, up, sweepDue>> /\ store' = [store EXCEPT ![n] = Clean(n)]
    BY <1>7 DEF HourlyCleanup
  <2> QED BY <2>1, CleanFootprint, NothingElse DEF Footprint
<1>8. CASE WatcherTick(n)
  <2>1. UNCHANGED <<store, tasks, wire, inbox, up>> /\ sweepDue' = [sweepDue EXCEPT ![n] = TRUE]
    BY <1>8 DEF WatcherTick
  <2>2. SweepStep
    BY <2>1 DEF SweepStep, TypeOK
  <2> QED BY <2>1, <2>2, NothingElse DEF Footprint
<1>9. CASE Sync(n)
  <2>1. AttemptAndForward(n, t, GetAllPending(t, Live)) /\ UNCHANGED <<inbox, up, sweepDue>>
    BY <1>9 DEF Sync, t
  <2>2. StartAttempts(n, t, Reachable(n, GetAllPending(t, Live))) /\ FramesStep
    BY <1>1, <2>1, AttemptAndForwardRows
  <2>3. RowsStep /\ AttemptsStep
    BY <1>1, <1>2, <2>2, AttemptFootprint
  <2> QED BY <2>1, <2>2, <2>3, NothingElse DEF Footprint
<1> QED BY <1>3, <1>5, <1>6, <1>7, <1>8, <1>9 DEF TimerStep

LEMMA PeerFootprint == ASSUME TypeOK, NEW n \in Node, PeerStep(n) PROVE Footprint
<1> PICK p \in Node : Hear(n, p) \/ Silence(n, p) \/ KeyResponse(n, p)
  BY DEF PeerStep
<1>1. CASE Hear(n, p) \/ Silence(n, p)
  <2>1. UNCHANGED <<store, tasks, wire, inbox, up, sweepDue>>
    BY <1>1 DEF Hear, Silence
  <2> QED BY <2>1, NothingElse DEF Footprint
<1>2. CASE KeyResponse(n, p)
  <2> DEFINE t == EncryptPending(n, p)
             ids == GetMessagesForDestination(t, Live, p)
  <2>1. AttemptAndForward(n, t, ids) /\ UNCHANGED <<inbox, up, sweepDue>>
    BY <1>2 DEF KeyResponse
  <2>2. t \in Table /\ \A id \in Id : t[id] = store[n][id] \/ RowQueued(t, n, id)
    BY <1>2, RewriteType, RewrittenRows DEF TypeOK, EncryptPending
  <2>3. ids \in SUBSET Id /\ \A id \in ids : t[id].status \in {"undelivered", "intransit"}
    BY DEF GetMessagesForDestination, GetAllPending, Live
  <2> HIDE DEF t, ids
  <2>4. StartAttempts(n, t, Reachable(n, ids)) /\ FramesStep
    BY <2>1, <2>2, AttemptAndForwardRows
  <2>5. RowsStep /\ AttemptsStep
    BY <2>2, <2>3, <2>4, AttemptFootprint
  <2> QED BY <2>1, <2>4, <2>5, NothingElse DEF Footprint
<1> QED BY <1>1, <1>2

LEMMA MachineFootprint == ASSUME TypeOK, NEW n \in Node, MachineStep(n) PROVE Footprint
<1>1. CASE Crash(n)
  <2>1. /\ UNCHANGED <<store, wire, inbox>>
        /\ up' = [up EXCEPT ![n] = FALSE] /\ tasks' = [tasks EXCEPT ![n] = {}]
        /\ sweepDue' = [sweepDue EXCEPT ![n] = FALSE]
    BY <1>1 DEF Crash
  <2>2. ~up'[n] /\ tasks'[n] = {}
        /\ \A q \in Node : q # n => up'[q] = up[q] /\ tasks'[q] = tasks[q] /\ sweepDue'[q] = sweepDue[q]
    BY <2>1 DEF TypeOK
  <2>3. AttemptsStep /\ SweepStep
    BY <2>2 DEF AttemptsStep, SweepStep
  <2> QED BY <2>1, <2>3, NothingElse DEF Footprint
<1>2. CASE Restart(n)
  <2>1. /\ UNCHANGED <<tasks, wire, inbox>> /\ store' = [store EXCEPT ![n] = Clean(n)]
        /\ up' = [up EXCEPT ![n] = TRUE] /\ sweepDue' = [sweepDue EXCEPT ![n] = TRUE]
    BY <1>2 DEF Restart
  <2>2. SweepStep
    BY <2>1 DEF SweepStep, TypeOK
  <2> QED BY <2>1, <2>2, CleanFootprint, NothingElse DEF Footprint
<1>3. CASE \E to \in Place : Move(n, to)
  <2>1. UNCHANGED <<store, tasks, wire, inbox, up, sweepDue>>
    BY <1>3 DEF Move
  <2> QED BY <2>1, NothingElse DEF Footprint
<1> QED BY <1>1, <1>2, <1>3 DEF MachineStep

LEMMA StepSent == TypeOK /\ [Next]_vars => SentStep
<1> SUFFICES ASSUME TypeOK, [Next]_vars PROVE SentStep
  OBVIOUS
<1>1. UNCHANGED cli => SentStep
  BY DEF SentStep
<1>2. CASE UNCHANGED vars
  BY <1>1, <1>2 DEF vars
<1>3. CASE WireStep \/ TimeStep
  BY <1>1, <1>3 DEF WireStep, ReceiveFrame, LoseFrame, TimeStep, Expire, GrowAncient
<1>4. ASSUME NEW n \in Node, AttemptStep(n) PROVE SentStep
  BY <1>1, <1>4 DEF AttemptStep, TcpServe, TcpRefuse, TcpFail, AttemptSucceeds, AttemptFails, Finish
<1>5. ASSUME NEW n \in Node, TimerStep(n) PROVE SentStep
  BY <1>1, <1>5 DEF TimerStep, RetrySweep, StartupSweep, EpidemicSweep, HourlyCleanup, WatcherTick,
                    Sync
<1>6. ASSUME NEW n \in Node, PeerStep(n) \/ MachineStep(n) PROVE SentStep
  BY <1>1, <1>6 DEF PeerStep, Hear, Silence, KeyResponse, MachineStep, Crash, Restart, Move
<1> QED BY <1>2, <1>3, <1>4, <1>5, <1>6, UserFootprint DEF Next

LEMMA StepFootprint == TypeOK /\ [Next]_vars => Footprint
<1> SUFFICES ASSUME TypeOK, [Next]_vars PROVE Footprint
  OBVIOUS
<1>1. CASE UNCHANGED vars \/ TimeStep
  <2>1. UNCHANGED <<store, tasks, wire, inbox, up, sweepDue>>
    BY <1>1 DEF vars, TimeStep, Expire, GrowAncient
  <2> QED BY <2>1, NothingElse DEF Footprint
<1>2. CASE \E n \in Node : AttemptStep(n) \/ TimerStep(n) \/ PeerStep(n) \/ MachineStep(n)
  BY <1>2, AttemptStepFootprint, TimerFootprint, PeerFootprint, MachineFootprint
<1> QED BY <1>1, <1>2, UserFootprint, WireFootprint DEF Next

-----------------------------------------------------------------------------
(* Hop counts *)

LEMMA RemovedRow ==
    ASSUME TypeOK, NEW n \in Node, NEW id \in Id
    PROVE  /\ store[n][id] \in Row /\ store[n][id].hop \in 0..HopLimit
           /\ Removed(n, id) => ~Has(store'[n], id)
           /\ Kept(n, id) => (Has(store'[n], id) <=> Has(store[n], id))
BY DEF TypeOK, Table, Row, Removed, Kept, Has, NoRow

LEMMA HopStep == TypeOK /\ HopDiscipline /\ [Next]_vars => HopDiscipline'
<1> SUFFICES ASSUME TypeOK, HopDiscipline, [Next]_vars PROVE HopDiscipline'
  OBVIOUS
<1>1. TypeOK' /\ RowsStep
  BY TypeStep, StepFootprint DEF Footprint
<1>2. ASSUME NEW n \in Node, NEW id \in Id, Has(store'[n], id), n \notin {From(id), Dest(id)}
      PROVE  store'[n][id].hop > 0
  <2>1. Has(store[n], id) => store[n][id].hop > 0
    BY <1>2 DEF HopDiscipline
  <2>2. RowStep(n, id) /\ store[n][id].hop \in 0..HopLimit
    BY <1>1, RemovedRow DEF RowsStep
  <2>3. CASE Kept(n, id)
    BY <1>2, <2>1, <2>3, RemovedRow DEF Kept
  <2>4. CASE Relayed(n, id)
    <3>1. PICK f \in wire : store'[n][id].hop = f.hop + 1
                            \/ (Has(store[n], id) /\ store'[n][id].hop = store[n][id].hop)
      BY <2>4 DEF Relayed
    <3>2. f.hop \in 0..(HopLimit - 1)
      BY DEF TypeOK, Frame
    <3> QED BY <2>1, <3>1, <3>2, StoreAssumption
  <2>5. CASE Settled(n, id) \/ Queued(n, id)
    BY <2>1, <2>5 DEF Settled, Queued
  <2>6. ~Removed(n, id) /\ ~Typed(n, id) /\ ~AckWritten(n, id) /\ ~Arrived(n, id)
    BY <1>2 DEF Removed, NoRow, Has, Typed, AckWritten, Arrived, From, Dest
  <2> QED BY <2>2, <2>3, <2>4, <2>5, <2>6 DEF RowStep
<1>3. (\A f \in wire' : f.hop < HopLimit) /\ \A n \in Node : \A a \in tasks'[n] : a.hop < HopLimit
  <2>1. \A k \in 0..(HopLimit - 1) : k < HopLimit
    BY StoreAssumption
  <2>2. wire' \subseteq Frame /\ \A n \in Node : tasks'[n] \subseteq Task
    BY <1>1 DEF TypeOK
  <2> QED BY <2>1, <2>2 DEF Frame, Task
<1> QED BY <1>2, <1>3 DEF HopDiscipline

(* Hop counts count relays: upsertMessage, the relay branch and the SELECTs *)
(* never let a relay's copy look like the sender's own, and nothing at the  *)
(* limit travels on.                                                        *)
THEOREM HopsCounted == Spec => []HopDiscipline
<1>1. Init => TypeOK /\ HopDiscipline
  <2>1. Init => HopDiscipline
    BY DEF Init, HopDiscipline, EmptyTable, NoRow, Has
  <2> QED BY <2>1, TypeInit
<1>2. TypeOK /\ HopDiscipline /\ [Next]_vars => (TypeOK /\ HopDiscipline)'
  BY HopStep, TypeStep
<1> QED BY <1>1, <1>2, PTL DEF Spec

-----------------------------------------------------------------------------
(* Attempts behind 'intransit' rows *)

LEMMA OwnedStep == TypeOK /\ IntransitOwned /\ [Next]_vars => IntransitOwned'
<1> SUFFICES ASSUME TypeOK, IntransitOwned, [Next]_vars,
                    NEW n \in Node, NEW id \in Id,
                    up'[n], ~sweepDue'[n], store'[n][id].status = "intransit"
             PROVE  \E a \in tasks'[n] : a.id = id
  BY DEF IntransitOwned
<1>1. RowStep(n, id) /\ AttemptsStep /\ SweepStep
  BY StepFootprint DEF Footprint, RowsStep
<1>2. CASE up[n] /\ ~sweepDue[n] /\ store[n][id].status = "intransit"
  <2>1. PICK a \in tasks[n] : a.id = id
    BY <1>2 DEF IntransitOwned
  <2> QED BY <1>1, <2>1 DEF AttemptsStep
<1>3. CASE up[n] /\ ~sweepDue[n] /\ store[n][id].status # "intransit"
  <2>1. Typed(n, id) \/ Queued(n, id)
    BY <1>1, <1>3 DEF RowStep, Kept, Removed, NoRow, AckWritten, Arrived, Relayed, Settled
  <2> QED BY <2>1 DEF Typed, Queued
<1> QED BY <1>1, <1>2, <1>3 DEF SweepStep

(* No row is stuck in 'intransit': an attempt is under way that settles it, *)
(* or the daemon is down or about to sweep.                                 *)
THEOREM OwnedAlways == Spec => []IntransitOwned
<1>1. Init => TypeOK /\ IntransitOwned
  <2>1. Init => IntransitOwned
    BY DEF Init, IntransitOwned, EmptyTable, NoRow
  <2> QED BY <2>1, TypeInit
<1>2. TypeOK /\ IntransitOwned /\ [Next]_vars => (TypeOK /\ IntransitOwned)'
  BY OwnedStep, TypeStep
<1> QED BY <1>1, <1>2, PTL DEF Spec

-----------------------------------------------------------------------------
(* Acknowledgements *)

(* Where an id is found after a step it was before, or in a new row.        *)
LEMMA ExistsStep ==
    ASSUME TypeOK, [Next]_vars, NEW id \in Id, Exists(id)'
    PROVE  Exists(id) \/ \E n \in Node : Has(store'[n], id) /\ ~Has(store[n], id)
<1>1. FramesStep /\ AttemptsStep
  BY StepFootprint DEF Footprint
<1>2. CASE \E n \in Node : Has(store'[n], id)
  BY <1>2 DEF Exists
<1>3. CASE \E n \in Node : \E b \in tasks'[n] : b.id = id
  <2>1. PICK n \in Node : \E b \in tasks'[n] : b.id = id
    BY <1>3
  <2>2. (\E a \in tasks[n] : a.id = id) \/ store'[n][id].status = "intransit"
    BY <1>1, <2>1 DEF AttemptsStep
  <2> QED BY <2>2 DEF Exists, Has
<1>4. CASE \E f \in wire' : f.id = id
  BY <1>1, <1>4 DEF FramesStep, Exists, Has
<1> QED BY <1>2, <1>3, <1>4 DEF Exists

LEMMA AckStep == TypeOK /\ AckOnlyAfterInbox /\ [Next]_vars => AckOnlyAfterInbox'
<1> SUFFICES ASSUME TypeOK, AckOnlyAfterInbox, [Next]_vars, NEW m \in Msg, Exists(Ack(m))'
             PROVE  inbox'[m] > 0
  BY DEF AckOnlyAfterInbox, Ack
<1>1. RowsStep /\ InboxStep /\ TypeOK'
  BY TypeStep, StepFootprint DEF Footprint
<1>2. /\ Ack(m) \in Id /\ Ack(m).kind = "ack" /\ Ack(m).of = m
      /\ inbox[m] \in Nat /\ inbox'[m] \in Nat
  BY <1>1, IdFacts DEF TypeOK
<1>3. CASE inbox[m] > 0
  <2>1. inbox'[m] = inbox[m] \/ inbox'[m] > inbox[m]
    BY <1>1 DEF InboxStep
  <2> QED BY <1>2, <1>3, <2>1
<1>4. CASE ~(inbox[m] > 0)
  <2>1. ~Exists(Ack(m))
    BY <1>4 DEF AckOnlyAfterInbox
  <2>2. PICK n \in Node : Has(store'[n], Ack(m)) /\ ~Has(store[n], Ack(m))
    BY <1>2, <2>1, ExistsStep
  <2>3. RowStep(n, Ack(m))
    BY <1>1, <1>2 DEF RowsStep
  <2>4. ~Kept(n, Ack(m)) /\ ~Removed(n, Ack(m)) /\ ~Typed(n, Ack(m)) /\ ~Arrived(n, Ack(m))
        /\ ~Settled(n, Ack(m)) /\ ~Queued(n, Ack(m))
    BY <1>2, <2>2 DEF Kept, Removed, NoRow, Typed, Arrived, Settled, Queued, Has
  <2>5. ~Relayed(n, Ack(m))
    BY <2>1 DEF Relayed, Exists
  <2>6. AckWritten(n, Ack(m))
    BY <2>3, <2>4, <2>5 DEF RowStep
  <2> QED BY <1>2, <2>6 DEF AckWritten
<1> QED BY <1>3, <1>4

(* Nobody, relays included, holds an acknowledgement of a message that is   *)
(* not in the recipient's inbox.                                            *)
THEOREM AcksAreEarned == Spec => []AckOnlyAfterInbox
<1>1. Init => TypeOK /\ AckOnlyAfterInbox
  <2>1. Init => AckOnlyAfterInbox
    BY IdFacts DEF Init, AckOnlyAfterInbox, Exists, EmptyTable, NoRow, Has
  <2> QED BY <2>1, TypeInit
<1>2. TypeOK /\ AckOnlyAfterInbox /\ [Next]_vars => (TypeOK /\ AckOnlyAfterInbox)'
  BY AckStep, TypeStep
<1> QED BY <1>1, <1>2, PTL DEF Spec

-----------------------------------------------------------------------------
(* The plaintext *)

(* Every row and every frame holds something. *)
Written ==
    /\ \A n \in Node, id \in Id : Has(store[n], id) => store[n][id].payload # "none"
    /\ \A f \in wire : f.payload # "none"

(* Of message m there is only n's row, n is where it was typed, and it has   *)
(* not been received.                                                       *)
Alone(m, n) ==
    /\ n = Origin[m]
    /\ ~InFlight(User(m))
    /\ \A q \in Node : q # n => ~Has(store[q], User(m))
    /\ inbox[m] = 0

PlainIsAlone ==
    \A n \in Node, m \in Msg :
        store[n][User(m)].payload = "plain" =>
            store[n][User(m)].status = "__pending_encryption" /\ Alone(m, n)

SealedInFlight == \A f \in wire : f.id.kind = "msg" => f.payload = "sealed"

Sealed == Remembered /\ AckOnlyAfterInbox /\ Written /\ PlainIsAlone /\ SealedInFlight

LEMMA WrittenStep == TypeOK /\ Written /\ [Next]_vars => Written'
<1> SUFFICES ASSUME TypeOK, Written, [Next]_vars PROVE Written'
  OBVIOUS
<1>1. RowsStep /\ FramesStep /\ TypeOK'
  BY TypeStep, StepFootprint DEF Footprint
<1>2. ASSUME NEW n \in Node, NEW id \in Id, Has(store'[n], id) PROVE store'[n][id].payload # "none"
  <2>1. RowStep(n, id)
    BY <1>1 DEF RowsStep
  <2>2. CASE Kept(n, id) \/ Removed(n, id) \/ Settled(n, id)
    BY <1>2, <2>2 DEF Kept, Removed, NoRow, Settled, Has, Written
  <2>3. CASE Typed(n, id) \/ AckWritten(n, id) \/ Queued(n, id)
    BY <1>2, <2>3 DEF Typed, AckWritten, Queued, Has, Written
  <2>4. CASE Arrived(n, id)
    BY <2>4 DEF Arrived, Written
  <2>5. CASE Relayed(n, id)
    BY <2>5 DEF Relayed, Written
  <2> QED BY <2>1, <2>2, <2>3, <2>4, <2>5 DEF RowStep
<1>3. ASSUME NEW f \in wire' PROVE f.payload # "none"
  <2>1. f.id \in Id
    BY <1>1 DEF TypeOK, Frame
  <2> QED BY <1>1, <1>2, <2>1 DEF FramesStep, Written, Has
<1> QED BY <1>2, <1>3 DEF Written

(* A row that holds plaintext after a step was typed in it, or held it       *)
(* before; either way the message was alone.                                *)
LEMMA PlainRow ==
    ASSUME Sealed, [Next]_vars, NEW n \in Node, NEW m \in Msg,
           store'[n][User(m)].payload = "plain"
    PROVE  /\ store'[n][User(m)].status = "__pending_encryption"
           /\ Alone(m, n) /\ cli'[m] = "sent"
           /\ cli[m] = "sent" \/ cli'[m] # cli[m]
<1>0. TypeOK /\ Remembered' /\ TypeOK'
  BY MailboxNextStep DEF Sealed, Remembered
<1>1. User(m) \in Id /\ User(m).kind = "msg" /\ User(m).of = m
  BY IdFacts
<1>2. RowStep(n, User(m))
  BY <1>0, <1>1, StepFootprint DEF Footprint, RowsStep
<1>3. ASSUME store[n][User(m)].payload = "plain"
      PROVE  store[n][User(m)].status = "__pending_encryption" /\ Alone(m, n) /\ Has(store[n], User(m))
  BY <1>3 DEF Sealed, PlainIsAlone, Has
<1>4. ASSUME Has(store'[n], User(m)) PROVE cli'[m] = "sent"
  BY <1>0, <1>1, <1>4 DEF Remembered, InboxRemembered, RowsStarted, Started
<1>5. ASSUME Has(store[n], User(m)) PROVE cli[m] = "sent"
  BY <1>1, <1>5 DEF Sealed, Remembered, InboxRemembered, RowsStarted, Started
<1>6. ~Exists(Ack(m)) \/ inbox[m] > 0
  BY DEF Sealed, AckOnlyAfterInbox
<1>7. CASE Kept(n, User(m))
  BY <1>3, <1>4, <1>5, <1>7 DEF Kept, Has
<1>8. CASE Typed(n, User(m))
  <2>1. /\ store'[n][User(m)].status = "__pending_encryption"
        /\ n = Origin[m] /\ cli[m] # "sent" /\ cli'[m] = "sent"
    BY <1>1, <1>8 DEF Typed
  <2>2. Alone(m, n)
    BY <1>1, <2>1 DEF Alone, Sealed, Remembered, InboxRemembered, RowsStarted, FramesCurrent,
                      AttemptsCurrent, Started, UnsentUntouched, InFlight
  <2> QED BY <2>1, <2>2
<1>9. CASE Settled(n, User(m))
  <2>1. store[n][User(m)].payload = "plain"
    BY <1>9 DEF Settled
  <2>2. ~InFlight(User(m)) /\ inbox[m] = 0
    BY <1>3, <2>1 DEF Alone
  <2>3. ~InFlight(Ack(m))
    BY <1>6, <2>2 DEF Exists, InFlight
  <2> QED BY <1>1, <1>9, <2>2, <2>3 DEF Settled, InFlight
<1>10. ~Arrived(n, User(m)) /\ ~Relayed(n, User(m))
  <2>1. ASSUME InFlight(User(m)) PROVE store[n][User(m)].payload # "plain"
    BY <1>3, <2>1 DEF Alone
  <2>2. \A f \in wire : f.id = User(m) => f.payload = "sealed"
    BY <1>1 DEF Sealed, SealedInFlight
  <2>3. ~Arrived(n, User(m))
    BY <2>1, <2>2 DEF Arrived
  <2>4. ~Relayed(n, User(m))
    BY <2>1, <2>2 DEF Relayed, InFlight
  <2> QED BY <2>3, <2>4
<1>11. CASE Queued(n, User(m))
  BY <1>3, <1>11 DEF Queued
<1>12. ~AckWritten(n, User(m))
  BY <1>1 DEF AckWritten
<1>13. CASE Removed(n, User(m))
  BY <1>13 DEF Removed, NoRow
<1> QED BY <1>2, <1>7, <1>8, <1>9, <1>10, <1>11, <1>12, <1>13 DEF RowStep

LEMMA PlainStep ==
    ASSUME Sealed, [Next]_vars
    PROVE  PlainIsAlone'
<1> SUFFICES ASSUME NEW n \in Node, NEW m \in Msg, store'[n][User(m)].payload = "plain"
             PROVE  store'[n][User(m)].status = "__pending_encryption" /\ Alone(m, n)'
  BY DEF PlainIsAlone, User
<1>1. TypeOK /\ RowsStep /\ FramesStep /\ AttemptsStep /\ InboxStep
  BY StepFootprint DEF Sealed, Remembered, Footprint
<1>2. User(m) \in Id /\ User(m).kind = "msg" /\ User(m).of = m
  BY IdFacts
<1>3. store'[n][User(m)].status = "__pending_encryption" /\ Alone(m, n)
  BY PlainRow
<1>4. ASSUME NEW q \in Node, q # n PROVE ~Has(store'[q], User(m))
  <2>1. RowStep(q, User(m)) /\ ~Has(store[q], User(m)) /\ ~InFlight(User(m)) /\ q # Origin[m]
    BY <1>1, <1>2, <1>3, <1>4 DEF RowsStep, Alone
  <2>2. ~Typed(q, User(m)) /\ ~AckWritten(q, User(m)) /\ ~Arrived(q, User(m))
        /\ ~Settled(q, User(m)) /\ ~Queued(q, User(m))
    BY <1>2, <2>1 DEF Typed, AckWritten, Arrived, Settled, Queued
  <2>3. ~Relayed(q, User(m))
    BY <2>1 DEF Relayed, InFlight
  <2> QED BY <2>1, <2>2, <2>3 DEF RowStep, Kept, Removed, NoRow, Has
<1>5. ASSUME NEW q \in Node
      PROVE  store'[q][User(m)].status \notin {"undelivered", "intransit"}
  BY <1>3, <1>4 DEF Has
<1>6. ~InFlight(User(m))'
  <2>1. ASSUME NEW f \in wire', f.id = User(m) PROVE FALSE
    BY <1>1, <1>3, <1>5, <2>1 DEF FramesStep, Alone, InFlight
  <2>2. ASSUME NEW q \in Node, NEW b \in tasks'[q], b.id = User(m) PROVE FALSE
    BY <1>1, <1>3, <1>5, <2>2 DEF AttemptsStep, Alone, InFlight
  <2> QED BY <2>1, <2>2 DEF InFlight, User
<1>7. inbox'[m] = 0
  <2>1. store'[Origin[m]][User(m)].payload # "sealed"
    BY <1>3 DEF Alone
  <2> QED BY <1>1, <1>3, <2>1 DEF InboxStep, Alone
<1> QED BY <1>3, <1>4, <1>6, <1>7 DEF Alone, User

LEMMA SealedFramesStep ==
    ASSUME Sealed, [Next]_vars
    PROVE  SealedInFlight'
<1> SUFFICES ASSUME NEW f \in wire', f.id.kind = "msg" PROVE f.payload = "sealed"
  BY DEF SealedInFlight
<1>1. TypeOK /\ TypeOK' /\ FramesStep /\ Written'
  BY TypeStep, StepFootprint, WrittenStep DEF Sealed, Remembered, Footprint
<1>2. CASE f \in wire
  BY <1>2 DEF Sealed, SealedInFlight
<1>3. CASE \E n \in Node : /\ store'[n][f.id].status \in {"undelivered", "intransit"}
                          /\ f.payload = store'[n][f.id].payload
  <2>1. PICK n \in Node : /\ store'[n][f.id].status \in {"undelivered", "intransit"}
                          /\ f.payload = store'[n][f.id].payload
    BY <1>3
  <2>2. f \in Frame
    BY <1>1 DEF TypeOK
  <2>3. f.id \in Id /\ f.payload \in {"none", "plain", "sealed"}
    BY <2>2 DEF Frame, Payload
  <2>4. f.id.of \in Msg /\ f.id = User(f.id.of)
    BY <2>3, IdFacts
  <2>5. f.payload # "plain"
    BY <2>1, <2>4, PlainRow
  <2>6. f.payload # "none"
    BY <1>1, <2>1, <2>3 DEF Written, Has
  <2> QED BY <2>3, <2>5, <2>6
<1> QED BY <1>1, <1>2, <1>3 DEF FramesStep

LEMMA SealedInit == Init => Sealed
<1> SUFFICES ASSUME Init PROVE Sealed
  OBVIOUS
<1>1. AckOnlyAfterInbox
  BY IdFacts DEF Init, AckOnlyAfterInbox, Exists, EmptyTable, NoRow, Has
<1>2. Written /\ PlainIsAlone /\ SealedInFlight
  BY IdFacts DEF Init, Written, PlainIsAlone, SealedInFlight, EmptyTable, NoRow, Has
<1> QED BY <1>1, <1>2, TypeInit, MailboxInitially DEF Sealed, Remembered

LEMMA SealedStep == Sealed /\ [Next]_vars => Sealed'
<1> SUFFICES ASSUME Sealed, [Next]_vars PROVE Sealed'
  OBVIOUS
<1>1. Remembered' /\ AckOnlyAfterInbox' /\ Written'
  BY MailboxNextStep, AckStep, WrittenStep DEF Sealed, Remembered
<1> QED BY <1>1, PlainStep, SealedFramesStep DEF Sealed

(* What the user typed waits for the recipient's key in one place: no frame *)
(* and no other daemon ever holds it unencrypted.                           *)
THEOREM PlaintextHome == Spec => []UserPlaintextStaysHome
<1>1. Sealed => UserPlaintextStaysHome
  BY DEF Sealed, PlainIsAlone, Alone, SealedInFlight, UserPlaintextStaysHome
<1> QED BY <1>1, SealedInit, SealedStep, PTL DEF Spec
=============================================================================
