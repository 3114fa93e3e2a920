---------------------------- MODULE MailboxProofs ----------------------------
(***************************************************************************)
(* Every message arrives at most once, and the data plane implements the   *)
(* mailbox, for every value of the constants.  The argument is the         *)
(* invariant InboxRemembered: each step group keeps it, and makes a step   *)
(* of the mailbox or none.                                                 *)
(***************************************************************************)
EXTENDS DataPlaneProofs

Remembered == TypeOK /\ InboxRemembered

MailboxStep == [Promise!MailboxNext]_<<Sent, inbox>>

-----------------------------------------------------------------------------
(* What the queries do to a single row. *)

LEMMA MarkRow ==
    ASSUME NEW t \in Table, NEW id \in Id, NEW other \in Id, NEW status \in Status \ {"absent"}
    PROVE  /\ Has(SetStatus(t, id, status), other) => Has(t, other)
           /\ other # id => SetStatus(t, id, status)[other] = t[other]
           /\ t[other].status = status => SetStatus(t, id, status)[other].status = status
BY DEF SetStatus, Has, Table, Row, Status

LEMMA UpsertRow ==
    ASSUME NEW t \in Table, NEW id \in Id, NEW other \in Id, NEW status \in Status \ {"absent"},
           NEW hop \in 0..HopLimit, NEW payload \in Payload
    PROVE  /\ other # id => UpsertMessage(t, id, status, hop, payload)[other] = t[other]
           /\ Has(UpsertMessage(t, id, status, hop, payload), id)
           /\ Has(t, id) => UpsertMessage(t, id, status, hop, payload)[id].status = t[id].status
BY DEF UpsertMessage, InsertMessage, Has, Table, Row, Status

LEMMA InsertRow ==
    ASSUME NEW t \in Table, NEW id \in Id, NEW other \in Id, NEW status, NEW hop, NEW payload
    PROVE  /\ other # id => InsertMessage(t, id, status, hop, payload)[other] = t[other]
           /\ InsertMessage(t, id, status, hop, payload)[id].status = status
BY DEF InsertMessage, Table

LEMMA RewriteRow ==
    ASSUME NEW t \in Table, NEW id \in Id, NEW dest
    PROVE  LET sealed == BulkEncryptPending(t, GetPendingEncryptionMessages(t, Live, dest)) IN
           /\ Has(sealed, id) => Has(t, id)
           /\ t[id].status = "delivered" => sealed[id].status = "delivered"
           /\ Has(ResetInTransit(t), id) => Has(t, id)
           /\ t[id].status = "delivered" => ResetInTransit(t)[id].status = "delivered"
BY DEF BulkEncryptPending, GetPendingEncryptionMessages, ResetInTransit, Has, Table, Row

LEMMA CleanRow ==
    ASSUME TypeOK, NEW n \in Node, NEW id \in Id
    PROVE  /\ Has(Clean(n), id) => Has(store[n], id)
           /\ store[n][id].status = "delivered" /\ age[id] # "ancient"
                => Clean(n)[id].status = "delivered"
<1>1. store[n] \in Table
  BY DEF TypeOK
<1> QED BY <1>1 DEF Clean, CleanExpired, NoRow, Has, Table, Row

-----------------------------------------------------------------------------
(* What the shared parts of the actions send out and remember. *)

(* Forwarding copies rows that are within their ttl. *)
LEMMA ForwardCopies ==
    ASSUME NEW n, NEW t, NEW targets, NEW out \in ForwardMessages(n, t, targets), NEW f \in out
    PROVE  f.id \in Live /\ Has(t, f.id)
<1>1. PICK pair \in targets \X GetAllPending(t, Live) : f = RelayFrame(n, t, pair[1], pair[2])
  BY DEF ForwardMessages, Carriers
<1>2. f.id \in GetAllPending(t, Live)
  BY <1>1 DEF RelayFrame
<1> QED BY <1>2 DEF GetAllPending, Has

(* Attempts are for messages of others and leave the rows of one's own.  *)
LEMMA AttemptCopies ==
    ASSUME TypeOK, NoSelfAddress, NEW n \in Node, NEW t \in Table, NEW ids \in SUBSET Id,
           StartAttempts(n, t, Reachable(n, ids))
    PROVE  /\ \A q \in Node : \A a \in tasks'[q] :
                a \in tasks[q] \/ (q = n /\ a.id \in ids /\ Dest(a.id) # n)
           /\ \A q \in Node : q # n => store'[q] = store[q]
           /\ \A id \in Id : Has(store'[n], id) => Has(t, id) \/ id \in ids
           /\ \A id \in Id : Dest(id) = n => store'[n][id] = t[id]
<1> DEFINE tried == Reachable(n, ids)
<1>1. \A id \in tried : id \in ids /\ Dest(id) # n
  BY DEF Reachable, NoSelfAddress
<1>2. store' = [store EXCEPT ![n] = MarkInTransit(t, tried)] /\ store'[n] = MarkInTransit(t, tried)
  BY DEF StartAttempts, TypeOK
<1>3. \A id \in Id : id \notin tried => MarkInTransit(t, tried)[id] = t[id]
  BY DEF MarkInTransit
<1>4. tasks' = [tasks EXCEPT ![n] = tasks[n] \cup {NewTask(n, t, id) : id \in tried}]
  BY DEF StartAttempts
<1>5. \A q \in Node : \A a \in tasks'[q] :
        a \in tasks[q] \/ (q = n /\ \E id \in tried : a = NewTask(n, t, id))
  BY <1>4 DEF TypeOK
<1>6. \A id \in tried : NewTask(n, t, id).id = id
  BY DEF NewTask
<1>7. \A q \in Node : q # n => store'[q] = store[q]
  BY <1>2 DEF TypeOK
<1>8. \A id \in Id : Has(store'[n], id) => Has(t, id) \/ id \in ids
  BY <1>1, <1>2, <1>3 DEF Has
<1>9. \A id \in Id : Dest(id) = n => store'[n][id] = t[id]
  BY <1>1, <1>2, <1>3
<1>10. \A q \in Node : \A a \in tasks'[q] :
        a \in tasks[q] \/ (q = n /\ a.id \in ids /\ Dest(a.id) # n)
  BY <1>1, <1>5, <1>6
<1> QED BY <1>7, <1>8, <1>9, <1>10

LEMMA AttemptAndForwardCopies ==
    ASSUME TypeOK, NoSelfAddress, NEW n \in Node, NEW t \in Table, NEW ids \in SUBSET Id,
           AttemptAndForward(n, t, ids)
    PROVE  /\ StartAttempts(n, t, Reachable(n, ids))
           /\ \A f \in wire' : f \in wire \/ (f.id \in Live /\ (Has(t, f.id) \/ f.id \in ids))
<1> DEFINE marked == MarkInTransit(t, Reachable(n, ids))
<1>1. PICK out \in ForwardMessages(n, marked, ActivePeers(n)) : wire' = wire \cup out
  BY DEF AttemptAndForward
<1>2. \A f \in out : f.id \in Live /\ Has(marked, f.id)
  BY ForwardCopies
<1>3. \A id \in Id : Has(marked, id) => Has(t, id) \/ id \in ids
  BY DEF MarkInTransit, Reachable, Has
<1>4. Live \subseteq Id
  BY DEF Live
<1> QED BY <1>1, <1>2, <1>3, <1>4 DEF AttemptAndForward

-----------------------------------------------------------------------------
(* Steps that neither send nor deliver. *)

(* Table t of n has rows of started messages only and still marks what n    *)
(* received.                                                                *)
Remembers(n, t) ==
    \A id \in Id :
        /\ Has(t, id) => Started(id)
        /\ /\ id.kind = "msg" /\ Dest(id) = n /\ age[id] # "ancient"
           /\ store[n][id].status = "delivered"
           => t[id].status = "delivered"

LEMMA QuietStep ==
    ASSUME Remembered, UNCHANGED <<inbox, age>>, Sent' = Sent,
           \A n \in Node : Remembers(n, store'[n]),
           NoSelfAddress', FramesCurrent', AttemptsCurrent'
    PROVE  InboxRemembered' /\ MailboxStep
<1>0. \A m \in Msg : cli'[m] = "sent" <=> cli[m] = "sent"
  BY DEF Sent
<1>1. RowsStarted'
  BY <1>0, IdFacts DEF RowsStarted, Remembers, Started
<1>2. UnsentUntouched'
  BY <1>0 DEF Remembered, InboxRemembered, UnsentUntouched
<1>3. ArrivalsMarked'
  <2> SUFFICES ASSUME NEW m \in Msg, inbox[m] # 0
               PROVE  /\ inbox[m] = 1
                      /\ store'[Target[m]][User(m)].status = "delivered" \/ age[User(m)] = "ancient"
    BY DEF ArrivalsMarked
  <2>1. /\ inbox[m] = 1
        /\ store[Target[m]][User(m)].status = "delivered" \/ age[User(m)] = "ancient"
    BY DEF Remembered, InboxRemembered, ArrivalsMarked
  <2>2. User(m) \in Id /\ User(m).kind = "msg" /\ Dest(User(m)) = Target[m] /\ Target[m] \in Node
    BY IdFacts, StoreAssumption DEF Dest
  <2>3. Remembers(Target[m], store'[Target[m]])
    BY <2>2
  <2> QED BY <2>1, <2>2, <2>3 DEF Remembers
<1>4. MailboxStep
  BY DEF MailboxStep
<1> QED BY <1>1, <1>2, <1>3, <1>4 DEF InboxRemembered

LEMMA RemembersItself == Remembered => \A n \in Node : Remembers(n, store[n])
BY DEF Remembered, InboxRemembered, RowsStarted, Remembers

(* The rewriting queries preserve it. *)
LEMMA RewriteRemembers ==
    ASSUME Remembered, NEW n \in Node, NEW dest
    PROVE  /\ Remembers(n, ResetInTransit(store[n]))
           /\ Remembers(n, BulkEncryptPending(store[n],
                             GetPendingEncryptionMessages(store[n], Live, dest)))
           /\ Remembers(n, Clean(n))
<1>1. TypeOK /\ store[n] \in Table /\ Remembers(n, store[n])
  BY RemembersItself DEF Remembered, TypeOK
<1>2. Remembers(n, ResetInTransit(store[n]))
  BY <1>1, RewriteRow DEF Remembers
<1>3. Remembers(n, BulkEncryptPending(store[n], GetPendingEncryptionMessages(store[n], Live, dest)))
  BY <1>1, RewriteRow DEF Remembers
<1>4. Remembers(n, Clean(n))
  BY <1>1, CleanRow DEF Remembers
<1> QED BY <1>2, <1>3, <1>4

LEMMA MarkRemembers ==
    ASSUME Remembered, NEW n \in Node, NEW id \in Id
    PROVE  /\ Remembers(n, MarkDelivered(store[n], id))
           /\ Dest(id) # n => Remembers(n, MarkUndelivered(store[n], id))
<1>1. store[n] \in Table /\ Remembers(n, store[n])
  BY RemembersItself DEF Remembered, TypeOK
<1>2. "delivered" \in Status \ {"absent"} /\ "undelivered" \in Status \ {"absent"}
  BY DEF Status
<1>3. Remembers(n, MarkDelivered(store[n], id))
  BY <1>1, <1>2, MarkRow DEF Remembers, MarkDelivered
<1>4. ASSUME Dest(id) # n PROVE Remembers(n, MarkUndelivered(store[n], id))
  BY <1>1, <1>2, <1>4, MarkRow DEF Remembers, MarkUndelivered
<1> QED BY <1>3, <1>4

(* One table changes. *)
LEMMA OneTable ==
    ASSUME Remembered, NEW n \in Node, NEW t, Remembers(n, t), store' = [store EXCEPT ![n] = t]
    PROVE  \A q \in Node : Remembers(q, store'[q])
<1>1. store'[n] = t /\ \A q \in Node : q # n => store'[q] = store[q]
  BY DEF Remembered, TypeOK
<1> QED BY <1>1, RemembersItself

(* Started attempts, and the frames of a forwarding round. *)
LEMMA AttemptRemembers ==
    ASSUME Remembered, NEW n \in Node, NEW t \in Table, Remembers(n, t),
           NEW ids \in SUBSET Live, \A id \in ids : Has(t, id),
           UNCHANGED <<inbox, cli, age>>,
           StartAttempts(n, t, Reachable(n, ids))
    PROVE  (\A q \in Node : Remembers(q, store'[q])) /\ AttemptsCurrent'
<1>1. TypeOK /\ NoSelfAddress /\ ids \in SUBSET Id
  BY DEF Remembered, InboxRemembered, Live
<1>2. /\ \A q \in Node : \A a \in tasks'[q] :
             a \in tasks[q] \/ (q = n /\ a.id \in ids /\ Dest(a.id) # n)
      /\ \A q \in Node : q # n => store'[q] = store[q]
      /\ \A id \in Id : Has(store'[n], id) => Has(t, id) \/ id \in ids
      /\ \A id \in Id : Dest(id) = n => store'[n][id] = t[id]
  BY <1>1, AttemptCopies
<1>3. Remembers(n, store'[n])
  BY <1>2 DEF Remembers
<1>4. \A id \in ids : Started(id) /\ age[id] # "ancient"
  BY <1>1 DEF Remembers, Live
<1>5. AttemptsCurrent'
  BY <1>2, <1>4 DEF AttemptsCurrent, Started, Remembered, InboxRemembered
<1> QED BY <1>2, <1>3, <1>5, RemembersItself

LEMMA AttemptAndForwardRemembers ==
    ASSUME Remembered, NEW n \in Node, NEW t \in Table, Remembers(n, t),
           NEW ids \in SUBSET Live, \A id \in ids : Has(t, id),
           UNCHANGED <<inbox, cli, age>>,
           AttemptAndForward(n, t, ids)
    PROVE  (\A q \in Node : Remembers(q, store'[q])) /\ AttemptsCurrent' /\ FramesCurrent'
<1>1. TypeOK /\ NoSelfAddress /\ ids \in SUBSET Id
  BY DEF Remembered, InboxRemembered, Live
<1>2. /\ StartAttempts(n, t, Reachable(n, ids))
      /\ \A f \in wire' : f \in wire \/ (f.id \in Live /\ (Has(t, f.id) \/ f.id \in ids))
  BY <1>1, AttemptAndForwardCopies
<1>3. \A id \in Live : id \in Id /\ age[id] # "ancient" /\ (Has(t, id) => Started(id))
  BY DEF Live, Remembers
<1>4. FramesCurrent'
  BY <1>2, <1>3 DEF FramesCurrent, Started, Remembered, InboxRemembered
<1> QED BY <1>2, <1>4, AttemptRemembers

-----------------------------------------------------------------------------
(* Deliveries *)

(* What Receive leaves behind when n, the recipient of m, handles it first.  *)
LEMMA ReceiveRow ==
    ASSUME TypeOK, NEW m \in Msg, NEW n \in Node, n = Target[m], inbox[m] = 0,
           NEW t \in Table, \A id \in Id : id # User(m) => t[id] = store[n][id],
           NEW hop \in 0..HopLimit, NEW payload \in Payload, NEW outcome \in Outcome,
           Receive(n, t, User(m), hop, payload, outcome)
    PROVE  /\ store'[n][User(m)].status = "delivered" \/ inbox' = inbox
           /\ \A q \in Node, id \in Id :
                  q # n \/ id \notin {User(m), Ack(m)} => store'[q][id] = store[q][id]
           /\ inbox' = inbox \/ inbox' = [inbox EXCEPT ![m] = 1]
<1> DEFINE stored == StoreDelivered(t, User(m), hop, payload)
<1>1. User(m) \in Id /\ Ack(m) \in Id /\ User(m).of = m /\ User(m) # Ack(m)
  BY IdFacts
<1>2. "delivered" \in Status \ {"absent"}
  BY DEF Status
<1>3. stored \in Table /\ stored[User(m)].status = "delivered"
      /\ \A id \in Id : id # User(m) => stored[id] = t[id]
  <2> DEFINE upserted == UpsertMessage(t, User(m), "delivered", hop, payload)
  <2>1. upserted \in Table /\ Has(upserted, User(m))
        /\ \A id \in Id : id # User(m) => upserted[id] = t[id]
    BY <1>1, <1>2, UpsertType, UpsertRow
  <2>2. stored = SetStatus(upserted, User(m), "delivered")
    BY DEF StoreDelivered, MarkDelivered
  <2>3. stored \in Table
    BY <1>1, <1>2, <2>1, <2>2, SetStatusType
  <2>4. stored[User(m)].status = "delivered"
    BY <1>1, <2>1, <2>2 DEF SetStatus, Table, Row
  <2>5. \A id \in Id : id # User(m) => stored[id] = upserted[id]
    BY <1>1, <1>2, <2>1, <2>2, MarkRow
  <2> QED BY <2>1, <2>3, <2>4, <2>5
<1>4. \A id \in Id : id # Ack(m) => SendAck(n, stored, m)[id] = stored[id]
  BY <1>1, <1>3 DEF SendAck, InsertMessage, Table
<1>5. \/ store' = [store EXCEPT ![n] = SendAck(n, stored, m)]
      \/ store' = [store EXCEPT ![n] = stored]
      \/ store' = [store EXCEPT ![n] = t] /\ inbox' = [inbox EXCEPT ![m] = inbox[m]]
  <2>1. CASE outcome = "no row"
    BY <1>1, <2>1 DEF Receive, Acknowledged
  <2>2. CASE outcome # "no row"
    BY <1>1, <2>2 DEF Receive
  <2> QED BY <2>1, <2>2
<1>6. \A q \in Node : q # n => store'[q] = store[q]
  BY <1>5 DEF TypeOK
<1>7. \/ store'[n] = SendAck(n, stored, m)
      \/ store'[n] = stored
      \/ store'[n] = t /\ inbox' = inbox
  BY <1>5 DEF TypeOK
<1>8. inbox' = inbox \/ inbox' = [inbox EXCEPT ![m] = 1]
  <2>1. inbox' = [inbox EXCEPT ![m] = inbox[m]] \/ inbox' = [inbox EXCEPT ![m] = inbox[m] + 1]
    BY <1>1 DEF Receive
  <2>2. inbox \in [Msg -> Nat]
    BY DEF TypeOK
  <2> QED BY <2>1, <2>2
<1> QED BY <1>1, <1>3, <1>4, <1>6, <1>7, <1>8

(* The invariant after such a step, which may also be the send command's. *)
LEMMA ReceiveRemembers ==
    ASSUME Remembered, NEW m \in Msg, UNCHANGED age, cli'[m] = "sent",
           \A o \in Msg : o # m => cli'[o] = cli[o],
           store'[Target[m]][User(m)].status = "delivered" \/ inbox' = inbox,
           \A q \in Node, id \in Id :
               q # Target[m] \/ id \notin {User(m), Ack(m)} => store'[q][id] = store[q][id],
           inbox[m] = 0, inbox' = inbox \/ inbox' = [inbox EXCEPT ![m] = 1]
    PROVE  RowsStarted' /\ UnsentUntouched' /\ ArrivalsMarked'
<1>1. \A id \in Id : Started(id) => Started(id)'
  BY IdFacts DEF Started
<1>2. Started(User(m))' /\ Started(Ack(m))'
  BY IdFacts DEF Started
<1>3. RowsStarted'
  BY <1>1, <1>2 DEF RowsStarted, Remembered, InboxRemembered, Has
<1>4. inbox \in [Msg -> Nat]
  BY DEF Remembered, TypeOK
<1>5. \A o \in Msg : o # m => inbox'[o] = inbox[o]
  BY <1>4
<1>6. inbox'[m] \in {0, 1}
  BY <1>4
<1>7. UnsentUntouched'
  BY <1>5 DEF UnsentUntouched, Remembered, InboxRemembered
<1>8. ArrivalsMarked'
  <2> SUFFICES ASSUME NEW o \in Msg, o # m, inbox[o] # 0
               PROVE  /\ inbox[o] = 1
                      /\ \/ store'[Target[o]][User(o)].status = "delivered"
                         \/ age[User(o)] = "ancient"
    BY <1>5, <1>6 DEF ArrivalsMarked
  <2>1. User(o) \in Id /\ User(o) # User(m) /\ User(o) # Ack(m) /\ Target[o] \in Node
    BY IdFacts, StoreAssumption
  <2>2. store'[Target[o]][User(o)] = store[Target[o]][User(o)]
    BY <2>1
  <2> QED BY <2>2 DEF ArrivalsMarked, Remembered, InboxRemembered
<1> QED BY <1>3, <1>7, <1>8

(* A frame or a served attempt reaches the part after the relay branch. *)
LEMMA DeliverStep ==
    ASSUME Remembered, NEW n \in Node, NEW id \in Id, NEW hop \in 0..HopLimit,
           NEW payload \in Payload, Started(id), age[id] # "ancient",
           Deliver(n, id, hop, payload), UNCHANGED <<cli, age>>,
           NoSelfAddress', FramesCurrent', AttemptsCurrent'
    PROVE  InboxRemembered' /\ MailboxStep
<1>0. Sent' = Sent
  BY DEF Sent
<1>1. CASE UNCHANGED <<store, inbox, faults>>
  BY <1>0, <1>1, RemembersItself, QuietStep
<1>2. CASE store' = [store EXCEPT ![n] = MarkDelivered(@, User(id.of))] /\ UNCHANGED <<inbox, faults>>
  <2>1. Remembers(n, MarkDelivered(store[n], User(id.of)))
    BY MarkRemembers, IdFacts
  <2> QED BY <1>0, <1>2, <2>1, OneTable, QuietStep
<1>3. CASE /\ ~Ignores(n, id) /\ id.kind = "msg"
           /\ \E outcome \in Outcome : Receive(n, store[n], id, hop, payload, outcome)
  <2> DEFINE m == id.of
  <2>1. m \in Msg /\ id = User(m) /\ n = Target[m] /\ store[n][id].status # "delivered"
    BY <1>3, IdFacts DEF Ignores, AlreadyDelivered, Dest
  <2>2. cli[m] = "sent" /\ cli'[m] = "sent" /\ inbox[m] = 0
    BY <1>3, <2>1 DEF Started, Remembered, InboxRemembered, ArrivalsMarked
  <2>3. TypeOK /\ store[n] \in Table
    BY DEF Remembered, TypeOK
  <2>4. /\ store'[n][User(m)].status = "delivered" \/ inbox' = inbox
        /\ \A q \in Node, other \in Id :
               q # n \/ other \notin {User(m), Ack(m)} => store'[q][other] = store[q][other]
        /\ inbox' = inbox \/ inbox' = [inbox EXCEPT ![m] = 1]
    BY <1>3, <2>1, <2>2, <2>3, ReceiveRow
  <2>5. RowsStarted' /\ UnsentUntouched' /\ ArrivalsMarked'
    BY <2>1, <2>2, <2>4, ReceiveRemembers
  <2>6. MailboxStep
    <3>1. CASE inbox' = inbox
      BY <1>0, <3>1 DEF MailboxStep
    <3>2. CASE inbox' = [inbox EXCEPT ![m] = 1]
      BY <1>0, <2>1, <2>2, <3>2 DEF MailboxStep, Promise!MailboxNext, Promise!Arrive, Sent
    <3> QED BY <2>4, <3>1, <3>2
  <2> QED BY <2>5, <2>6 DEF InboxRemembered
<1> QED BY <1>1, <1>2, <1>3 DEF Deliver

-----------------------------------------------------------------------------
(* `ib send` *)

(* The daemon takes message m: at most its own row is new. *)
LEMMA SendStep ==
    ASSUME Remembered, NEW m \in Msg, Submit(m, "sealed") \/ Submit(m, "plain"),
           UNCHANGED <<inbox>>,
           \A q \in Node, id \in Id : Has(store'[q], id) => Has(store[q], id) \/ id = User(m),
           \A id \in Id : id # User(m) => store'[Dest(id)][id] = store[Dest(id)][id],
           \A f \in wire' : f \in wire \/ (f.id \in Live /\ (Started(f.id) \/ f.id = User(m))),
           \A q \in Node : \A a \in tasks'[q] :
               a \in tasks[q] \/ (a.id = User(m) /\ Dest(a.id) # q)
    PROVE  InboxRemembered' /\ MailboxStep
<1>1. /\ cli[m] # "sent" /\ cli'[m] = "sent" /\ \A o \in Msg : o # m => cli'[o] = cli[o]
      /\ UNCHANGED <<age, peers>>
  BY DEF Submit, Remembered, TypeOK
<1>2. inbox[m] = 0 /\ age[User(m)] = "live"
  BY <1>1 DEF Remembered, InboxRemembered, UnsentUntouched
<1>3. \A id \in Id : Started(id) => Started(id)'
  BY <1>1, IdFacts DEF Started
<1>4. Started(User(m))' /\ User(m) \in Id
  BY <1>1, IdFacts DEF Started
<1>5. NoSelfAddress' /\ RowsStarted'
  BY <1>1, <1>3, <1>4 DEF NoSelfAddress, RowsStarted, Remembered, InboxRemembered
<1>6. wire \subseteq Frame /\ tasks \in [Node -> SUBSET Task]
  BY DEF Remembered, TypeOK
<1>7. FramesCurrent'
  <2> SUFFICES ASSUME NEW f \in wire' PROVE Started(f.id)' /\ age[f.id] # "ancient"
    BY <1>1 DEF FramesCurrent
  <2>1. CASE f \in wire
    <3>1. f.id \in Id
      BY <1>6, <2>1 DEF Frame
    <3> QED BY <1>3, <2>1, <3>1 DEF FramesCurrent, Remembered, InboxRemembered
  <2>2. CASE f.id \in Live /\ (Started(f.id) \/ f.id = User(m))
    BY <1>3, <1>4, <2>2 DEF Live
  <2> QED BY <2>1, <2>2
<1>8. AttemptsCurrent'
  <2> SUFFICES ASSUME NEW q \in Node, NEW a \in tasks'[q]
               PROVE  Started(a.id)' /\ age[a.id] # "ancient" /\ Dest(a.id) # q
    BY <1>1 DEF AttemptsCurrent
  <2>1. CASE a \in tasks[q]
    <3>1. a.id \in Id
      BY <1>6, <2>1 DEF Task
    <3> QED BY <1>3, <2>1, <3>1 DEF AttemptsCurrent, Remembered, InboxRemembered
  <2>2. CASE a.id = User(m) /\ Dest(a.id) # q
    BY <1>2, <1>4, <2>2
  <2> QED BY <2>1, <2>2
<1>9. UnsentUntouched'
  BY <1>1 DEF UnsentUntouched, Remembered, InboxRemembered
<1>10. ArrivalsMarked'
  <2> SUFFICES ASSUME NEW o \in Msg, o # m, inbox[o] # 0
               PROVE  /\ inbox[o] = 1
                      /\ \/ store'[Target[o]][User(o)].status = "delivered"
                         \/ age[User(o)] = "ancient"
    BY <1>1, <1>2 DEF ArrivalsMarked
  <2>1. User(o) \in Id /\ User(o) # User(m) /\ Dest(User(o)) = Target[o]
    BY IdFacts DEF Dest
  <2> QED BY <2>1 DEF ArrivalsMarked, Remembered, InboxRemembered
<1>11. MailboxStep
  BY <1>1 DEF MailboxStep, Promise!MailboxNext, Promise!Send, Sent
<1> QED BY <1>5, <1>7, <1>8, <1>9, <1>10, <1>11 DEF InboxRemembered

LEMMA UserStepMailbox == Remembered /\ UserStep => InboxRemembered' /\ MailboxStep
<1> SUFFICES ASSUME Remembered, NEW m \in Msg,
                    CliLookup(m) \/ SendToSelf(m) \/ SendPending(m) \/ SendSealed(m)
             PROVE  InboxRemembered' /\ MailboxStep
  BY DEF UserStep
<1> DEFINE n == Origin[m]
           sealed == InsertMessage(store[n], User(m), "undelivered", 0, "sealed")
<1>1. /\ TypeOK /\ NoSelfAddress /\ n \in Node /\ store[n] \in Table
      /\ User(m) \in Id /\ Dest(User(m)) = Target[m] /\ 0 \in 0..HopLimit
  BY IdFacts, StoreAssumption DEF Remembered, InboxRemembered, TypeOK, Dest
<1>2. sealed \in Table /\ \A id \in Id : id # User(m) => sealed[id] = store[n][id]
  <2>1. "undelivered" \in Status /\ "sealed" \in Payload
    BY DEF Status, Payload
  <2>2. sealed \in Table
    BY <1>1, <2>1, InsertType
  <2>3. \A id \in Id : id # User(m) => sealed[id] = store[n][id]
    BY <1>1, InsertRow
  <2> QED BY <2>2, <2>3
<1>3. CASE CliLookup(m)
  <2>1. Sent' = Sent
    BY <1>3 DEF CliLookup, Sent, Remembered, TypeOK
  <2>2. UNCHANGED <<store, peers, tasks, wire, inbox, age>>
    BY <1>3 DEF CliLookup
  <2>3. \A id \in Id : Started(id) => Started(id)'
    BY <2>1, IdFacts DEF Started, Sent
  <2>4. FramesCurrent'
    <3>1. wire \subseteq Frame /\ \A f \in Frame : f.id \in Id
      BY DEF Remembered, TypeOK, Frame
    <3> QED BY <2>2, <2>3, <3>1 DEF FramesCurrent, Remembered, InboxRemembered
  <2>5. AttemptsCurrent'
    <3>1. \A q \in Node : tasks[q] \subseteq Task
      BY DEF Remembered, TypeOK
    <3>2. \A a \in Task : a.id \in Id
      BY DEF Task
    <3> QED BY <2>2, <2>3, <3>1, <3>2 DEF AttemptsCurrent, Remembered, InboxRemembered
  <2>6. NoSelfAddress'
    BY <1>1, <2>2 DEF NoSelfAddress
  <2> QED BY <2>1, <2>2, <2>4, <2>5, <2>6, RemembersItself, QuietStep
<1>4. CASE SendToSelf(m)
  <2>1. PICK outcome \in Outcome : Receive(n, sealed, User(m), 0, "sealed", outcome)
    BY <1>4 DEF SendToSelf
  <2>2. Target[m] = n /\ UNCHANGED <<tasks, asked, wire>> /\ Submit(m, "sealed")
    BY <1>4 DEF SendToSelf
  <2>3. /\ cli[m] # "sent" /\ cli'[m] = "sent" /\ \A o \in Msg : o # m => cli'[o] = cli[o]
        /\ UNCHANGED <<age, peers>>
    BY <2>2 DEF Submit, Remembered, TypeOK
  <2>4. inbox[m] = 0
    BY <2>3 DEF Remembered, InboxRemembered, UnsentUntouched
  <2>5. /\ store'[n][User(m)].status = "delivered" \/ inbox' = inbox
        /\ \A q \in Node, id \in Id :
               q # n \/ id \notin {User(m), Ack(m)} => store'[q][id] = store[q][id]
        /\ inbox' = inbox \/ inbox' = [inbox EXCEPT ![m] = 1]
    <3>1. "sealed" \in Payload
      BY DEF Payload
    <3> QED BY <1>1, <1>2, <2>1, <2>2, <2>4, <3>1, ReceiveRow
  <2>6. RowsStarted' /\ UnsentUntouched' /\ ArrivalsMarked'
    BY <2>2, <2>3, <2>4, <2>5, ReceiveRemembers
  <2>7. \A id \in Id : Started(id) => Started(id)'
    BY <2>3, IdFacts DEF Started
  <2>8. FramesCurrent'
    <3>1. wire \subseteq Frame /\ \A f \in Frame : f.id \in Id
      BY DEF Remembered, TypeOK, Frame
    <3> QED BY <2>2, <2>3, <2>7, <3>1 DEF FramesCurrent, Remembered, InboxRemembered
  <2>9. AttemptsCurrent'
    <3>1. \A q \in Node : tasks[q] \subseteq Task
      BY DEF Remembered, TypeOK
    <3>2. \A a \in Task : a.id \in Id
      BY DEF Task
    <3> QED BY <2>2, <2>3, <2>7, <3>1, <3>2 DEF AttemptsCurrent, Remembered, InboxRemembered
  <2>10. NoSelfAddress'
    BY <1>1, <2>3 DEF NoSelfAddress
  <2>11. MailboxStep
    <3>1. m \notin Sent /\ Sent' = Sent \cup {m}
      BY <2>3 DEF Sent
    <3> QED BY <2>4, <2>5, <3>1
          DEF MailboxStep, Promise!MailboxNext, Promise!Send, Promise!SendAndArrive
  <2> QED BY <2>6, <2>8, <2>9, <2>10, <2>11 DEF InboxRemembered
<1>5. CASE SendPending(m)
  <2> DEFINE t == InsertMessage(store[n], User(m), "__pending_encryption", 0, "plain")
  <2>1. \A id \in Id : id # User(m) => t[id] = store[n][id]
    BY <1>1, InsertRow
  <2>2. store'[n] = t /\ \A q \in Node : q # n => store'[q] = store[q]
    BY <1>1, <1>5 DEF SendPending, TypeOK
  <2>3. UNCHANGED <<tasks, wire, inbox>> /\ Submit(m, "plain")
    BY <1>5 DEF SendPending
  <2>4. \A q \in Node, id \in Id : id # User(m) => store'[q][id] = store[q][id]
    BY <2>1, <2>2
  <2> QED BY <2>3, <2>4, SendStep, EndsAreNodes DEF Has
<1>6. CASE SendSealed(m)
  <2>1. AttemptAndForward(n, sealed, {User(m)}) /\ UNCHANGED inbox /\ Submit(m, "sealed")
    BY <1>6 DEF SendSealed
  <2>2. /\ StartAttempts(n, sealed, Reachable(n, {User(m)}))
        /\ \A f \in wire' : f \in wire \/ (f.id \in Live /\ (Has(sealed, f.id) \/ f.id \in {User(m)}))
    BY <1>1, <1>2, <2>1, AttemptAndForwardCopies
  <2>3. /\ \A q \in Node : \A a \in tasks'[q] :
             a \in tasks[q] \/ (q = n /\ a.id \in {User(m)} /\ Dest(a.id) # n)
        /\ \A q \in Node : q # n => store'[q] = store[q]
        /\ \A id \in Id : Has(store'[n], id) => Has(sealed, id) \/ id \in {User(m)}
        /\ \A id \in Id : Dest(id) = n => store'[n][id] = sealed[id]
    BY <1>1, <1>2, <2>2, AttemptCopies
  <2>4. \A id \in Id : Has(sealed, id) => Has(store[n], id) \/ id = User(m)
    BY <1>2 DEF Has
  <2>5. \A q \in Node, id \in Id : Has(store'[q], id) => Has(store[q], id) \/ id = User(m)
    BY <2>3, <2>4
  <2>6. \A id \in Id : id # User(m) => store'[Dest(id)][id] = store[Dest(id)][id]
    BY <1>2, <2>3, EndsAreNodes
  <2>7. \A f \in wire' : f \in wire \/ (f.id \in Live /\ (Started(f.id) \/ f.id = User(m)))
    BY <1>1, <2>2, <2>4 DEF Live, Remembered, InboxRemembered, RowsStarted
  <2> QED BY <2>1, <2>3, <2>5, <2>6, <2>7, SendStep
<1> QED BY <1>3, <1>4, <1>5, <1>6

-----------------------------------------------------------------------------
(* Everything else *)

LEMMA AttemptStepMailbox ==
    ASSUME Remembered, NEW n \in Node, AttemptStep(n)
    PROVE  InboxRemembered' /\ MailboxStep
<1> PICK a \in tasks[n] : \/ TcpServe(n, a) \/ TcpRefuse(n, a) \/ TcpFail(n, a)
                         \/ AttemptSucceeds(n, a) \/ AttemptFails(n, a)
  BY DEF AttemptStep
<1>1. /\ TypeOK /\ NoSelfAddress /\ FramesCurrent /\ AttemptsCurrent
      /\ \A q \in Node : Remembers(q, store[q])
  BY RemembersItself DEF Remembered, InboxRemembered
<1>2. /\ a.id \in Id /\ a.hop \in 0..HopLimit
      /\ Started(a.id) /\ age[a.id] # "ancient" /\ Dest(a.id) # n
  <2>1. a \in Task
    BY <1>1, FrameFacts
  <2>2. a.id \in Id /\ a.hop \in 0..(HopLimit - 1)
    BY <2>1 DEF Task
  <2> QED BY <1>1, <2>2, StoreAssumption DEF AttemptsCurrent
<1>3. ASSUME NEW stage, SetStage(n, a, stage), UNCHANGED <<cli, age>> PROVE AttemptsCurrent'
  <2>1. \A q \in Node : \A b \in tasks'[q] : b \in tasks[q] \/ (q = n /\ b = [a EXCEPT !.stage = stage])
    BY <1>1, <1>3 DEF SetStage, TypeOK
  <2>2. [a EXCEPT !.stage = stage].id = a.id
    <3>1. a \in Task
      BY <1>1, FrameFacts
    <3> QED BY <3>1 DEF Task
  <2> QED BY <1>1, <1>2, <1>3, <2>1, <2>2 DEF AttemptsCurrent, Started
<1>4. ASSUME UNCHANGED peers PROVE NoSelfAddress'
  BY <1>1, <1>4 DEF NoSelfAddress
<1>5. ASSUME UNCHANGED <<wire, cli, age>> PROVE FramesCurrent'
  BY <1>1, <1>5 DEF FramesCurrent, Started
<1>6. CASE TcpServe(n, a)
  <2>1. PICK q \in Node : Deliver(q, a.id, a.hop, "sealed")
    BY <1>6 DEF TcpServe, Listeners
  <2>2. SetStage(n, a, "acked") /\ UNCHANGED <<peers, wire, cli, age>>
    BY <1>6 DEF TcpServe
  <2>3. "sealed" \in Payload
    BY DEF Payload
  <2> QED BY <1>2, <1>3, <1>4, <1>5, <2>1, <2>2, <2>3, DeliverStep
<1>7. CASE TcpRefuse(n, a)
  <2>1. SetStage(n, a, "nacked") /\ UNCHANGED <<store, peers, wire, inbox, cli, age>>
    BY <1>7 DEF TcpRefuse
  <2> QED BY <1>1, <1>3, <1>4, <1>5, <2>1, QuietStep DEF Sent
<1>8. CASE TcpFail(n, a)
  <2>1. UNCHANGED <<store, peers, inbox, cli, age>>
        /\ (SetStage(n, a, "udpsent") \/ SetStage(n, a, "failed"))
        /\ \A f \in wire' : f \in wire \/ f = DeliverFrame(n, a)
    BY <1>8 DEF TcpFail
  <2>2. FramesCurrent'
    BY <1>1, <1>2, <2>1 DEF FramesCurrent, Started, DeliverFrame
  <2> QED BY <1>1, <1>3, <1>4, <2>1, <2>2, QuietStep DEF Sent
<1>9. ASSUME Finish(n, a)
      PROVE  AttemptsCurrent' /\ UNCHANGED <<peers, wire, inbox, cli, age>>
  <2>1. UNCHANGED <<peers, wire, inbox, cli, age>>
    BY <1>9 DEF Finish
  <2>2. \A q \in Node : tasks'[q] \subseteq tasks[q]
    BY <1>1, <1>9 DEF Finish, TypeOK
  <2> QED BY <1>1, <2>1, <2>2 DEF AttemptsCurrent, Started
<1>10. CASE AttemptSucceeds(n, a)
  <2>1. Finish(n, a) /\ store' = [store EXCEPT ![n] = MarkDelivered(store[n], a.id)]
    BY <1>10 DEF AttemptSucceeds
  <2>2. \A q \in Node : Remembers(q, store'[q])
    BY <1>2, <2>1, MarkRemembers, OneTable
  <2> QED BY <1>4, <1>5, <1>9, <2>1, <2>2, QuietStep DEF Sent
<1>11. CASE AttemptFails(n, a)
  <2>1. Finish(n, a) /\ store' = [store EXCEPT ![n] = MarkUndelivered(store[n], a.id)]
    BY <1>11 DEF AttemptFails
  <2>2. \A q \in Node : Remembers(q, store'[q])
    BY <1>2, <2>1, MarkRemembers, OneTable
  <2> QED BY <1>4, <1>5, <1>9, <2>1, <2>2, QuietStep DEF Sent
<1> QED BY <1>6, <1>7, <1>8, <1>10, <1>11

LEMMA WireStepMailbox == Remembered /\ WireStep => InboxRemembered' /\ MailboxStep
<1> SUFFICES ASSUME Remembered, NEW f \in wire, ReceiveFrame(f) \/ LoseFrame(f)
             PROVE  InboxRemembered' /\ MailboxStep
  BY DEF WireStep
<1>1. /\ TypeOK /\ NoSelfAddress /\ FramesCurrent /\ AttemptsCurrent
      /\ \A q \in Node : Remembers(q, store[q])
  BY RemembersItself DEF Remembered, InboxRemembered
<1>2. /\ f.id \in Id /\ f.payload \in Payload /\ f.hop \in 0..HopLimit /\ RelayHop(f) \in 0..HopLimit
      /\ Started(f.id) /\ age[f.id] # "ancient"
  <2>1. f \in Frame
    BY DEF Remembered, TypeOK
  <2>2. f.id \in Id /\ f.payload \in Payload /\ f.hop \in 0..(HopLimit - 1)
    BY <2>1 DEF Frame
  <2>3. f.hop \in 0..HopLimit /\ RelayHop(f) \in 0..HopLimit
    BY <2>2, StoreAssumption DEF RelayHop
  <2> QED BY <1>1, <2>2, <2>3 DEF FramesCurrent
<1>3. ASSUME UNCHANGED <<peers, tasks, cli, age>>
      PROVE  NoSelfAddress' /\ AttemptsCurrent' /\ Sent' = Sent
  BY <1>1, <1>3 DEF NoSelfAddress, AttemptsCurrent, Started, Sent
<1>4. ASSUME NEW g \in wire', g \in wire, UNCHANGED <<cli, age>>
      PROVE  Started(g.id)' /\ age'[g.id] # "ancient"
  BY <1>1, <1>4 DEF FramesCurrent, Started
<1>5. CASE LoseFrame(f)
  <2>1. UNCHANGED <<store, peers, tasks, inbox, cli, age>> /\ wire' \subseteq wire
    BY <1>5 DEF LoseFrame
  <2>2. FramesCurrent'
    BY <1>4, <2>1 DEF FramesCurrent
  <2> QED BY <1>1, <1>3, <2>1, <2>2, QuietStep
<1>6. CASE ReceiveFrame(f)
  <2>0. PICK n \in Listeners(f.net, f.to) :
           \/ /\ f.type = "relay" /\ Dest(f.id) # n
              /\ Relay(n, f)
           \/ /\ f.type = "deliver" \/ Dest(f.id) = n
              /\ wire' \in Consumed(f)
              /\ Deliver(n, f.id, f.hop, f.payload)
    BY <1>6 DEF ReceiveFrame
  <2>1. n \in Node /\ UNCHANGED <<peers, tasks, cli, age>>
    BY <1>6, <2>0 DEF ReceiveFrame, Listeners
  <2>2. CASE wire' \in Consumed(f) /\ Deliver(n, f.id, f.hop, f.payload)
    <3>1. wire' \subseteq wire
      BY <2>2 DEF Consumed
    <3>2. FramesCurrent'
      BY <1>4, <2>1, <3>1 DEF FramesCurrent
    <3> QED BY <1>2, <1>3, <2>1, <2>2, <3>2, DeliverStep
  <2>3. CASE Dest(f.id) # n /\ Relay(n, f)
    <3> DEFINE t == UpsertMessage(store[n], f.id, "undelivered", RelayHop(f), f.payload)
    <3>1. store' = [store EXCEPT ![n] = t] /\ UNCHANGED inbox
      BY <2>3 DEF Relay
    <3>2. store[n] \in Table /\ "undelivered" \in Status \ {"absent"}
      BY <1>1, <2>1 DEF TypeOK, Status
    <3>3. \A id \in Id : id # f.id => t[id] = store[n][id]
      BY <1>2, <3>2, UpsertRow
    <3>4. Remembers(n, store[n])
      BY <1>1, <2>1
    <3>5. Remembers(n, t)
      BY <1>2, <2>3, <3>3, <3>4 DEF Remembers, Has
    <3>6. \A q \in Node : Remembers(q, store'[q])
      BY <2>1, <3>1, <3>5, OneTable
    <3>7. \A g \in wire' : g \in wire \/ (g.id \in Live /\ Has(t, g.id))
      <4>1. PICK rest \in Consumed(f) :
              \/ wire' = rest
              \/ \E out \in ForwardMessages(n, t, SpreadPeers(n, f.src)) : wire' = rest \cup out
        BY <2>3 DEF Relay
      <4>2. rest \subseteq wire
        BY DEF Consumed
      <4>3. \A out \in ForwardMessages(n, t, SpreadPeers(n, f.src)) :
              \A g \in out : g.id \in Live /\ Has(t, g.id)
        BY ForwardCopies
      <4> QED BY <4>1, <4>2, <4>3
    <3>8. FramesCurrent'
      BY <1>1, <2>1, <3>5, <3>7 DEF FramesCurrent, Remembers, Started, Live
    <3> QED BY <1>3, <2>1, <3>1, <3>6, <3>8, QuietStep
  <2> QED BY <2>0, <2>2, <2>3
<1> QED BY <1>5, <1>6

LEMMA TimerStepMailbox ==
    ASSUME Remembered, NEW n \in Node, TimerStep(n)
    PROVE  InboxRemembered' /\ MailboxStep
<1>1. /\ TypeOK /\ NoSelfAddress /\ FramesCurrent /\ AttemptsCurrent /\ store[n] \in Table
      /\ \A q \in Node : Remembers(q, store[q])
  BY RemembersItself DEF Remembered, InboxRemembered, TypeOK
<1>2. ResetInTransit(store[n]) \in Table /\ Remembers(n, ResetInTransit(store[n]))
      /\ Remembers(n, Clean(n))
  BY <1>1, RewriteType, RewriteRemembers
<1>3. \A t \in Table : GetAllPending(t, Live) \in SUBSET Live
                       /\ \A id \in GetAllPending(t, Live) : Has(t, id)
  BY PendingFacts
<1>4. ASSUME UNCHANGED <<inbox, cli, age>>
      PROVE  /\ Sent' = Sent
             /\ UNCHANGED peers => NoSelfAddress'
             /\ UNCHANGED wire => FramesCurrent'
             /\ UNCHANGED tasks => AttemptsCurrent'
  BY <1>1, <1>4 DEF Sent, NoSelfAddress, FramesCurrent, AttemptsCurrent, Started
<1>5. CASE RetrySweep(n)
  <2>1. /\ UNCHANGED <<peers, wire, inbox, cli, age>>
        /\ StartAttempts(n, store[n], Reachable(n, GetAllPending(store[n], Live)))
    BY <1>5 DEF RetrySweep
  <2>2. (\A q \in Node : Remembers(q, store'[q])) /\ AttemptsCurrent'
    BY <1>1, <1>3, <2>1, AttemptRemembers
  <2> QED BY <1>4, <2>1, <2>2, QuietStep
<1>6. CASE StartupSweep(n)
  <2> DEFINE t == ResetInTransit(store[n])
  <2>1. /\ UNCHANGED <<peers, wire, inbox, cli, age>>
        /\ StartAttempts(n, t, Reachable(n, GetAllPending(t, Live)))
    BY <1>6 DEF StartupSweep
  <2>2. (\A q \in Node : Remembers(q, store'[q])) /\ AttemptsCurrent'
    BY <1>2, <1>3, <2>1, AttemptRemembers
  <2> QED BY <1>4, <2>1, <2>2, QuietStep
<1>7. CASE EpidemicSweep(n)
  <2>1. UNCHANGED <<store, peers, tasks, inbox, cli, age>>
    BY <1>7 DEF EpidemicSweep
  <2>2. PICK out \in ForwardMessages(n, store[n], ActivePeers(n)) : wire' = wire \cup out
    BY <1>7 DEF EpidemicSweep
  <2>3. \A f \in out : f.id \in Live /\ Has(store[n], f.id)
    BY ForwardCopies
  <2>4. FramesCurrent'
    BY <1>1, <2>1, <2>2, <2>3 DEF FramesCurrent, Remembers, Started, Live
  <2> QED BY <1>1, <1>4, <2>1, <2>4, QuietStep
<1>8. CASE HourlyCleanup(n)
  <2>1. /\ UNCHANGED <<tasks, wire, inbox, cli, age>>
        /\ store' = [store EXCEPT ![n] = Clean(n)]
    BY <1>8 DEF HourlyCleanup
  <2>2. NoSelfAddress'
    BY <1>1, <1>8, DataPlaneAssumption DEF HourlyCleanup, NoSelfAddress, TypeOK
  <2>3. \A q \in Node : Remembers(q, store'[q])
    BY <1>2, <2>1, OneTable
  <2> QED BY <1>4, <2>1, <2>2, <2>3, QuietStep
<1>9. CASE WatcherTick(n)
  <2>1. UNCHANGED <<store, tasks, wire, inbox, cli, age>>
    BY <1>9 DEF WatcherTick
  <2>2. NoSelfAddress'
    BY <1>1, <1>9, DataPlaneAssumption DEF WatcherTick, ClearAllPeerIPs, NoSelfAddress, TypeOK
  <2> QED BY <1>1, <1>4, <2>1, <2>2, QuietStep
<1>10. CASE Sync(n)
  <2> DEFINE t == ResetInTransit(store[n])
  <2>1. UNCHANGED <<peers, inbox, cli, age>> /\ AttemptAndForward(n, t, GetAllPending(t, Live))
    BY <1>10 DEF Sync
  <2>2. (\A q \in Node : Remembers(q, store'[q])) /\ AttemptsCurrent' /\ FramesCurrent'
    BY <1>2, <1>3, <2>1, AttemptAndForwardRemembers
  <2> QED BY <1>4, <2>1, <2>2, QuietStep
<1> QED BY <1>5, <1>6, <1>7, <1>8, <1>9, <1>10 DEF TimerStep

LEMMA PeerStepMailbox ==
    ASSUME Remembered, NEW n \in Node, PeerStep(n)
    PROVE  InboxRemembered' /\ MailboxStep
<1> PICK p \in Node : Hear(n, p) \/ Silence(n, p) \/ KeyResponse(n, p)
  BY DEF PeerStep
<1>1. /\ TypeOK /\ NoSelfAddress /\ FramesCurrent /\ AttemptsCurrent
      /\ \A q \in Node : Remembers(q, store[q])
  BY RemembersItself DEF Remembered, InboxRemembered
<1>2. ASSUME UNCHANGED <<tasks, wire, cli, age>>
      PROVE  Sent' = Sent /\ FramesCurrent' /\ AttemptsCurrent'
  BY <1>1, <1>2 DEF Sent, FramesCurrent, AttemptsCurrent, Started
<1>3. CASE Hear(n, p)
  <2>1. UNCHANGED <<store, tasks, wire, inbox, cli, age>>
    BY <1>3 DEF Hear
  <2>2. NoSelfAddress'
    BY <1>1, <1>3 DEF Hear, Audible, NoSelfAddress, TypeOK
  <2> QED BY <1>1, <1>2, <2>1, <2>2, QuietStep
<1>4. CASE Silence(n, p)
  <2>1. UNCHANGED <<store, tasks, wire, inbox, cli, age>>
    BY <1>4 DEF Silence
  <2>2. NoSelfAddress'
    BY <1>1, <1>4, DataPlaneAssumption DEF Silence, NoSelfAddress, TypeOK
  <2> QED BY <1>1, <1>2, <2>1, <2>2, QuietStep
<1>5. CASE KeyResponse(n, p)
  <2> DEFINE t == BulkEncryptPending(store[n], GetPendingEncryptionMessages(store[n], Live, p))
  <2>1. /\ UNCHANGED <<inbox, cli, age>>
        /\ AttemptAndForward(n, t, GetMessagesForDestination(t, Live, p))
    BY <1>5 DEF KeyResponse, EncryptPending
  <2>2. t \in Table /\ Remembers(n, t)
    BY <1>1, RewriteType, RewriteRemembers DEF TypeOK
  <2>3. GetMessagesForDestination(t, Live, p) \in SUBSET Live
        /\ \A id \in GetMessagesForDestination(t, Live, p) : Has(t, id)
    BY <2>2, PendingFacts
  <2>4. (\A q \in Node : Remembers(q, store'[q])) /\ AttemptsCurrent' /\ FramesCurrent'
    BY <2>1, <2>2, <2>3, AttemptAndForwardRemembers
  <2>5. NoSelfAddress'
    BY <1>1, <1>5, DataPlaneAssumption DEF KeyResponse, NoSelfAddress, TypeOK
  <2> QED BY <2>1, <2>4, <2>5, QuietStep DEF Sent
<1> QED BY <1>3, <1>4, <1>5

LEMMA MachineStepMailbox ==
    ASSUME Remembered, NEW n \in Node, MachineStep(n)
    PROVE  InboxRemembered' /\ MailboxStep
<1>1. /\ TypeOK /\ NoSelfAddress /\ FramesCurrent /\ AttemptsCurrent
      /\ \A q \in Node : Remembers(q, store[q])
  BY RemembersItself DEF Remembered, InboxRemembered
<1>2. ASSUME UNCHANGED <<wire, cli, age>>
      PROVE  /\ Sent' = Sent /\ FramesCurrent'
             /\ (\A q \in Node : tasks'[q] \subseteq tasks[q]) => AttemptsCurrent'
             /\ UNCHANGED peers => NoSelfAddress'
  BY <1>1, <1>2 DEF Sent, FramesCurrent, AttemptsCurrent, NoSelfAddress, Started
<1>3. CASE Crash(n)
  <2>1. UNCHANGED <<store, peers, wire, inbox, cli, age>>
    BY <1>3 DEF Crash
  <2>2. \A q \in Node : tasks'[q] \subseteq tasks[q]
    BY <1>1, <1>3 DEF Crash, TypeOK
  <2> QED BY <1>1, <1>2, <2>1, <2>2, QuietStep
<1>4. CASE Restart(n)
  <2>1. UNCHANGED <<tasks, wire, inbox, cli, age>> /\ store' = [store EXCEPT ![n] = Clean(n)]
    BY <1>4 DEF Restart
  <2>2. Remembers(n, Clean(n))
    BY RewriteRemembers
  <2>3. NoSelfAddress'
    BY <1>1, <1>4, DataPlaneAssumption DEF Restart, ClearAllPeerIPs, NoSelfAddress, TypeOK
  <2>4. \A q \in Node : Remembers(q, store'[q])
    BY <2>1, <2>2, OneTable
  <2> QED BY <1>2, <2>1, <2>3, <2>4, QuietStep
<1>5. CASE \E to \in Place : Move(n, to)
  <2>1. UNCHANGED <<store, peers, tasks, wire, inbox, cli, age>>
    BY <1>5 DEF Move
  <2> QED BY <1>1, <1>2, <2>1, QuietStep
<1> QED BY <1>3, <1>4, <1>5 DEF MachineStep

LEMMA TimeStepMailbox == Remembered /\ TimeStep => InboxRemembered' /\ MailboxStep
<1> SUFFICES ASSUME Remembered, NEW id \in Id, Expire(id) \/ GrowAncient(id)
             PROVE  InboxRemembered' /\ MailboxStep
  BY DEF TimeStep
<1>1. /\ UNCHANGED <<store, peers, tasks, wire, inbox, cli>>
      /\ \A other \in Id : other # id => age'[other] = age[other]
  BY DEF Expire, GrowAncient, Remembered, TypeOK
<1>2. /\ NoSelfAddress /\ RowsStarted /\ FramesCurrent /\ AttemptsCurrent
      /\ UnsentUntouched /\ ArrivalsMarked
  BY DEF Remembered, InboxRemembered
<1>3. MailboxStep
  BY <1>1 DEF MailboxStep, Sent
<1>4. NoSelfAddress' /\ RowsStarted'
  BY <1>1, <1>2 DEF NoSelfAddress, RowsStarted, Started
<1>5. Started(id)
  BY <1>2, IdFacts DEF Expire, GrowAncient, Started, UnsentUntouched
<1>6. UnsentUntouched'
  BY <1>1, <1>2, <1>5, IdFacts DEF UnsentUntouched, Started
<1>7. /\ \A f \in wire : f.id = id => age'[id] # "ancient"
      /\ \A n \in Node : \A a \in tasks[n] : a.id = id => age'[id] # "ancient"
      /\ age[id] # "ancient"
  BY DEF Expire, GrowAncient, Remembered, TypeOK
<1>8. FramesCurrent'
  <2>1. \A f \in wire : f.id \in Id
    BY DEF Remembered, TypeOK, Frame
  <2> QED BY <1>1, <1>2, <1>7, <2>1 DEF FramesCurrent, Started
<1>9. AttemptsCurrent'
  <2>1. \A n \in Node : tasks[n] \subseteq Task
    BY DEF Remembered, TypeOK
  <2>2. \A a \in Task : a.id \in Id
    BY DEF Task
  <2> QED BY <1>1, <1>2, <1>7, <2>1, <2>2 DEF AttemptsCurrent, Started
<1>10. ArrivalsMarked'
  BY <1>1, <1>2, <1>7, IdFacts DEF ArrivalsMarked
<1> QED BY <1>3, <1>4, <1>6, <1>8, <1>9, <1>10 DEF InboxRemembered

-----------------------------------------------------------------------------
LEMMA MailboxInitially == Init => InboxRemembered /\ Promise!MailboxInit
<1> SUFFICES ASSUME Init PROVE InboxRemembered /\ Promise!MailboxInit
  OBVIOUS
<1>1. NoSelfAddress
  BY DataPlaneAssumption DEF Init, NoSelfAddress
<1>2. RowsStarted
  BY DEF Init, RowsStarted, EmptyTable, NoRow, Has
<1>3. FramesCurrent /\ AttemptsCurrent
  BY DEF Init, FramesCurrent, AttemptsCurrent
<1>4. UnsentUntouched /\ ArrivalsMarked
  BY IdFacts DEF Init, UnsentUntouched, ArrivalsMarked
<1>5. Promise!MailboxInit
  BY DEF Init, Promise!MailboxInit, Sent
<1> QED BY <1>1, <1>2, <1>3, <1>4, <1>5 DEF InboxRemembered

LEMMA MailboxNextStep == Remembered /\ [Next]_vars => Remembered' /\ MailboxStep
<1> SUFFICES ASSUME Remembered, [Next]_vars PROVE Remembered' /\ MailboxStep
  OBVIOUS
<1>1. TypeOK'
  BY TypeStep DEF Remembered
<1>2. CASE UNCHANGED vars
  <2>1. UNCHANGED <<store, peers, tasks, wire, inbox, cli, age>>
    BY <1>2 DEF vars
  <2>2. Sent' = Sent /\ NoSelfAddress' /\ FramesCurrent' /\ AttemptsCurrent'
    BY <2>1 DEF Remembered, InboxRemembered, Sent, NoSelfAddress, FramesCurrent, AttemptsCurrent,
                Started
  <2> QED BY <1>1, <2>1, <2>2, RemembersItself, QuietStep DEF Remembered
<1>3. CASE UserStep \/ WireStep \/ TimeStep
  BY <1>1, <1>3, UserStepMailbox, WireStepMailbox, TimeStepMailbox DEF Remembered
<1>4. CASE \E n \in Node : AttemptStep(n) \/ TimerStep(n) \/ PeerStep(n) \/ MachineStep(n)
  <2>1. InboxRemembered' /\ MailboxStep
    BY <1>4, AttemptStepMailbox, TimerStepMailbox, PeerStepMailbox, MachineStepMailbox
  <2> QED BY <1>1, <2>1 DEF Remembered
<1> QED BY <1>2, <1>3, <1>4 DEF Next

(* The recipient's table remembers what is in the inbox while a copy of it  *)
(* is left anywhere, through retries, crashes and cleanups.                 *)
THEOREM RememberedAlways == Spec => []InboxRemembered
<1>1. Init => Remembered
  BY TypeInit, MailboxInitially DEF Remembered
<1>2. Remembered /\ [Next]_vars => Remembered'
  BY MailboxNextStep
<1>3. Remembered => InboxRemembered
  BY DEF Remembered
<1> QED BY <1>1, <1>2, <1>3, PTL DEF Spec

(* handleIncomingMessage writes a message to inbox.log at most once.        *)
THEOREM NeverTwice == Spec => []AtMostOnce
<1>1. InboxRemembered => AtMostOnce
  BY DEF InboxRemembered, ArrivalsMarked, AtMostOnce
<1> QED BY <1>1, RememberedAlways, PTL

(* Every step of the daemons is a step of the mailbox or changes nothing    *)
(* the mailbox knows of: what was never sent never arrives, and what        *)
(* arrived stays, once.                                                     *)
THEOREM ImplementsMailbox == Spec => MailboxKept
<1>1. Init => Remembered /\ Promise!MailboxInit
  BY TypeInit, MailboxInitially DEF Remembered
<1>2. Remembered /\ [Next]_vars => Remembered' /\ [Promise!MailboxNext]_<<Sent, inbox>>
  BY MailboxNextStep DEF MailboxStep
<1> QED BY <1>1, <1>2, PTL DEF Spec, MailboxKept, Promise!MailboxSpec
=============================================================================
