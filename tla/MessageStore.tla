----------------------------- MODULE MessageStore -----------------------------
(***************************************************************************)
(* The `messages` table of one daemon and the queries of db/messages.js    *)
(* and db/cleanup.js on it.  A table is a function from message ids to     *)
(* rows; every query is an operator on a table, so the modules that run    *)
(* several daemons keep one table per node.                                *)
(*                                                                         *)
(* Sender and destination never change while copies of a message travel,   *)
(* so they belong to the id, not to the row.  The payload is reduced to    *)
(* what the code tests: "plain" is the JSON object that carries            *)
(* __pending_encryption and the plaintext, "sealed" is a blob encrypted    *)
(* with the destination's public key.                                      *)
(***************************************************************************)
EXTENDS Naturals

CONSTANTS
    Node,       \* identities
    Msg,        \* messages users send
    Origin,     \* [Msg -> Node], the user's own daemon
    Target,     \* [Msg -> Node], the recipient
    HopLimit    \* 20 in the code: the SELECTs ask for hop_count < 20

ASSUME StoreAssumption ==
    /\ Origin \in [Msg -> Node]
    /\ Target \in [Msg -> Node]
    /\ HopLimit \in Nat \ {0}

(* Message ids: a user's message, or the acknowledgement of one. *)
Id == [of : Msg, kind : {"msg", "ack"}]

User(m) == [of |-> m, kind |-> "msg"]
Ack(m)  == [of |-> m, kind |-> "ack"]

From(id) == IF id.kind = "msg" THEN Origin[id.of] ELSE Target[id.of]
Dest(id) == IF id.kind = "msg" THEN Target[id.of] ELSE Origin[id.of]

Status  == {"absent", "__pending_encryption", "undelivered", "intransit", "delivered"}
Payload == {"none", "plain", "sealed"}
Row     == [status : Status, hop : 0..HopLimit, payload : Payload]
Table   == [Id -> Row]

(* The value of a table at an id that has no row. *)
NoRow      == [status |-> "absent", hop |-> 0, payload |-> "none"]
EmptyTable == [id \in Id |-> NoRow]

Has(t, id) == t[id].status # "absent"

-----------------------------------------------------------------------------
(* SELECTs.  `live` is the set of ids whose ttl has not passed. *)

(* Changed: hop_count <= 20. *)
GetAllPendingAtLimit(t, live) ==
    {id \in live : t[id].status \in {"undelivered", "intransit"} /\ t[id].hop <= HopLimit}

(* Changed: every status but 'delivered'. *)
GetAllUndelivered(t, live) ==
    {id \in live : Has(t, id) /\ t[id].status # "delivered" /\ t[id].hop < HopLimit}

GetAllPending(t, live) ==
    {id \in live : t[id].status \in {"undelivered", "intransit"} /\ t[id].hop < HopLimit}

GetMessagesForDestination(t, live, dest) ==
    {id \in GetAllPending(t, live) : Dest(id) = dest}

GetPendingEncryptionMessages(t, live, dest) ==
    {id \in live : t[id].status = "__pending_encryption" /\ Dest(id) = dest}

-----------------------------------------------------------------------------
(* UPDATEs and INSERTs.  An UPDATE of an id without a row changes nothing. *)

InsertMessage(t, id, status, hop, payload) ==
    [t EXCEPT ![id] = [status |-> status, hop |-> hop, payload |-> payload]]

(* Keeps the row it has, with the shorter of the two routes. *)
UpsertMessage(t, id, status, hop, payload) ==
    IF ~Has(t, id) THEN InsertMessage(t, id, status, hop, payload)
    ELSE IF hop < t[id].hop THEN [t EXCEPT ![id].hop = hop]
    ELSE t

SetStatus(t, id, status) ==
    IF Has(t, id) THEN [t EXCEPT ![id].status = status] ELSE t

(* Changed: only an 'undelivered' row becomes delivered. *)
MarkDeliveredIfQueued(t, id) ==
    IF t[id].status = "undelivered" THEN SetStatus(t, id, "delivered") ELSE t

MarkDelivered(t, id)   == SetStatus(t, id, "delivered")
MarkUndelivered(t, id) == SetStatus(t, id, "undelivered")

(* Changed: the row is settled before the answer came. *)
MarkInTransitAsDelivered(t, ids) ==
    [id \in Id |-> IF id \in ids THEN [t[id] EXCEPT !.status = "delivered", !.payload = "sealed"]
                                 ELSE t[id]]

(* markInTransit for every attempt that starts; attemptDelivery has stored   *)
(* the sealed payload (updateMessagePayload) before.                         *)
MarkInTransit(t, ids) ==
    [id \in Id |-> IF id \in ids THEN [t[id] EXCEPT !.status = "intransit", !.payload = "sealed"]
                                 ELSE t[id]]

BulkEncryptPending(t, ids) ==
    [id \in Id |-> IF id \in ids THEN [t[id] EXCEPT !.status = "undelivered", !.payload = "sealed"]
                                 ELSE t[id]]

(* Changed: the sweep starts without its first statement. *)
ResetInTransitNever(t) == t

(* Changed: the UPDATE has no status in its WHERE. *)
ResetUnconfirmed(t) ==
    [id \in Id |-> IF Has(t, id) /\ t[id].status # "delivered"
                   THEN [t[id] EXCEPT !.status = "undelivered"] ELSE t[id]]

(* The first statement of startupDeliverySweep. *)
ResetInTransit(t) ==
    [id \in Id |-> IF t[id].status = "intransit" THEN [t[id] EXCEPT !.status = "undelivered"]
                                                 ELSE t[id]]

(* Changed: delivered rows go with their ttl, too. *)
CleanExpiredAll(t, dead, old) == [id \in Id |-> IF id \in dead THEN NoRow ELSE t[id]]

(* Changed: the ttl is not looked at. *)
CleanUndelivered(t, dead, old) ==
    [id \in Id |-> IF \/ t[id].status # "delivered"
                      \/ id \in old /\ t[id].status = "delivered"
                   THEN NoRow ELSE t[id]]

(* cleanExpired: `dead` ids are past their ttl, rows of `old` ids were       *)
(* inserted more than thirty days ago.                                       *)
CleanExpired(t, dead, old) ==
    [id \in Id |-> IF \/ id \in dead /\ t[id].status # "delivered"
                      \/ id \in old /\ t[id].status = "delivered"
                   THEN NoRow ELSE t[id]]
=============================================================================
