----------------------------- MODULE KeyDiscovery -----------------------------
(***************************************************************************)
(* The control plane of daemon/keyDiscovery.js and its callbacks in        *)
(* daemon/index.js: a daemon that lacks a recipient's public key floods a  *)
(* key_req, whoever has the key sends a key_res back to where the request  *)
(* came from, and a key_res for somebody else is flooded on.               *)
(*                                                                         *)
(* A frame whose TCP transfer fails is sent again by UDP, and              *)
(* sendDirectMessage knows two types only: it turns a key_req or key_res   *)
(* into a relay frame, which is a message to the receiver.  No handler     *)
(* makes a control packet of it again, so it leaves this module there.     *)
(*                                                                         *)
(* Machines keep their addresses here, so an address is its node.  What    *)
(* becomes of a message once it is encrypted is DataPlane's matter.        *)
(***************************************************************************)
EXTENDS Naturals, FiniteSets

CONSTANTS
    Node,         \* identities
    MaxKeyHops,   \* MAX_KEY_HOPS, 15 in the code
    Scenario      \* the networks to start in

NoKey == "no key"   \* no row in the peers table

Setting == [met   : SUBSET (Node \X Node),      \* <<n, p>>: n's table has a row for p
            near  : SUBSET (Node \X Node),      \* ... with an address
            walls : SUBSET (Node \X Node),      \* links that refuse TCP
            lossy : BOOLEAN,                    \* may transfers fail or come too late?
            sends : SUBSET (Node \X Node \X Nat),  \* messages users are going to send
            meets : SUBSET (Node \X Node)]      \* announcements that may be heard

ASSUME KeyAssumption ==
    /\ NoKey \notin Node
    /\ MaxKeyHops \in Nat \ {0}
    /\ Scenario \subseteq Setting
    /\ \A s \in Scenario :
          /\ s.near \subseteq s.met
          /\ \A n \in Node : <<n, n>> \notin s.met \cup s.meets
          /\ \A send \in s.sends : send[1] # send[2]

VARIABLES
    net,       \* the scenario; never changes
    keys,      \* [Node -> [Node -> Node or NoKey]], whose key the row for a peer holds
    near,      \* [Node -> SUBSET Node], rows with an address
    pending,   \* [Node -> SUBSET Node], recipients of __pending_encryption messages
    sealed,    \* [Node -> SUBSET (Node \X Node)], recipient and key of encrypted messages
    asked,     \* [Node -> SUBSET Node], identities a key_req was flooded for
    wire,      \* set of Frame
    todo       \* what users have not sent yet

vars == <<net, keys, near, pending, sealed, asked, wire, todo>>

(* What stays the same while a packet travels.  Packets of the same content *)
(* are one: nothing in the control plane compares their ids.                *)
Packet == [kind : {"key_req", "key_res"}, requester : Node, target : Node,
           key : Node \cup {NoKey}]

Frame == [src : Node, to : Node, packet : Packet, hop : 0..MaxKeyHops]

BuildKeyReq(n, target) ==
    [kind |-> "key_req", requester |-> n, target |-> target, key |-> NoKey]

BuildKeyRes(requester, target, key) ==
    [kind |-> "key_res", requester |-> requester, target |-> target, key |-> key]

HasKey(n, p) == keys[n][p] # NoKey

(* getActivePeers().filter(p => p.ip) *)
ActivePeers(n) == near[n]

(* Changed: nothing is held back from whom it came from. *)
AllPeers(n, src) == ActivePeers(n)

OtherPeers(n, src) == ActivePeers(n) \ {src}

Frames(n, targets, packet, hop) ==
    {[src |-> n, to |-> q, packet |-> packet, hop |-> hop] : q \in targets}

-----------------------------------------------------------------------------
(* `ib send`: with the key in the peers table the message is encrypted at   *)
(* once.  Without it the plaintext is stored and floodKeyRequest asks the   *)
(* active peers; if there are none it gives up.                             *)
Send(send) ==
    LET n == send[1]
        p == send[2] IN
    /\ todo' = todo \ {send}
    /\ IF HasKey(n, p)
       THEN /\ sealed' = [sealed EXCEPT ![n] = @ \cup {<<p, keys[n][p]>>}]
            /\ UNCHANGED <<pending, asked, wire>>
       ELSE /\ UNCHANGED sealed
            /\ pending' = [pending EXCEPT ![n] = @ \cup {p}]
            /\ asked' = [asked EXCEPT ![n] = IF ActivePeers(n) = {} THEN @ ELSE @ \cup {p}]
            /\ wire' = wire \cup Frames(n, ActivePeers(n), BuildKeyReq(n, p), 0)
    /\ UNCHANGED <<net, keys, near>>

(* onPeer, as far as it gets: key and address are stored, nothing that      *)
(* waits for the key is touched (index.js throws at line 353).              *)
Meet(n, p) ==
    /\ <<n, p>> \in net.meets /\ p \notin near[n]
    /\ keys' = [keys EXCEPT ![n][p] = p]
    /\ near' = [near EXCEPT ![n] = @ \cup {p}]
    /\ UNCHANGED <<net, pending, sealed, asked, wire, todo>>

-----------------------------------------------------------------------------
(* Frames.  TCP carries a frame to its receiver once or not at all.         *)

Without(f) == wire \ {f}

(* Changed: a control frame gets through by UDP as well. *)
GetsThrough(f) == TRUE

(* TCP can carry f, and so it arrives as what it is. *)
Connects(f) == <<f.src, f.to>> \notin net.walls

(* Changed: the hop is not counted. *)
HopUncounted(f) == f.hop

NextHop(f) == f.hop + 1

(* Changed: the last hop is dropped, too. *)
BelowLimit(f) == NextHop(f) < MaxKeyHops

(* Changed: no limit. *)
NoLimit(f) == TRUE

WithinLimit(f) == NextHop(f) <= MaxKeyHops

(* Changed: whoever answers sends its own key. *)
OwnKey(n, target) == n

(* myPublicKey for the target itself, knownKey for another. *)
KeyToGive(n, target) == IF n = target THEN n ELSE keys[n][target]

(* handleKeyRequest within hop limit and ttl: answer, or ask the others.    *)
Reaction(n, f) ==
    IF f.packet.target = n \/ HasKey(n, f.packet.target)
    THEN Frames(n, {f.src}, BuildKeyRes(f.packet.requester, f.packet.target,
                                        KeyToGive(n, f.packet.target)), 0)
    ELSE Frames(n, OtherPeers(n, f.src), f.packet, NextHop(f))

HandleKeyRequest(f) ==
    /\ f.packet.kind = "key_req" /\ Connects(f)
    /\ wire' = Without(f) \cup IF WithinLimit(f) THEN Reaction(f.to, f) ELSE {}
    /\ UNCHANGED <<net, keys, near, pending, sealed, asked, todo>>

(* Changed: the messages wait for the next announcement. *)
EncryptsLater(n, p) == {}

(* getPendingEncryptionMessages *)
Encryptable(n, p) == pending[n] \cap {p}

(* A key_res for this daemon: upsertPeer(target, key, null) stores the key  *)
(* and keeps the address there may be; what waits for the key is encrypted. *)
HandleKeyResponse(f) ==
    LET n == f.to
        p == f.packet.target IN
    /\ f.packet.kind = "key_res" /\ Connects(f)
    /\ f.packet.requester = n
    /\ keys' = [keys EXCEPT ![n][p] = f.packet.key]
    /\ sealed' = [sealed EXCEPT ![n] = @ \cup {<<q, f.packet.key>> : q \in Encryptable(n, p)}]
    /\ pending' = [pending EXCEPT ![n] = @ \ Encryptable(n, p)]
    /\ wire' = Without(f)
    /\ UNCHANGED <<net, near, asked, todo>>

(* A key_res for another daemon: on to everybody else, again and again.     *)
(* Neither its ttl nor its hop count is read.                               *)
RelayKeyResponse(f) ==
    /\ f.packet.kind = "key_res" /\ Connects(f)
    /\ f.packet.requester # f.to
    /\ wire' = Without(f) \cup Frames(f.to, OtherPeers(f.to, f.src), f.packet, f.hop)
    /\ UNCHANGED <<net, keys, near, pending, sealed, asked, todo>>

(* TCP fails before the frame is handled, and so the packet goes by UDP; or *)
(* a request comes after its ttl.                                           *)
FallBack(f) ==
    /\ net.lossy \/ ~Connects(f)
    /\ wire' = Without(f)
    /\ UNCHANGED <<net, keys, near, pending, sealed, asked, todo>>

-----------------------------------------------------------------------------
Init ==
    /\ net \in Scenario
    /\ keys = [n \in Node |-> [p \in Node |-> IF <<n, p>> \in net.met THEN p ELSE NoKey]]
    /\ near = [n \in Node |-> {p \in Node : <<n, p>> \in net.near}]
    /\ pending = [n \in Node |-> {}]
    /\ sealed = [n \in Node |-> {}]
    /\ asked = [n \in Node |-> {}]
    /\ wire = {}
    /\ todo = net.sends

Handle(f) == HandleKeyRequest(f) \/ HandleKeyResponse(f) \/ RelayKeyResponse(f) \/ FallBack(f)

Next ==
    \/ \E send \in todo : Send(send)
    \/ \E n, p \in Node : Meet(n, p)
    \/ \E f \in wire : Handle(f)

Spec == Init /\ [][Next]_vars

(* A transfer that is not answered is given up after 8 seconds, and every   *)
(* daemon keeps handling what reaches it, requests and answers alike.       *)
ReceiverStep(q, kind) ==
    \E f \in wire : f.to = q /\ f.packet.kind = kind /\ Handle(f)

FairSpec ==
    Spec /\ \A q \in Node, kind \in {"key_req", "key_res"} : WF_vars(ReceiverStep(q, kind))

-----------------------------------------------------------------------------
TypeOK ==
    /\ net \in Scenario
    /\ keys \in [Node -> [Node -> Node \cup {NoKey}]]
    /\ near \in [Node -> SUBSET Node]
    /\ pending \in [Node -> SUBSET Node]
    /\ sealed \in [Node -> SUBSET (Node \X Node)]
    /\ asked \in [Node -> SUBSET Node]
    /\ wire \subseteq Frame
    /\ todo \subseteq net.sends

(* What was encrypted can be read by its recipient and nobody else: of all  *)
(* the daemons that answer from their tables, pass answers on or wait for   *)
(* the same key themselves, none brings a foreign key under a name.         *)
SealedForRecipient ==
    \A n \in Node : \A message \in sealed[n] : message[1] = message[2]

(* q is a TCP connection away from n, in both directions. *)
Linked(n, q) == {<<n, q>>, <<q, n>>} \subseteq net.near \ net.walls

InReach[n \in Node, k \in 0..MaxKeyHops] ==
    IF k = 0 THEN {n}
    ELSE LET before == InReach[n, k - 1]
         IN before \cup {q \in Node : \E r \in before : Linked(r, q)}

Answerable(n, p) ==
    \E q \in InReach[n, MaxKeyHops] \ {n} : q = p \/ <<q, p>> \in net.met

(* On a network that loses nothing, a message that waits for a key gets it  *)
(* whenever a node within MAX_KEY_HOPS has the key: the floods of requests  *)
(* and answers, which skip whom a frame came from, find each other, and no  *)
(* storm of answers keeps them from it.                                     *)
AnswersArrive ==
    <>[](~net.lossy => \A n, p \in Node : p \in pending[n] => ~Answerable(n, p))

(* Requests stop in every network, also in one full of rings, where the     *)
(* same request comes by again and again: the hop limit is all that stops   *)
(* them (keyDiscovery.js:39, "prevent infinite flooding").                  *)
RequestsDieOut == <>[](\A f \in wire : f.packet.kind # "key_req")

(* Somewhere each of a set of nodes has the address of two others in it. *)
RingWithout(n) ==
    \E ring \in SUBSET (Node \ {n}) :
        ring # {} /\ \A q \in ring : Cardinality(near[q] \cap ring) >= 2

(* Answers stop where there is no ring of acquaintances that leaves the     *)
(* requester out: not to send a frame back to whom it came from is enough   *)
(* for a tree, and a requester in the ring takes the answer off it.         *)
AnswersStayInRings ==
    <>[](\A f \in wire : f.packet.kind = "key_res" => RingWithout(f.packet.requester))

(* README.md:37 wants a limit on everything, "so nothing spreads forever".  *)
(* A key_res has none: three daemons that know each other pass the answer   *)
(* for a fourth around until one of them stops (see KeyStorm.cfg).          *)
AnswersDieOut == <>[](\A f \in wire : f.packet.kind # "key_res")

(* A TCP connection from r to q, if either ever has the other's address. *)
Connectable(r, q) ==
    /\ <<r, q>> \notin net.walls
    /\ {<<r, q>>, <<q, r>>} \cap (net.near \cup net.meets) # {}

(* No request gets out of the group, or no answer gets in. *)
Mute(group) == \A r \in group, q \in Node \ group : ~Connectable(r, q)
Deaf(group) == \A r \in group, q \in Node \ group : ~Connectable(q, r)

(* Somebody in the group is p, has met it or may meet it. *)
Acquainted(group, p) ==
    p \in group \/ \E q \in group : <<q, p>> \in net.met \cup net.meets

(* Where TCP is refused no key is found (UDP makes messages of key_req and  *)
(* key_res): daemons that requests cannot leave, or answers cannot enter,   *)
(* have only the keys of those whom one of them has met, however many ask,  *)
(* answer, and pass on.                                                     *)
KeysComeByTcp ==
    \A group \in SUBSET Node :
        Mute(group) \/ Deaf(group) =>
            \A n \in group, p \in Node : HasKey(n, p) => Acquainted(group, p)

Known == [n \in Node |-> {p \in Node : keys[n][p] = p}]
Service ==
    INSTANCE KeyService WITH known <- Known, around <- net.meets, Forgetful <- FALSE

(* The data plane gets from all this what KeyService says: a key only for   *)
(* what was asked, the right one, and with it, in one step, everything that *)
(* waited is encrypted, also what was sent while the answer was under way   *)
(* or the recipient announced itself in between.                            *)
ServiceKept == Service!ServiceSpec
=============================================================================
