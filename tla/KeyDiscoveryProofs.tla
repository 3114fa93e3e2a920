-------------------------- MODULE KeyDiscoveryProofs --------------------------
(***************************************************************************)
(* For any number of nodes, any network and any hop limit: messages are    *)
(* only encrypted for their recipient, and key discovery implements        *)
(* KeyService.  Both follow from what the packets under way say: they name *)
(* something the requester asked for, and a key_res carries its key.       *)
(***************************************************************************)
EXTENDS KeyDiscovery, TLAPS

(* A row holds the key of the peer it is named after. *)
RightKeys == \A n, p \in Node : keys[n][p] \in {p, NoKey}

PacketRight(packet) ==
    /\ packet.target \in asked[packet.requester]
    /\ packet.kind = "key_res" => packet.key = packet.target

PacketsRight == \A f \in wire : PacketRight(f.packet)

IInv == TypeOK /\ RightKeys /\ PacketsRight /\ SealedForRecipient

-----------------------------------------------------------------------------
(* What net says about sends and meets, from the assumption on Scenario. *)
LEMMA ScenarioFacts ==
    ASSUME net \in Scenario
    PROVE  /\ net.meets \in SUBSET (Node \X Node)
           /\ \A send \in net.sends :
                 send[1] \in Node /\ send[2] \in Node /\ send[1] # send[2]
BY KeyAssumption DEF Setting

(* Frames a daemon sends out: of the right type, and all with one packet. *)
LEMMA FramesType ==
    ASSUME NEW n \in Node, NEW targets \in SUBSET Node, NEW packet \in Packet,
           NEW hop \in 0..MaxKeyHops
    PROVE  /\ Frames(n, targets, packet, hop) \subseteq Frame
           /\ \A f \in Frames(n, targets, packet, hop) : f.packet = packet
BY DEF Frames, Frame

LEMMA RequestType ==
    ASSUME NEW n \in Node, NEW p \in Node
    PROVE  BuildKeyReq(n, p) \in Packet
BY DEF BuildKeyReq, Packet

LEMMA ResponseType ==
    ASSUME NEW n \in Node, NEW p \in Node, NEW key \in Node \cup {NoKey}
    PROVE  BuildKeyRes(n, p, key) \in Packet
BY DEF BuildKeyRes, Packet

LEMMA FrameParts ==
    ASSUME NEW f \in Frame
    PROVE  /\ f.src \in Node /\ f.to \in Node /\ f.packet \in Packet /\ f.hop \in 0..MaxKeyHops
           /\ f.packet.kind \in {"key_req", "key_res"}
           /\ f.packet.requester \in Node /\ f.packet.target \in Node
           /\ f.packet.key \in Node \cup {NoKey}
BY DEF Frame, Packet

-----------------------------------------------------------------------------
LEMMA InitIInv == Init => IInv
<1> SUFFICES ASSUME Init PROVE IInv
  OBVIOUS
<1>1. TypeOK
  BY DEF Init, TypeOK
<1>2. RightKeys
  BY DEF Init, RightKeys
<1>3. PacketsRight /\ SealedForRecipient
  BY DEF Init, PacketsRight, SealedForRecipient
<1> QED
  BY <1>1, <1>2, <1>3 DEF IInv

LEMMA SendIInv ==
    ASSUME IInv, NEW send \in todo, Send(send)
    PROVE  IInv'
<1> DEFINE n == send[1]
           p == send[2]
           flood == Frames(n, ActivePeers(n), BuildKeyReq(n, p), 0)
<1>1. n \in Node /\ p \in Node /\ net \in Scenario
  BY ScenarioFacts DEF IInv, TypeOK
<1>2. BuildKeyReq(n, p) \in Packet /\ ActivePeers(n) \in SUBSET Node /\ 0 \in 0..MaxKeyHops
  BY <1>1, RequestType, KeyAssumption DEF IInv, TypeOK, ActivePeers
<1>3. flood \subseteq Frame /\ \A f \in flood : f.packet = BuildKeyReq(n, p)
  BY <1>1, <1>2, FramesType
<1> HIDE DEF flood
<1>4. CASE HasKey(n, p)
  <2>1. /\ UNCHANGED <<net, keys, near, pending, asked, wire>>
        /\ todo' = todo \ {send}
        /\ sealed' = [sealed EXCEPT ![n] = @ \cup {<<p, keys[n][p]>>}]
    BY <1>4 DEF Send
  <2>2. keys[n][p] = p
    BY <1>1, <1>4 DEF IInv, RightKeys, HasKey
  <2>3. TypeOK'
    BY <1>1, <2>1, <2>2 DEF IInv, TypeOK
  <2>4. SealedForRecipient'
    BY <1>1, <2>1, <2>2 DEF IInv, TypeOK, SealedForRecipient
  <2>5. RightKeys' /\ PacketsRight'
    BY <2>1 DEF IInv, RightKeys, PacketsRight, PacketRight
  <2> QED
    BY <2>3, <2>4, <2>5 DEF IInv
<1>5. CASE ~HasKey(n, p)
  <2>1. /\ UNCHANGED <<net, keys, near, sealed>>
        /\ todo' = todo \ {send}
        /\ pending' = [pending EXCEPT ![n] = @ \cup {p}]
        /\ asked' = [asked EXCEPT ![n] = IF ActivePeers(n) = {} THEN @ ELSE @ \cup {p}]
        /\ wire' = wire \cup flood
    BY <1>5 DEF Send, flood
  <2>2. TypeOK'
    BY <1>1, <1>3, <2>1 DEF IInv, TypeOK
  <2>3. RightKeys' /\ SealedForRecipient'
    BY <2>1 DEF IInv, RightKeys, SealedForRecipient
  <2>4. \A q \in Node : asked[q] \subseteq asked'[q]
    BY <1>1, <2>1 DEF IInv, TypeOK
  <2>5. flood # {} => p \in asked'[n]
    BY <1>1, <2>1 DEF IInv, TypeOK, flood, Frames
  <2>6. \A f \in flood : PacketRight(f.packet)'
    BY <1>3, <2>5 DEF PacketRight, BuildKeyReq
  <2>7. \A f \in wire : PacketRight(f.packet)'
    BY <2>4, FrameParts DEF IInv, TypeOK, PacketsRight, PacketRight
  <2> QED
    BY <2>1, <2>2, <2>3, <2>6, <2>7 DEF IInv, PacketsRight
<1> QED
  BY <1>4, <1>5

LEMMA MeetIInv ==
    ASSUME IInv, NEW n \in Node, NEW p \in Node, Meet(n, p)
    PROVE  IInv'
<1>1. /\ keys' = [keys EXCEPT ![n][p] = p]
      /\ near' = [near EXCEPT ![n] = @ \cup {p}]
      /\ UNCHANGED <<net, pending, sealed, asked, wire, todo>>
  BY DEF Meet
<1>2. TypeOK'
  BY <1>1 DEF IInv, TypeOK
<1>3. RightKeys'
  BY <1>1 DEF IInv, TypeOK, RightKeys
<1>4. PacketsRight' /\ SealedForRecipient'
  BY <1>1 DEF IInv, PacketsRight, PacketRight, SealedForRecipient
<1> QED
  BY <1>2, <1>3, <1>4 DEF IInv

(* Handlers that only touch the wire, with packets that are right. *)
LEMMA WireIInv ==
    ASSUME IInv, NEW sent \in SUBSET Frame, NEW f \in wire,
           UNCHANGED <<net, keys, near, pending, sealed, asked, todo>>,
           wire' = Without(f) \cup sent,
           \A g \in sent : PacketRight(g.packet)
    PROVE  IInv'
<1>1. TypeOK'
  BY DEF IInv, TypeOK, Without
<1>2. RightKeys' /\ SealedForRecipient'
  BY DEF IInv, RightKeys, SealedForRecipient
<1>3. PacketsRight'
  BY DEF IInv, PacketsRight, PacketRight, Without
<1> QED
  BY <1>1, <1>2, <1>3 DEF IInv

LEMMA RequestIInv ==
    ASSUME IInv, NEW f \in wire, HandleKeyRequest(f)
    PROVE  IInv'
<1> DEFINE n == f.to
           sent == IF WithinLimit(f) THEN Reaction(n, f) ELSE {}
           reply == BuildKeyRes(f.packet.requester, f.packet.target,
                                KeyToGive(n, f.packet.target))
<1>1. f \in Frame /\ PacketRight(f.packet)
  BY DEF IInv, TypeOK, PacketsRight
<1>2. /\ n \in Node /\ f.src \in Node /\ f.packet \in Packet /\ f.hop \in 0..MaxKeyHops
      /\ f.packet.requester \in Node /\ f.packet.target \in Node
  BY <1>1, FrameParts
<1>3. /\ UNCHANGED <<net, keys, near, pending, sealed, asked, todo>>
      /\ wire' = Without(f) \cup sent
  BY DEF HandleKeyRequest
<1>4. sent \subseteq Frame /\ \A g \in sent : PacketRight(g.packet)
  <2>1. CASE ~WithinLimit(f)
    BY <2>1
  <2>2. CASE WithinLimit(f) /\ (f.packet.target = n \/ HasKey(n, f.packet.target))
    <3>1. KeyToGive(n, f.packet.target) = f.packet.target
      BY <1>2, <2>2 DEF KeyToGive, HasKey, IInv, RightKeys
    <3>2. reply \in Packet
      BY <1>2, <3>1, ResponseType
    <3>3. PacketRight(reply)
      BY <1>1, <3>1 DEF PacketRight, BuildKeyRes
    <3>4. sent = Frames(n, {f.src}, reply, 0)
      BY <2>2 DEF Reaction
    <3>5. 0 \in 0..MaxKeyHops /\ {f.src} \in SUBSET Node
      BY <1>2, KeyAssumption
    <3> HIDE DEF reply
    <3> QED
      BY <1>2, <3>2, <3>3, <3>4, <3>5, FramesType
  <2>3. CASE WithinLimit(f) /\ ~(f.packet.target = n \/ HasKey(n, f.packet.target))
    <3>1. NextHop(f) \in 0..MaxKeyHops
      BY <1>2, <2>3, KeyAssumption DEF NextHop, WithinLimit
    <3>2. OtherPeers(n, f.src) \in SUBSET Node
      BY <1>2 DEF OtherPeers, ActivePeers, IInv, TypeOK
    <3>3. sent = Frames(n, OtherPeers(n, f.src), f.packet, NextHop(f))
      BY <2>3 DEF Reaction
    <3> QED
      BY <1>1, <1>2, <3>1, <3>2, <3>3, FramesType
  <2> QED
    BY <2>1, <2>2, <2>3
<1> HIDE DEF sent
<1> QED
  BY <1>3, <1>4, WireIInv

LEMMA RelayIInv ==
    ASSUME IInv, NEW f \in wire, RelayKeyResponse(f)
    PROVE  IInv'
<1> DEFINE sent == Frames(f.to, OtherPeers(f.to, f.src), f.packet, f.hop)
<1>1. f \in Frame /\ PacketRight(f.packet)
  BY DEF IInv, TypeOK, PacketsRight
<1>2. f.to \in Node /\ f.packet \in Packet /\ f.hop \in 0..MaxKeyHops
  BY <1>1, FrameParts
<1>3. OtherPeers(f.to, f.src) \in SUBSET Node
  BY <1>2 DEF OtherPeers, ActivePeers, IInv, TypeOK
<1>4. sent \subseteq Frame /\ \A g \in sent : PacketRight(g.packet)
  BY <1>1, <1>2, <1>3, FramesType
<1>5. /\ UNCHANGED <<net, keys, near, pending, sealed, asked, todo>>
      /\ wire' = Without(f) \cup sent
  BY DEF RelayKeyResponse
<1> HIDE DEF sent
<1> QED
  BY <1>4, <1>5, WireIInv

LEMMA FallBackIInv ==
    ASSUME IInv, NEW f \in wire, FallBack(f)
    PROVE  IInv'
<1> DEFINE sent == {}
<1>1. /\ UNCHANGED <<net, keys, near, pending, sealed, asked, todo>>
      /\ wire' = Without(f) \cup sent
  BY DEF FallBack
<1>2. sent \subseteq Frame /\ \A g \in sent : PacketRight(g.packet)
  OBVIOUS
<1> HIDE DEF sent
<1> QED
  BY <1>1, <1>2, WireIInv

LEMMA ResponseIInv ==
    ASSUME IInv, NEW f \in wire, HandleKeyResponse(f)
    PROVE  IInv'
<1> DEFINE n == f.to
           p == f.packet.target
<1>1. f \in Frame /\ PacketRight(f.packet)
  BY DEF IInv, TypeOK, PacketsRight
<1>2. n \in Node /\ p \in Node /\ f.packet.key = p
  BY <1>1, FrameParts DEF PacketRight, HandleKeyResponse
<1>3. /\ keys' = [keys EXCEPT ![n][p] = p]
      /\ sealed' = [sealed EXCEPT ![n] = @ \cup {<<q, p>> : q \in Encryptable(n, p)}]
      /\ pending' = [pending EXCEPT ![n] = @ \ Encryptable(n, p)]
      /\ wire' = Without(f)
      /\ UNCHANGED <<net, near, asked, todo>>
  BY <1>2 DEF HandleKeyResponse
<1>4. Encryptable(n, p) \subseteq {p}
  BY DEF Encryptable
<1>5. TypeOK'
  BY <1>2, <1>3, <1>4 DEF IInv, TypeOK, Without
<1>6. RightKeys'
  BY <1>2, <1>3 DEF IInv, TypeOK, RightKeys
<1>7. SealedForRecipient'
  BY <1>2, <1>3, <1>4 DEF IInv, TypeOK, SealedForRecipient
<1>8. PacketsRight'
  BY <1>3 DEF IInv, PacketsRight, PacketRight, Without
<1> QED
  BY <1>5, <1>6, <1>7, <1>8 DEF IInv

LEMMA NextIInv == IInv /\ [Next]_vars => IInv'
<1> SUFFICES ASSUME IInv, [Next]_vars PROVE IInv'
  OBVIOUS
<1>1. CASE \E send \in todo : Send(send)
  BY <1>1, SendIInv
<1>2. CASE \E n, p \in Node : Meet(n, p)
  BY <1>2, MeetIInv
<1>3. CASE \E f \in wire : HandleKeyRequest(f)
  BY <1>3, RequestIInv
<1>4. CASE \E f \in wire : HandleKeyResponse(f)
  BY <1>4, ResponseIInv
<1>5. CASE \E f \in wire : RelayKeyResponse(f)
  BY <1>5, RelayIInv
<1>6. CASE \E f \in wire : FallBack(f)
  BY <1>6, FallBackIInv
<1>7. CASE UNCHANGED vars
  BY <1>7 DEF vars, IInv, TypeOK, RightKeys, PacketsRight, PacketRight, SealedForRecipient
<1> QED
  BY <1>1, <1>2, <1>3, <1>4, <1>5, <1>6, <1>7 DEF Next, Handle

LEMMA Invariance == Spec => []IInv
BY InitIInv, NextIInv, PTL DEF Spec

(* No message is ever encrypted for anybody but its recipient: whatever is  *)
(* answered from tables, relayed and asked for by several at once, the key  *)
(* of a key_res is the one of the identity it is stored under.              *)
THEOREM SealedAlways == Spec => []SealedForRecipient
<1>1. IInv => SealedForRecipient
  BY DEF IInv
<1> QED
  BY <1>1, Invariance, PTL

(* Packets and rows stay well formed, and no frame exceeds the hop limit:   *)
(* a request is sent on only after its hop was counted and compared.        *)
THEOREM TypeCorrect == Spec => []TypeOK
<1>1. IInv => TypeOK
  BY DEF IInv
<1> QED
  BY <1>1, Invariance, PTL

-----------------------------------------------------------------------------
(* The rows that count as known grow by the key that is written. *)
LEMMA KnownGrows ==
    ASSUME IInv, NEW n \in Node, NEW p \in Node, keys' = [keys EXCEPT ![n][p] = p]
    PROVE  Known' = [Known EXCEPT ![n] = @ \cup {p}]
BY DEF IInv, TypeOK, Known

LEMMA InitService == Init => Service!Init
<1> SUFFICES ASSUME Init PROVE Service!Init
  OBVIOUS
<1>1. Known \in [Node -> SUBSET Node]
  BY DEF Known
<1>2. net.meets \in SUBSET (Node \X Node)
  BY ScenarioFacts DEF Init
<1> QED
  BY <1>1, <1>2 DEF Init, Service!Init

LEMMA StepService == IInv /\ [Next]_vars => [Service!Next]_(Service!vars)
<1> SUFFICES ASSUME IInv, [Next]_vars PROVE [Service!Next]_(Service!vars)
  OBVIOUS
<1>1. ASSUME NEW send \in todo, Send(send) PROVE [Service!Next]_(Service!vars)
  <2> DEFINE n == send[1]
             p == send[2]
  <2>1. n \in Node /\ p \in Node /\ n # p
    BY ScenarioFacts DEF IInv, TypeOK
  <2>2. Known' = Known /\ UNCHANGED net.meets
    BY <1>1 DEF Send, Known
  <2>3. CASE HasKey(n, p)
    BY <1>1, <2>2, <2>3 DEF Send, Service!vars
  <2>4. CASE ~HasKey(n, p)
    <3>1. p \notin Known[n]
      BY <2>1, <2>4, KeyAssumption DEF Known, HasKey
    <3>2. /\ pending' = [pending EXCEPT ![n] = @ \cup {p}]
          /\ asked' = [asked EXCEPT ![n] = @ \cup IF ActivePeers(n) = {} THEN {} ELSE {p}]
      BY <1>1, <2>1, <2>4 DEF Send, IInv, TypeOK
    <3>3. Service!Ask(n, p)
      BY <2>1, <2>2, <3>1, <3>2 DEF Service!Ask
    <3> QED
      BY <2>1, <3>3 DEF Service!Next
  <2> QED
    BY <2>3, <2>4
<1>2. ASSUME NEW n \in Node, NEW p \in Node, Meet(n, p) PROVE [Service!Next]_(Service!vars)
  <2>1. <<n, p>> \in net.meets /\ UNCHANGED net.meets
    BY <1>2 DEF Meet
  <2>2. Known' = [Known EXCEPT ![n] = @ \cup {p}]
    BY <1>2, KnownGrows DEF Meet
  <2>3. Service!Meet(n, p)
    BY <1>2, <2>1, <2>2 DEF Meet, Service!Meet
  <2> QED
    BY <2>3 DEF Service!Next
<1>3. ASSUME NEW f \in wire, HandleKeyResponse(f) PROVE [Service!Next]_(Service!vars)
  <2> DEFINE n == f.to
             p == f.packet.target
  <2>1. n \in Node /\ p \in Node /\ p \in asked[n] /\ f.packet.key = p
    BY <1>3, FrameParts DEF IInv, TypeOK, PacketsRight, PacketRight, HandleKeyResponse
  <2>2. Known' = [Known EXCEPT ![n] = @ \cup {p}]
    BY <1>3, <2>1, KnownGrows DEF HandleKeyResponse
  <2>3. pending' = [pending EXCEPT ![n] = @ \ {p}]
    BY <1>3, <2>1 DEF HandleKeyResponse, Encryptable, IInv, TypeOK
  <2>4. asked' = asked /\ UNCHANGED net.meets
    BY <1>3 DEF HandleKeyResponse
  <2>5. Service!Answer(n, p)
    BY <2>1, <2>2, <2>3, <2>4 DEF Service!Answer
  <2> QED
    BY <2>1, <2>5 DEF Service!Next
<1>4. ASSUME UNCHANGED <<net, keys, pending, asked>> PROVE [Service!Next]_(Service!vars)
  BY <1>4 DEF Service!vars, Known
<1>5. ASSUME NEW f \in wire, HandleKeyRequest(f) \/ RelayKeyResponse(f) \/ FallBack(f)
      PROVE  UNCHANGED <<net, keys, pending, asked>>
  BY <1>5 DEF HandleKeyRequest, RelayKeyResponse, FallBack
<1>6. CASE UNCHANGED vars
  BY <1>4, <1>6 DEF vars
<1> QED
  BY <1>1, <1>2, <1>3, <1>4, <1>5, <1>6 DEF Next, Handle

(* Key discovery keeps the promise of KeyService in every network: keys     *)
(* come only for what was asked or announced, never get lost, and encrypt   *)
(* everything that waits for them in the same step.                         *)
THEOREM ImplementsService == Spec => ServiceKept
<1>1. Spec => Service!Init
  BY InitService DEF Spec
<1> QED
  BY <1>1, Invariance, StepService, PTL DEF Spec, ServiceKept, Service!ServiceSpec

-----------------------------------------------------------------------------
(* Groups of daemons behind walls *)

(* A frame goes where its sender, or its receiver before, had an address. *)
FramesAddressed ==
    \A f \in wire : {<<f.src, f.to>>, <<f.to, f.src>>} \cap (net.near \cup net.meets) # {}

AddressesMet == \A n, p \in Node : p \in near[n] => <<n, p>> \in net.near \cup net.meets

(* What an answer under way says of the group it was asked for by, if that  *)
(* is mute, or comes from, if that is deaf.                                 *)
RequestsInside ==
    \A group \in SUBSET Node : Mute(group) =>
        \A f \in wire : f.packet.requester \in group =>
            IF f.packet.kind = "key_req" THEN f.src \in group
            ELSE Acquainted(group, f.packet.target)

AnswersInside ==
    \A group \in SUBSET Node : Deaf(group) =>
        \A f \in wire : f.src \in group /\ f.packet.kind = "key_res" =>
            Acquainted(group, f.packet.target)

Walled ==
    /\ IInv /\ FramesAddressed /\ AddressesMet
    /\ RequestsInside /\ AnswersInside /\ KeysComeByTcp

(* net never changes, and nor does what depends on it alone. *)
LEMMA NetConstant ==
    ASSUME [Next]_vars
    PROVE  /\ net' = net
           /\ \A group : /\ Mute(group)' = Mute(group) /\ Deaf(group)' = Deaf(group)
                         /\ \A p : Acquainted(group, p)' = Acquainted(group, p)
<1>1. net' = net
  BY DEF Next, vars, Send, Meet, Handle, HandleKeyRequest, HandleKeyResponse, RelayKeyResponse,
         FallBack
<1> QED BY <1>1 DEF Mute, Deaf, Acquainted, Connectable

LEMMA WalledInit == Init => Walled
<1> SUFFICES ASSUME Init PROVE Walled
  OBVIOUS
<1>1. FramesAddressed /\ RequestsInside /\ AnswersInside /\ AddressesMet
  BY DEF Init, FramesAddressed, RequestsInside, AnswersInside, AddressesMet
<1>2. KeysComeByTcp
  BY DEF Init, KeysComeByTcp, HasKey, Acquainted
<1> QED BY <1>1, <1>2, InitIInv DEF Walled

(* What follows for a frame that connects. *)
LEMMA Crossing ==
    ASSUME Walled, NEW f \in wire, Connects(f), NEW group \in SUBSET Node
    PROVE  /\ Mute(group) /\ f.src \in group => f.to \in group
           /\ Deaf(group) /\ f.to \in group => f.src \in group
<1>1. f.src \in Node /\ f.to \in Node
  BY FrameParts DEF Walled, IInv, TypeOK
<1>2. Connectable(f.src, f.to)
  BY DEF Walled, FramesAddressed, Connects, Connectable
<1> QED BY <1>1, <1>2 DEF Mute, Deaf

(* Handlers that only touch the wire, again. *)
LEMMA WireWalled ==
    ASSUME Walled, [Next]_vars, UNCHANGED <<keys, near>>,
           NEW sent, wire' \subseteq wire \cup sent,
           \A g \in sent : {<<g.src, g.to>>, <<g.to, g.src>>} \cap (net.near \cup net.meets) # {},
           \A group \in SUBSET Node, g \in sent :
              /\ Mute(group) /\ g.packet.requester \in group =>
                    IF g.packet.kind = "key_req" THEN g.src \in group
                    ELSE Acquainted(group, g.packet.target)
              /\ Deaf(group) /\ g.src \in group /\ g.packet.kind = "key_res" =>
                    Acquainted(group, g.packet.target)
    PROVE  Walled'
<1>1. IInv'
  BY NextIInv DEF Walled
<1>2. net' = net
  BY NetConstant
<1>3. FramesAddressed'
  BY <1>2 DEF Walled, FramesAddressed
<1>4. AddressesMet'
  BY <1>2 DEF Walled, AddressesMet
<1>5. RequestsInside'
  BY NetConstant DEF Walled, RequestsInside
<1>6. AnswersInside'
  BY NetConstant DEF Walled, AnswersInside
<1>7. KeysComeByTcp'
  <2>1. \A n, p \in Node : HasKey(n, p)' = HasKey(n, p)
    BY DEF HasKey
  <2> QED BY <2>1, NetConstant DEF Walled, KeysComeByTcp
<1> QED BY <1>1, <1>3, <1>4, <1>5, <1>6, <1>7 DEF Walled

LEMMA SendWalled ==
    ASSUME Walled, [Next]_vars, NEW send \in todo, Send(send)
    PROVE  Walled'
<1> DEFINE n == send[1]
           p == send[2]
           flood == Frames(n, ActivePeers(n), BuildKeyReq(n, p), 0)
<1>1. n \in Node /\ p \in Node /\ ActivePeers(n) \subseteq Node
  BY ScenarioFacts DEF Walled, IInv, TypeOK, ActivePeers
<1>2. UNCHANGED <<keys, near>> /\ wire' \subseteq wire \cup flood
  BY DEF Send
<1>3. ASSUME NEW g \in flood
      PROVE  /\ {<<g.src, g.to>>, <<g.to, g.src>>} \cap (net.near \cup net.meets) # {}
             /\ g.packet.kind = "key_req" /\ g.packet.requester = g.src
  <2>1. PICK q \in ActivePeers(n) : g = [src |-> n, to |-> q, packet |-> BuildKeyReq(n, p), hop |-> 0]
    BY <1>3 DEF Frames
  <2>2. <<n, q>> \in net.near \cup net.meets
    BY <1>1, <2>1 DEF ActivePeers, Walled, AddressesMet
  <2> QED BY <2>1, <2>2 DEF BuildKeyReq
<1> HIDE DEF flood
<1> QED BY <1>2, <1>3, WireWalled

LEMMA MeetWalled ==
    ASSUME Walled, [Next]_vars, NEW n \in Node, NEW p \in Node, Meet(n, p)
    PROVE  Walled'
<1>1. /\ <<n, p>> \in net.meets /\ UNCHANGED <<net, wire>>
      /\ keys' = [keys EXCEPT ![n][p] = p] /\ near' = [near EXCEPT ![n] = @ \cup {p}]
  BY DEF Meet
<1>2. IInv'
  BY NextIInv DEF Walled
<1>3. FramesAddressed' /\ RequestsInside' /\ AnswersInside'
  BY <1>1, NetConstant DEF Walled, FramesAddressed, RequestsInside, AnswersInside
<1>4. AddressesMet'
  BY <1>1 DEF Walled, AddressesMet, IInv, TypeOK
<1>5. KeysComeByTcp'
  <2>1. \A q, r \in Node : HasKey(q, r)' => HasKey(q, r) \/ (q = n /\ r = p)
    BY <1>1 DEF HasKey, Walled, IInv, TypeOK
  <2>2. \A group : n \in group => Acquainted(group, p)
    BY <1>1 DEF Acquainted
  <2> QED BY <2>1, <2>2, NetConstant DEF Walled, KeysComeByTcp
<1> QED BY <1>2, <1>3, <1>4, <1>5 DEF Walled

LEMMA RequestWalled ==
    ASSUME Walled, [Next]_vars, NEW f \in wire, HandleKeyRequest(f)
    PROVE  Walled'
<1> DEFINE n == f.to
           target == f.packet.target
           reply == BuildKeyRes(f.packet.requester, target, KeyToGive(n, target))
           sent == IF WithinLimit(f) THEN Reaction(n, f) ELSE {}
<1>1. /\ n \in Node /\ f.src \in Node /\ target \in Node /\ f.packet.requester \in Node
      /\ f.packet.kind = "key_req" /\ Connects(f)
  BY FrameParts DEF Walled, IInv, TypeOK, HandleKeyRequest
<1>2. UNCHANGED <<keys, near>> /\ wire' \subseteq wire \cup sent
  BY DEF HandleKeyRequest, Without
<1>3. \A group \in SUBSET Node :
        /\ Mute(group) /\ f.packet.requester \in group => n \in group
        /\ (Mute(group) \/ Deaf(group)) /\ n \in group /\ (target = n \/ HasKey(n, target))
              => Acquainted(group, target)
  <2>1. \A group \in SUBSET Node : Mute(group) /\ f.packet.requester \in group => n \in group
    BY <1>1, Crossing DEF Walled, RequestsInside
  <2>2. \A group \in SUBSET Node :
          (Mute(group) \/ Deaf(group)) /\ n \in group /\ (target = n \/ HasKey(n, target))
             => Acquainted(group, target)
    BY <1>1 DEF Walled, KeysComeByTcp, Acquainted
  <2> QED BY <2>1, <2>2
<1>4. ASSUME NEW g \in sent
      PROVE  \/ /\ g.src = n /\ g.to = f.src
                /\ g.packet.kind = "key_res" /\ g.packet.target = target
                /\ g.packet.requester = f.packet.requester
                /\ target = n \/ HasKey(n, target)
             \/ /\ g.src = n /\ g.to \in near[n]
                /\ g.packet = f.packet
  BY <1>4 DEF Reaction, Frames, BuildKeyRes, OtherPeers, ActivePeers
<1>5. \A g \in sent : {<<g.src, g.to>>, <<g.to, g.src>>} \cap (net.near \cup net.meets) # {}
  <2>1. SUFFICES ASSUME NEW g \in sent
                 PROVE  {<<g.src, g.to>>, <<g.to, g.src>>} \cap (net.near \cup net.meets) # {}
    OBVIOUS
  <2>2. CASE g.src = n /\ g.to = f.src
    BY <2>2 DEF Walled, FramesAddressed
  <2>3. CASE g.src = n /\ g.to \in near[n]
    <3>1. g.to \in Node
      BY <1>1, <2>3 DEF Walled, IInv, TypeOK
    <3>2. <<g.src, g.to>> \in net.near \cup net.meets
      BY <1>1, <2>3, <3>1 DEF Walled, AddressesMet
    <3> QED BY <3>2
  <2> QED BY <1>4, <2>2, <2>3
<1>6. ASSUME NEW group \in SUBSET Node, NEW g \in sent
      PROVE  /\ Mute(group) /\ g.packet.requester \in group =>
                   IF g.packet.kind = "key_req" THEN g.src \in group
                   ELSE Acquainted(group, g.packet.target)
             /\ Deaf(group) /\ g.src \in group /\ g.packet.kind = "key_res" =>
                   Acquainted(group, g.packet.target)
  BY <1>1, <1>3, <1>4
<1> HIDE DEF sent
<1> QED BY <1>2, <1>5, <1>6, WireWalled

LEMMA RelayWalled ==
    ASSUME Walled, [Next]_vars, NEW f \in wire, RelayKeyResponse(f)
    PROVE  Walled'
<1> DEFINE n == f.to
           sent == Frames(n, OtherPeers(n, f.src), f.packet, f.hop)
<1>1. n \in Node /\ f.packet.kind = "key_res" /\ Connects(f)
  BY FrameParts DEF Walled, IInv, TypeOK, RelayKeyResponse
<1>2. UNCHANGED <<keys, near>> /\ wire' \subseteq wire \cup sent
  BY DEF RelayKeyResponse, Without
<1>3. ASSUME NEW g \in sent PROVE g.src = n /\ g.to \in near[n] /\ g.packet = f.packet
  BY <1>3 DEF Frames, OtherPeers, ActivePeers
<1>4. ASSUME NEW g \in sent
      PROVE  {<<g.src, g.to>>, <<g.to, g.src>>} \cap (net.near \cup net.meets) # {}
  <2>1. g.to \in Node
    BY <1>1, <1>3 DEF Walled, IInv, TypeOK
  <2>2. <<g.src, g.to>> \in net.near \cup net.meets
    BY <1>1, <1>3, <2>1 DEF Walled, AddressesMet
  <2> QED BY <2>2
<1>5. ASSUME NEW group \in SUBSET Node, NEW g \in sent
      PROVE  /\ Mute(group) /\ g.packet.requester \in group =>
                   IF g.packet.kind = "key_req" THEN g.src \in group
                   ELSE Acquainted(group, g.packet.target)
             /\ Deaf(group) /\ g.src \in group /\ g.packet.kind = "key_res" =>
                   Acquainted(group, g.packet.target)
  <2>1. Mute(group) /\ f.packet.requester \in group => Acquainted(group, f.packet.target)
    BY <1>1 DEF Walled, RequestsInside
  <2>2. Deaf(group) /\ n \in group => Acquainted(group, f.packet.target)
    BY <1>1, Crossing DEF Walled, AnswersInside
  <2> QED BY <1>1, <1>3, <2>1, <2>2
<1> HIDE DEF sent
<1> QED BY <1>2, <1>4, <1>5, WireWalled

LEMMA ResponseWalled ==
    ASSUME Walled, [Next]_vars, NEW f \in wire, HandleKeyResponse(f)
    PROVE  Walled'
<1> DEFINE n == f.to
           p == f.packet.target
<1>1. /\ n \in Node /\ p \in Node /\ f.packet.kind = "key_res" /\ Connects(f)
      /\ f.packet.requester = n
  BY FrameParts DEF Walled, IInv, TypeOK, HandleKeyResponse
<1>2. /\ wire' \subseteq wire /\ UNCHANGED <<net, near>>
      /\ keys' = [keys EXCEPT ![n][p] = f.packet.key]
  BY DEF HandleKeyResponse, Without
<1>3. IInv'
  BY NextIInv DEF Walled
<1>4. FramesAddressed' /\ AddressesMet' /\ RequestsInside' /\ AnswersInside'
  BY <1>2, NetConstant DEF Walled, FramesAddressed, AddressesMet, RequestsInside, AnswersInside
<1>5. \A group \in SUBSET Node : (Mute(group) \/ Deaf(group)) /\ n \in group => Acquainted(group, p)
  <2>1. \A group \in SUBSET Node : Mute(group) /\ n \in group => Acquainted(group, p)
    BY <1>1 DEF Walled, RequestsInside
  <2>2. \A group \in SUBSET Node : Deaf(group) /\ n \in group => Acquainted(group, p)
    BY <1>1, Crossing DEF Walled, AnswersInside
  <2> QED BY <2>1, <2>2
<1>6. KeysComeByTcp'
  <2>1. \A q, r \in Node : HasKey(q, r)' => HasKey(q, r) \/ (q = n /\ r = p)
    BY <1>2 DEF HasKey, Walled, IInv, TypeOK
  <2> QED BY <1>5, <2>1, NetConstant DEF Walled, KeysComeByTcp
<1> QED BY <1>3, <1>4, <1>6 DEF Walled

LEMMA WalledStep == Walled /\ [Next]_vars => Walled'
<1> SUFFICES ASSUME Walled, [Next]_vars PROVE Walled'
  OBVIOUS
<1> DEFINE sent == {}
<1>1. ASSUME UNCHANGED <<keys, near>>, wire' \subseteq wire PROVE Walled'
  <2>1. wire' \subseteq wire \cup sent
    BY <1>1
  <2> HIDE DEF sent
  <2>2. sent = {}
    BY DEF sent
  <2> QED BY <1>1, <2>1, <2>2, WireWalled
<1>2. CASE UNCHANGED vars
  BY <1>1, <1>2 DEF vars
<1>3. ASSUME NEW f \in wire, FallBack(f) PROVE Walled'
  BY <1>1, <1>3 DEF FallBack, Without
<1> QED BY <1>2, <1>3, SendWalled, MeetWalled, RequestWalled, ResponseWalled, RelayWalled
       DEF Next, Handle

(* In every network with walls, losses and announcements: daemons that no   *)
(* request leaves, or no answer enters, by TCP have the keys of their own   *)
(* acquaintances and nobody else's, since the UDP fallback carries no key.  *)
THEOREM KeysByTcpAlways == Spec => []KeysComeByTcp
<1>1. Walled => KeysComeByTcp
  BY DEF Walled
<1> QED BY <1>1, WalledInit, WalledStep, PTL DEF Spec
=============================================================================
