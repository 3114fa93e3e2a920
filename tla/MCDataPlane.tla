----------------------------- MODULE MCDataPlane -----------------------------
(***************************************************************************)
(* Instances of DataPlane for TLC: which nodes there are, where they start *)
(* and who writes to whom.  The .cfg files choose among them.              *)
(***************************************************************************)
EXTENDS DataPlane, TLC

CONSTANTS a, b, c, d, e, m1, m2, wifi, hotspot, ip1, ip2, ip3, ip4

FromA == [m \in Msg |-> a]
ToC   == [m \in Msg |-> c]
ToE   == [m \in Msg |-> e]
ToSelfAndC == [m \in Msg |-> IF m = m1 THEN a ELSE c]

(* Everybody on the same network. *)
Together == a :> <<wifi, ip1>> @@ b :> <<wifi, ip2>> @@ c :> <<wifi, ip3>> @@ d :> <<wifi, ip4>>
OneLan   == [n \in Node |-> Together[n]]

(* The recipient is nowhere to be heard. *)
EAway == Together @@ e :> Offline

(* The recipient on the other network, with an address that is also in use  *)
(* on the first one.                                                        *)
CElsewhere == a :> <<wifi, ip1>> @@ b :> <<wifi, ip2>> @@ c :> <<hotspot, ip1>>

(* What the peers tables hold once everybody was heard, and before that. *)
AllHeard == [n \in Node |-> [p \in Node |->
               IF p = n THEN NoPeer ELSE IF Home[p][1] # Home[n][1] THEN NoIp ELSE Home[p][2]]]

(* The recipient is known to be away; the sender is acquainted with one     *)
(* relay only, so that the message may go a hop further.                    *)
ELeft == [n \in Node |-> [p \in Node |->
            IF p = n \/ (a \in {n, p} /\ {n, p} # {a, b}) THEN NoPeer
            ELSE IF p = e THEN NoIp ELSE Together[p][2]]]

(* The sender has heard the relay only; the others have heard everybody. *)
OnlyRelayHeard == [AllHeard EXCEPT ![a][c] = NoPeer]

Everyone == Node
OnlyB      == {b}
OnlyC      == {c}
NoIds  == {}
IdsOfM2 == {User(m2), Ack(m2)}
=============================================================================
