------------------------------ MODULE KeyService ------------------------------
(***************************************************************************)
(* What key discovery promises to the rest of a daemon.  The data plane    *)
(* builds on exactly this much: a key that arrives was asked for and is    *)
(* the one of the identity it is stored under, keys are never lost or      *)
(* replaced, and a message leaves the state __pending_encryption only when *)
(* the key of its recipient arrives.  A forgetful daemon also loses keys   *)
(* and messages with time, and never otherwise.                            *)
(***************************************************************************)
CONSTANTS
    Node,
    Forgetful    \* may rows of peers and messages be cleaned up?

VARIABLES
    around,    \* <<n, p>>: n may hear p announce itself; never changes
    asked,     \* [Node -> SUBSET Node], identities a key was asked for
    known,     \* [Node -> SUBSET Node], identities whose own key is in the peers table
    pending    \* [Node -> SUBSET Node], recipients messages wait for in plaintext

vars == <<around, asked, known, pending>>

Init ==
    /\ around \in SUBSET (Node \X Node)
    /\ asked = [n \in Node |-> {}]
    /\ known \in [Node -> SUBSET Node]
    /\ pending = [n \in Node |-> {}]

(* A message to somebody whose key was not there when it was looked up;     *)
(* nobody may be around to be asked.                                        *)
Ask(n, p) ==
    /\ p # n
    /\ pending' = [pending EXCEPT ![n] = @ \cup {p}]
    /\ \E now \in {{}, {p}} : asked' = [asked EXCEPT ![n] = @ \cup now]
    /\ UNCHANGED <<around, known>>

Answer(n, p) ==
    /\ p \in asked[n]
    /\ known' = [known EXCEPT ![n] = @ \cup {p}]
    /\ pending' = [pending EXCEPT ![n] = @ \ {p}]
    /\ UNCHANGED <<around, asked>>

(* p announces itself: the key is known, what waits for it keeps waiting. *)
Meet(n, p) ==
    /\ <<n, p>> \in around
    /\ known' = [known EXCEPT ![n] = @ \cup {p}]
    /\ UNCHANGED <<around, asked, pending>>

(* The hourly cleanup, of peers unheard of ... *)
Forget(n, gone) ==
    /\ Forgetful
    /\ known' = [known EXCEPT ![n] = @ \ gone]
    /\ UNCHANGED <<around, asked, pending>>

(* ... and the end of a waiting message's ttl. *)
GiveUp(n, p) ==
    /\ Forgetful
    /\ pending' = [pending EXCEPT ![n] = @ \ {p}]
    /\ UNCHANGED <<around, asked, known>>

Next ==
    \/ \E n, p \in Node : Ask(n, p) \/ Answer(n, p) \/ Meet(n, p) \/ GiveUp(n, p)
    \/ \E n \in Node, gone \in SUBSET Node : Forget(n, gone)

ServiceSpec == Init /\ [][Next]_vars
=============================================================================
