---------------------------- MODULE RoutingEngine ----------------------------
(***************************************************************************)
(* routing/engine.js on every daemon: the table predictability_scores, how *)
(* encounters, decay and other daemons' tables change it, and the decision *)
(* whether a message is handed to a relay.                                 *)
(*                                                                         *)
(* A daemon records an encounter with every announcement it hears and then *)
(* sends its scores to the other (rt-exchange).  processFrame answers      *)
(* "Malformed frame" to a frame whose message has no id, and the one of    *)
(* rt-exchange has none, so updateTransitivity is never called; FrameIds   *)
(* tells whether it has one, so that the engine can be checked both ways.  *)
(*                                                                         *)
(* Scores are integers from 0 to Scale, 1.0 in the code.  They round up    *)
(* where they decay: a positive score never becomes 0.                     *)
(***************************************************************************)
EXTENDS Integers

CONSTANTS
    Node,
    FrameIds,           \* SUBSET BOOLEAN, has message.id? {FALSE} in the code
    Scale,              \* 1.0
    Alpha,              \* [Time -> score], _calcDynamicAlpha of an average
    Keep,               \* [Time -> [Time -> score]], _calcDynamicGamma(average) ^ elapsed
    Noise,              \* 0.001
    ForwardThreshold,   \* FORWARD_THRESHOLD, 0.05
    CarrierHops,        \* 10
    MaxClock,           \* bound
    MaxMeets            \* bound: announcements heard

Time  == 0..MaxClock
Score == 0..Scale
Never == -1

ASSUME EngineAssumption ==
    /\ FrameIds \subseteq BOOLEAN
    /\ Scale \in Nat \ {0} /\ Noise \in Nat /\ ForwardThreshold \in Nat
    /\ CarrierHops \in Nat /\ MaxClock \in Nat /\ MaxMeets \in Nat
    /\ Alpha \in [Time -> 1..Scale]
    /\ Keep \in [Time -> [Time -> 1..Scale]]

VARIABLES
    scores,   \* [Node -> [Node -> [Node -> Row]]], n's rows (peer_id, target_id)
    wire,     \* set of Frame
    clock,
    met,      \* [Node -> [Node -> time of the last encounter, or Never]]
    gap,      \* [Node -> [Node -> longest time between two encounters]]
    meets,    \* encounters so far
    frameId   \* do the frames have an id?

vars == <<scores, wire, clock, met, gap, meets, frameId>>

Row == [score : Score, at : Time, count : 0..MaxMeets, avg : Time]

(* A row is there as long as its score is positive. *)
NoRow == [score |-> 0, at |-> 0, count |-> 0, avg |-> 0]

Entry == [score : Score, count : 0..MaxMeets, avg : Time]
Frame == [to : Node, from : Node, table : [Node -> Entry]]

(* Math.round of a quotient *)
Rounded(x, y) == (2 * x + y) \div (2 * y)

RoundedUp(x, y) == (x + y - 1) \div y

-----------------------------------------------------------------------------
(* Changed: a peer without a row gets the benefit of the doubt. *)
DecayedFromDefault(r) ==
    IF r.score = 0 THEN Scale \div 2 ELSE RoundedUp(r.score * Keep[r.avg][clock - r.at], Scale)

(* getDecayedScore: the value ... *)
Decayed(r) ==
    IF r.score = 0 THEN 0 ELSE RoundedUp(r.score * Keep[r.avg][clock - r.at], Scale)

(* ... and the lazy write-back. *)
Refreshed(r) ==
    IF r.score - Decayed(r) > Noise THEN [r EXCEPT !.score = Decayed(r), !.at = clock] ELSE r

(* Changed: the new gap is not counted. *)
AverageOfFewer(r) ==
    IF clock > r.at /\ r.count > 0
    THEN Rounded(r.avg * r.count + (clock - r.at), r.count) ELSE r.avg

(* The rolling average; the time is the one since the row was last written. *)
Average(r) ==
    IF clock > r.at /\ r.count > 0
    THEN Rounded(r.avg * r.count + (clock - r.at), r.count + 1) ELSE r.avg

(* Changed: P_old + alpha *)
RaisedTooFar(p, alpha) == p + alpha

(* P_old + (1 - P_old) * alpha *)
Raised(p, alpha) == p + ((Scale - p) * alpha) \div Scale

(* recordEncounter starts from the score as it was last written. *)
Encountered(r) ==
    [score |-> Raised(r.score, Alpha[Average(r)]), at |-> clock,
     count |-> r.count + 1, avg |-> Average(r)]

(* getMyRoutingTable *)
GetMyRoutingTable(mine) ==
    [t \in Node |-> [score |-> Decayed(mine[t]), count |-> mine[t].count, avg |-> mine[t].avg]]

(* onPeer: the encounter is recorded and the table sent to whom was heard. *)
Hear(n, p) ==
    /\ n # p /\ meets < MaxMeets /\ meets' = meets + 1
    /\ LET mine == [scores[n][n] EXCEPT ![p] = Encountered(@)] IN
       /\ scores' = [scores EXCEPT ![n][n] = [t \in Node |-> Refreshed(mine[t])]]
       /\ wire' = wire \cup {[to |-> p, from |-> n, table |-> GetMyRoutingTable(mine)]}
    /\ met' = [met EXCEPT ![n][p] = clock]
    /\ gap' = [gap EXCEPT ![n][p] =
                 IF met[n][p] # Never /\ clock - met[n][p] > @ THEN clock - met[n][p] ELSE @]
    /\ UNCHANGED <<clock, frameId>>

-----------------------------------------------------------------------------
(* updateTransitivity *)

(* The sender's rows are stored as they come, but for the one about itself. *)
Stored(theirs, table, p) ==
    [t \in Node |-> IF t = p \/ table[t].score = 0 THEN theirs[t]
                    ELSE [score |-> table[t].score, at |-> clock,
                          count |-> table[t].count, avg |-> table[t].avg]]

(* BETA = 0.25 *)
Transitive(mine, towards, theirs) ==
    mine + ((Scale - mine) * towards * theirs) \div (4 * Scale * Scale)

(* One row of mine, from the sender's score for the same target. *)
Learned(r, towards, theirs) ==
    LET new == Transitive(Decayed(r), towards, theirs) IN
    IF new > Decayed(r) + Noise
    THEN [Refreshed(r) EXCEPT !.score = new, !.at = clock] ELSE Refreshed(r)

UpdateTransitivity(n, p, table) ==
    LET towards == Decayed(scores[n][n][p])
        Mine(t) ==
            IF t = p THEN Refreshed(scores[n][n][p])
            ELSE IF towards = 0 \/ t = n \/ table[t].score = 0 THEN scores[n][n][t]
            ELSE Learned(scores[n][n][t], towards, table[t].score)
    IN scores' = [scores EXCEPT ![n] =
                    [q \in Node |-> IF q = p THEN Stored(scores[n][p], table, p)
                                    ELSE IF q = n THEN [t \in Node |-> Mine(t)]
                                    ELSE scores[n][q]]]

(* processFrame *)
Receive(f) ==
    /\ IF frameId THEN UpdateTransitivity(f.to, f.from, f.table) ELSE UNCHANGED scores
    /\ wire' = wire \ {f}
    /\ UNCHANGED <<clock, met, gap, meets, frameId>>

(* sendMessage fails; there is no second way. *)
Lose(f) ==
    /\ wire' = wire \ {f}
    /\ UNCHANGED <<scores, clock, met, gap, meets, frameId>>

-----------------------------------------------------------------------------
(* shouldForwardMessage for an encrypted message on its way from n *)

Asks(n, t, relay) == relay # t /\ relay # n /\ t # n

(* Changed: a daemon without a score of its own has no say. *)
NoColdStart(n, t, relay, hops) ==
    LET ours   == Decayed(scores[n][n][t])
        theirs == Decayed(scores[n][relay][t])
    IN theirs > ours + ForwardThreshold \/ theirs > 0 \/ hops < CarrierHops

ShouldForward(n, t, relay, hops) ==
    LET ours   == Decayed(scores[n][n][t])
        theirs == Decayed(scores[n][relay][t])
    IN theirs > ours + ForwardThreshold \/ ours = 0 \/ theirs > 0 \/ hops < CarrierHops

(* The question alone writes two rows back. *)
ShouldForwardMessage(n, t, relay) ==
    /\ Asks(n, t, relay)
    /\ scores' = [scores EXCEPT ![n][n][t] = Refreshed(@), ![n][relay][t] = Refreshed(@)]
    /\ UNCHANGED <<wire, clock, met, gap, meets, frameId>>

Tick ==
    /\ clock < MaxClock /\ clock' = clock + 1
    /\ UNCHANGED <<scores, wire, met, gap, meets, frameId>>

-----------------------------------------------------------------------------
Init ==
    /\ scores = [n \in Node |-> [p \in Node |-> [t \in Node |-> NoRow]]]
    /\ wire = {}
    /\ clock = 0
    /\ met = [n \in Node |-> [p \in Node |-> Never]]
    /\ gap = [n \in Node |-> [p \in Node |-> 0]]
    /\ meets = 0
    /\ frameId \in FrameIds

Next ==
    \/ \E n, p \in Node : Hear(n, p)
    \/ \E f \in wire : Receive(f) \/ Lose(f)
    \/ \E n, t, relay \in Node : ShouldForwardMessage(n, t, relay)
    \/ Tick

Spec == Init /\ [][Next]_vars

-----------------------------------------------------------------------------
TypeOK ==
    /\ scores \in [Node -> [Node -> [Node -> Row]]]
    /\ wire \subseteq Frame
    /\ clock \in Time
    /\ \A n, p, t \in Node : scores[n][p][t].at <= clock
    /\ met \in [Node -> [Node -> Time \cup {Never}]]
    /\ gap \in [Node -> [Node -> Time]]
    /\ meets \in 0..MaxMeets
    /\ frameId \in FrameIds

(* Nobody has a route to a daemon that nobody has ever heard: whatever is   *)
(* repeated, decayed, written back and passed round, a score goes back to   *)
(* an encounter.                                                            *)
HearsayHasSource ==
    \A t \in Node :
        (\E n, p \in Node : scores[n][p][t].score > 0) => \E q \in Node : met[q][t] # Never

(* The average the engine keeps is never longer than the longest time       *)
(* between two encounters.  (It may be as short as one likes: every read    *)
(* that writes back restarts the time it is taken from, and the first       *)
(* encounter counts as a gap of 0.)                                         *)
AverageWithinGaps == \A n, p \in Node : scores[n][n][p].avg <= gap[n][p]

(* As the daemons exchange no scores, a message of ten hops is refused by   *)
(* those who have met its destination, and by nobody else.                  *)
OnlyStrangersCarryOn ==
    ~frameId =>
        \A n, t, relay \in Node, hops \in {0, CarrierHops} :
            Asks(n, t, relay) =>
                (ShouldForward(n, t, relay, hops) <=> hops < CarrierHops \/ met[n][t] = Never)
=============================================================================
