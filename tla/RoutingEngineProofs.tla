------------------------- MODULE RoutingEngineProofs -------------------------
(***************************************************************************)
(* Theorems about RoutingEngine, for any number of daemons and any tables  *)
(* of alpha and gamma, with and without the exchange of scores: every      *)
(* score goes back to an encounter, the arithmetic stays in its range,     *)
(* averages stay within gaps, and who refuses a message of ten hops.       *)
(***************************************************************************)
EXTENDS RoutingEngine, TLAPS

(* t has been heard by somebody. *)
Sourced(t) == \E q \in Node : met[q][t] # Never

Shape ==
    /\ scores = [n \in Node |-> scores[n]]
    /\ \A n \in Node : scores[n] = [p \in Node |-> scores[n][p]]
    /\ \A n, p \in Node : scores[n][p] = [t \in Node |-> scores[n][p][t]]
    /\ met = [n \in Node |-> met[n]]
    /\ \A n \in Node : met[n] = [p \in Node |-> met[n][p]]
    /\ clock \in Nat

RowsSourced == \A n, p, t \in Node : scores[n][p][t].score # 0 => Sourced(t)

FramesSourced ==
    \A f \in wire : /\ f.to \in Node /\ f.from \in Node
                    /\ \A t \in Node : f.table[t].score # 0 => Sourced(t)

(* The tables under way are part of the induction: what one of them says    *)
(* about a daemon becomes a row somewhere else.                             *)
IInv == Shape /\ RowsSourced /\ FramesSourced

(* A row without a score stays as it is when it is read. *)
LEMMA ReadsInventNothing ==
    ASSUME NEW r, r.score = 0
    PROVE  Decayed(r) = 0 /\ Refreshed(r) = r
BY EngineAssumption DEF Decayed, Refreshed

LEMMA InitSourced == Init => IInv
BY DEF Init, IInv, Shape, RowsSourced, FramesSourced, Sourced, NoRow

(* An encounter is a source. *)
LEMMA HearSourced ==
    ASSUME IInv, NEW n \in Node, NEW p \in Node, Hear(n, p)
    PROVE  IInv'
<1> DEFINE mine == [scores[n][n] EXCEPT ![p] = Encountered(@)]
<1>1. Shape'
  <2>1. /\ scores' = [m \in Node |-> scores'[m]]
        /\ met' = [m \in Node |-> met'[m]]
        /\ clock' \in Nat
    BY DEF IInv, Shape, Hear
  <2>2. ASSUME NEW m \in Node PROVE met'[m] = [q \in Node |-> met'[m][q]]
    BY DEF IInv, Shape, Hear
  <2> DEFINE new == [t \in Node |-> Refreshed(mine[t])]
  <2>3. scores' = [scores EXCEPT ![n][n] = new]
    BY DEF Hear
  <2>4. new = [t \in Node |-> new[t]]
    OBVIOUS
  <2> HIDE DEF new, mine
  <2>5. ASSUME NEW m \in Node PROVE scores'[m] = [q \in Node |-> scores'[m][q]]
    BY <2>3 DEF IInv, Shape
  <2>6. ASSUME NEW m \in Node, NEW q \in Node
        PROVE  scores'[m][q] = [t \in Node |-> scores'[m][q][t]]
    <3>1. CASE m = n /\ q = n
      BY <3>1, <2>3, <2>4 DEF IInv, Shape
    <3>2. CASE ~(m = n /\ q = n)
      <4>1. scores'[m][q] = scores[m][q]
        BY <3>2, <2>3 DEF IInv, Shape
      <4> QED
        BY <4>1 DEF IInv, Shape
    <3> QED
      BY <3>1, <3>2
  <2> QED
    BY <2>1, <2>2, <2>5, <2>6 DEF Shape
<1>2. \A t \in Node : Sourced(t) => Sourced(t)'
  BY DEF IInv, Shape, Hear, Sourced, Never
<1>3. Sourced(p)'
  BY DEF IInv, Shape, Hear, Sourced, Never
<1>4. ASSUME NEW t \in Node, mine[t].score # 0
      PROVE  Sourced(t)'
  <2>1. CASE t = p
    BY <2>1, <1>3
  <2>2. CASE t # p
    <3>1. mine[t] = scores[n][n][t]
      BY <2>2 DEF IInv, Shape
    <3> QED
      BY <3>1, <1>2, <1>4 DEF IInv, RowsSourced
  <2> QED
    BY <2>1, <2>2
<1>5. RowsSourced'
  <2> SUFFICES ASSUME NEW m \in Node, NEW q \in Node, NEW t \in Node,
                      scores'[m][q][t].score # 0
               PROVE  Sourced(t)'
    BY DEF RowsSourced
  <2>1. CASE m = n /\ q = n
    <3>1. scores'[m][q][t] = Refreshed(mine[t])
      BY <2>1 DEF Hear, IInv, Shape
    <3>2. mine[t].score # 0
      BY <3>1, ReadsInventNothing
    <3> QED
      BY <3>2, <1>4
  <2>2. CASE ~(m = n /\ q = n)
    <3>1. scores'[m][q][t] = scores[m][q][t]
      BY <2>2 DEF Hear, IInv, Shape
    <3> QED
      BY <3>1, <1>2 DEF IInv, RowsSourced
  <2> QED
    BY <2>1, <2>2
<1>6. FramesSourced'
  <2> DEFINE sent == [to |-> p, from |-> n, table |-> GetMyRoutingTable(mine)]
  <2>1. wire' = wire \cup {sent}
    BY DEF Hear
  <2>2. ASSUME NEW t \in Node, sent.table[t].score # 0
        PROVE  Sourced(t)'
    <3>1. sent.table[t].score = Decayed(mine[t])
      BY DEF GetMyRoutingTable
    <3>2. mine[t].score # 0
      BY <3>1, <2>2, ReadsInventNothing
    <3> QED
      BY <3>2, <1>4
  <2>3. sent.to = p /\ sent.from = n
    OBVIOUS
  <2> HIDE DEF sent
  <2> QED
    BY <2>1, <2>2, <2>3, <1>2 DEF IInv, FramesSourced
<1> QED
  BY <1>1, <1>5, <1>6 DEF IInv

(* updateTransitivity writes where the table it got has a score, or reads. *)
LEMMA ReceiveSourced ==
    ASSUME IInv, NEW f \in wire, Receive(f)
    PROVE  IInv'
<1>1. met' = met /\ clock' = clock /\ wire' = wire \ {f}
  BY DEF Receive
<1>2. \A t : Sourced(t)' <=> Sourced(t)
  BY <1>1 DEF Sourced
<1>3. FramesSourced'
  BY <1>1, <1>2 DEF IInv, FramesSourced
<1>4. CASE ~frameId
  <2>1. scores' = scores
    BY <1>4 DEF Receive
  <2>2. Shape'
    BY <2>1, <1>1 DEF IInv, Shape
  <2>3. RowsSourced'
    BY <2>1, <1>2 DEF IInv, RowsSourced
  <2> QED
    BY <2>2, <2>3, <1>3 DEF IInv
<1>5. CASE frameId
  <2> DEFINE n == f.to
             p == f.from
             table == f.table
             towards == Decayed(scores[n][n][p])
             Mine(t) == IF t = p THEN Refreshed(scores[n][n][p])
                        ELSE IF towards = 0 \/ t = n \/ table[t].score = 0 THEN scores[n][n][t]
                        ELSE Learned(scores[n][n][t], towards, table[t].score)
             theirs == Stored(scores[n][p], table, p)
  <2>1. n \in Node /\ p \in Node
    BY DEF IInv, FramesSourced
  <2>2. \A t \in Node : table[t].score # 0 => Sourced(t)
    BY DEF IInv, FramesSourced
  <2>3. scores' = [scores EXCEPT ![n] =
                    [q \in Node |-> IF q = p THEN theirs
                                    ELSE IF q = n THEN [t \in Node |-> Mine(t)]
                                    ELSE scores[n][q]]]
    BY <1>5 DEF Receive, UpdateTransitivity
  <2>4. ASSUME NEW t \in Node, Mine(t).score # 0
        PROVE  Sourced(t)
    <3>1. CASE t = p
      <4>1. scores[n][n][t].score # 0
        BY <3>1, <2>4, ReadsInventNothing
      <4> QED
        BY <4>1, <2>1 DEF IInv, RowsSourced
    <3>2. CASE t # p /\ (towards = 0 \/ t = n \/ table[t].score = 0)
      BY <3>2, <2>4, <2>1 DEF IInv, RowsSourced
    <3>3. CASE t # p /\ table[t].score # 0
      BY <3>3, <2>2
    <3> QED
      BY <3>1, <3>2, <3>3
  <2>5. ASSUME NEW t \in Node, theirs[t].score # 0
        PROVE  Sourced(t)
    <3>1. CASE t = p \/ table[t].score = 0
      <4>1. theirs[t] = scores[n][p][t]
        BY <3>1 DEF Stored
      <4> QED
        BY <4>1, <2>5, <2>1 DEF IInv, RowsSourced
    <3>2. CASE table[t].score # 0
      BY <3>2, <2>2
    <3> QED
      BY <3>1, <3>2
  <2>6. theirs = [t \in Node |-> theirs[t]]
    BY DEF Stored
  <2> HIDE DEF Mine, theirs, towards
  <2>7. Shape'
    <3> DEFINE own == [t \in Node |-> Mine(t)]
    <3>1. own = [t \in Node |-> own[t]]
      OBVIOUS
    <3> HIDE DEF own
    <3>2. scores' = [scores EXCEPT ![n] =
                      [q \in Node |-> IF q = p THEN theirs
                                      ELSE IF q = n THEN own ELSE scores[n][q]]]
      BY <2>3 DEF own
    <3>3. scores' = [m \in Node |-> scores'[m]]
      BY <3>2 DEF IInv, Shape
    <3>4. ASSUME NEW m \in Node PROVE scores'[m] = [q \in Node |-> scores'[m][q]]
      BY <3>2, <2>1 DEF IInv, Shape
    <3>5. ASSUME NEW m \in Node, NEW q \in Node
          PROVE  scores'[m][q] = [t \in Node |-> scores'[m][q][t]]
      <4>1. CASE m = n /\ q = p
        BY <4>1, <3>2, <2>6, <2>1 DEF IInv, Shape
      <4>2. CASE m = n /\ q = n /\ q # p
        BY <4>2, <3>2, <3>1, <2>1 DEF IInv, Shape
      <4>3. CASE m # n \/ (q # n /\ q # p)
        <5>1. scores'[m][q] = scores[m][q]
          BY <4>3, <3>2, <2>1 DEF IInv, Shape
        <5> QED
          BY <5>1 DEF IInv, Shape
      <4> QED
        BY <4>1, <4>2, <4>3
    <3> QED
      BY <1>1, <3>3, <3>4, <3>5 DEF IInv, Shape
  <2>8. RowsSourced'
    <3> SUFFICES ASSUME NEW m \in Node, NEW q \in Node, NEW t \in Node,
                        scores'[m][q][t].score # 0
                 PROVE  Sourced(t)
      BY <1>2 DEF RowsSourced
    <3>1. CASE m = n /\ q = p
      <4>1. scores'[m][q][t] = theirs[t]
        BY <3>1, <2>1, <2>3 DEF IInv, Shape
      <4> QED
        BY <4>1, <2>5
    <3>2. CASE m = n /\ q = n /\ q # p
      <4>1. scores'[m][q][t] = Mine(t)
        BY <3>2, <2>1, <2>3 DEF IInv, Shape
      <4> QED
        BY <4>1, <2>4
    <3>3. CASE m # n \/ (q # n /\ q # p)
      <4>1. scores'[m][q][t] = scores[m][q][t]
        BY <3>3, <2>1, <2>3 DEF IInv, Shape
      <4> QED
        BY <4>1 DEF IInv, RowsSourced
    <3> QED
      BY <3>1, <3>2, <3>3
  <2> QED
    BY <2>7, <2>8, <1>3 DEF IInv
<1> QED
  BY <1>4, <1>5

(* The decision reads two rows. *)
LEMMA QuestionSourced ==
    ASSUME IInv, NEW n \in Node, NEW t \in Node, NEW relay \in Node,
           ShouldForwardMessage(n, t, relay)
    PROVE  IInv'
<1>1. met' = met /\ clock' = clock /\ wire' = wire
  BY DEF ShouldForwardMessage
<1>2. \A u : Sourced(u)' <=> Sourced(u)
  BY <1>1 DEF Sourced
<1>3. FramesSourced'
  BY <1>1, <1>2 DEF IInv, FramesSourced
<1>4. relay # n
  BY DEF ShouldForwardMessage, Asks
<1> DEFINE Read(q, u) == IF q \in {n, relay} /\ u = t THEN Refreshed(scores[n][q][u])
                         ELSE scores[n][q][u]
<1>5. /\ scores' = [m \in Node |-> scores'[m]]
      /\ \A m \in Node : scores'[m] = [q \in Node |-> scores'[m][q]]
  BY DEF IInv, Shape, ShouldForwardMessage
<1>6. ASSUME NEW m \in Node, NEW q \in Node
      PROVE  scores'[m][q] = [u \in Node |-> IF m = n THEN Read(q, u) ELSE scores[m][q][u]]
  <2>1. CASE m # n \/ q \notin {n, relay}
    <3>1. scores'[m][q] = scores[m][q]
      BY <2>1 DEF ShouldForwardMessage, IInv, Shape
    <3>2. scores[m][q] = [u \in Node |-> scores[m][q][u]]
      BY DEF IInv, Shape
    <3> QED
      BY <3>1, <3>2, <2>1
  <2>2. CASE m = n /\ q \in {n, relay}
    <3>1. scores'[m][q] = [scores[m][q] EXCEPT ![t] = Refreshed(scores[m][q][t])]
      BY <2>2, <1>4 DEF ShouldForwardMessage, IInv, Shape
    <3>2. scores[m][q] = [u \in Node |-> scores[m][q][u]]
      BY DEF IInv, Shape
    <3> QED
      BY <3>1, <3>2, <2>2
  <2> QED
    BY <2>1, <2>2
<1>7. Shape'
  <2>1. ASSUME NEW m \in Node, NEW q \in Node
        PROVE  scores'[m][q] = [u \in Node |-> scores'[m][q][u]]
    BY <1>6
  <2> QED
    BY <2>1, <1>1, <1>5 DEF IInv, Shape
<1>8. RowsSourced'
  <2> SUFFICES ASSUME NEW m \in Node, NEW q \in Node, NEW u \in Node,
                      scores'[m][q][u].score # 0
               PROVE  Sourced(u)
    BY <1>2 DEF RowsSourced
  <2> HIDE DEF Read
  <2>1. scores'[m][q] = [v \in Node |-> IF m = n THEN Read(q, v) ELSE scores[m][q][v]]
    BY <1>6
  <2>2. scores'[m][q][u] = IF m = n THEN Read(q, u) ELSE scores[m][q][u]
    BY <2>1
  <2>3. scores[m][q][u].score # 0
    BY <2>2, ReadsInventNothing DEF Read
  <2> QED
    BY <2>3 DEF IInv, RowsSourced
<1> QED
  BY <1>3, <1>7, <1>8 DEF IInv

LEMMA NextSourced == IInv /\ [Next]_vars => IInv'
<1> SUFFICES ASSUME IInv, [Next]_vars PROVE IInv'
  OBVIOUS
<1>1. ASSUME NEW f \in wire, Lose(f) PROVE IInv'
  BY <1>1 DEF Lose, IInv, Shape, RowsSourced, FramesSourced, Sourced
<1>2. ASSUME Tick PROVE IInv'
  BY <1>2 DEF Tick, IInv, Shape, RowsSourced, FramesSourced, Sourced
<1>3. ASSUME UNCHANGED vars PROVE IInv'
  BY <1>3 DEF vars, IInv, Shape, RowsSourced, FramesSourced, Sourced
<1> QED
  BY <1>1, <1>2, <1>3, HearSourced, ReceiveSourced, QuestionSourced DEF Next

(* Spec => []HearsayHasSource: no score for a daemon nobody has heard, from *)
(* encounters, lazy decay and updateTransitivity in any order.              *)
THEOREM SourcedAlways == Spec => []HearsayHasSource
<1>1. IInv => HearsayHasSource
  <2> SUFFICES ASSUME IInv, NEW t \in Node, NEW n \in Node, NEW p \in Node,
                      scores[n][p][t].score > 0
               PROVE  Sourced(t)
    BY DEF HearsayHasSource, Sourced
  <2>1. scores[n][p][t].score # 0
    OBVIOUS
  <2> QED
    BY <2>1 DEF IInv, RowsSourced
<1> QED
  BY <1>1, InitSourced, NextSourced, PTL DEF Spec

-----------------------------------------------------------------------------
(* The arithmetic of the scores *)

LEMMA Quotient ==
    ASSUME NEW x \in Nat, NEW y \in Nat \ {0}
    PROVE  x \div y \in Nat /\ (x \div y) * y <= x /\ x < (x \div y + 1) * y
OBVIOUS

LEMMA LessFactor == ASSUME NEW i \in Int, NEW j \in Int, NEW k \in Nat \ {0}, i * k < j * k
                    PROVE  i < j
OBVIOUS

LEMMA Products ==
    ASSUME NEW i \in Nat, NEW j \in Nat, NEW k \in Nat, NEW l \in Nat, i <= j, k <= l
    PROVE  i * k \in Nat /\ j * l \in Nat /\ i * k <= j * l
OBVIOUS

LEMMA QuotientAtMost ==
    ASSUME NEW x \in Nat, NEW y \in Nat \ {0}, NEW m \in Nat, x < (m + 1) * y
    PROVE  x \div y \in 0..m
BY Quotient, LessFactor

LEMMA QuotientAtLeast ==
    ASSUME NEW x \in Nat, NEW y \in Nat \ {0}, x >= y
    PROVE  x \div y > 0
<1>1. x \div y \in Nat /\ x < (x \div y + 1) * y
  BY Quotient
<1>2. 1 * y < (x \div y + 1) * y
  BY <1>1
<1>3. 1 < x \div y + 1
  BY <1>1, <1>2, LessFactor
<1> QED BY <1>1, <1>3

(* Rounding up a product with a factor of at most 1 (Scale of Scale). *)
LEMMA RoundedUpFacts ==
    ASSUME NEW s \in Score, NEW k \in 1..Scale
    PROVE  RoundedUp(s * k, Scale) \in 0..s /\ (s > 0 => RoundedUp(s * k, Scale) > 0)
<1>1. Scale \in Nat \ {0} /\ s \in Nat /\ k \in Nat /\ k <= Scale /\ k >= 1
  BY EngineAssumption DEF Score
<1>2. s * k \in Nat /\ s * k <= s * Scale /\ s * Scale \in Nat
  BY <1>1, Products
<1> DEFINE x == s * k + Scale - 1
<1>3. x \in Nat /\ x <= s * Scale + Scale - 1
  BY <1>1, <1>2
<1>4. (s + 1) * Scale = s * Scale + Scale
  BY <1>1
<1>5. x < (s + 1) * Scale
  BY <1>1, <1>2, <1>3, <1>4
<1>6. x \div Scale \in 0..s
  BY <1>1, <1>3, <1>5, QuotientAtMost
<1>7. ASSUME s > 0 PROVE x \div Scale > 0
  <2>1. s * k >= 1
    <3>1. 1 * 1 <= s * k
      BY <1>1, <1>7, Products
    <3> QED BY <3>1
  <2>2. x >= Scale
    BY <1>1, <1>2, <2>1
  <2> QED BY <1>1, <1>3, <2>2, QuotientAtLeast
<1> QED BY <1>6, <1>7 DEF RoundedUp

(* Reading a score lowers it, but never to 0. *)
LEMMA DecayedFacts ==
    ASSUME NEW r \in Row, clock \in Time, r.at <= clock
    PROVE  /\ Decayed(r) \in Score /\ Decayed(r) <= r.score
           /\ Decayed(r) = 0 <=> r.score = 0
<1>1. r.score \in Score /\ r.at \in Time /\ r.avg \in Time
  BY DEF Row
<1>0. Keep \in [Time -> [Time -> 1..Scale]]
  BY EngineAssumption
<1>2. clock - r.at \in Time
  <2>1. MaxClock \in Nat
    BY EngineAssumption
  <2> QED BY <1>1, <2>1 DEF Time
<1>3. Keep[r.avg][clock - r.at] \in 1..Scale
  BY <1>0, <1>1, <1>2
<1> DEFINE up == RoundedUp(r.score * Keep[r.avg][clock - r.at], Scale)
<1>4. up \in 0..r.score /\ (r.score > 0 => up > 0)
  BY <1>1, <1>3, RoundedUpFacts
<1>5. Decayed(r) = IF r.score = 0 THEN 0 ELSE up
  BY DEF Decayed
<1> HIDE DEF up
<1> QED BY <1>1, <1>4, <1>5, EngineAssumption DEF Score

LEMMA RefreshedFacts ==
    ASSUME NEW r \in Row, clock \in Time, r.at <= clock
    PROVE  /\ Refreshed(r) \in Row
           /\ Refreshed(r).count = r.count /\ Refreshed(r).avg = r.avg
           /\ Refreshed(r).at \in {r.at, clock}
           /\ Refreshed(r).score = 0 <=> r.score = 0
<1>1. Decayed(r) \in Score /\ (Decayed(r) = 0 <=> r.score = 0)
  BY DecayedFacts
<1> QED BY <1>1 DEF Refreshed, Row

(* The rolling average lies between the old average and the new gap. *)
LEMMA AverageFacts ==
    ASSUME NEW r \in Row, clock \in Time, r.at <= clock, NEW g \in Time,
           r.avg <= g, r.count > 0 => clock - r.at <= g
    PROVE  Average(r) \in 0..g
<1>1. r.at \in Nat /\ r.count \in Nat /\ r.avg \in Nat /\ clock \in Nat /\ g \in Nat
  BY EngineAssumption DEF Row, Time
<1>2. CASE ~(clock > r.at /\ r.count > 0)
  BY <1>1, <1>2 DEF Average
<1>3. CASE clock > r.at /\ r.count > 0
  <2> DEFINE d == clock - r.at
             y == r.count + 1
             x == r.avg * r.count + d
  <2>1. d \in Nat /\ d <= g /\ y \in Nat \ {0}
    BY <1>1, <1>3
  <2>2. r.avg * r.count \in Nat /\ r.avg * r.count <= g * r.count /\ g * r.count \in Nat
    BY <1>1, Products
  <2>3. g * y = g * r.count + g
    BY <1>1
  <2>4. g * y \in Nat
    BY <1>1, <2>1
  <2>5. x \in Nat /\ x <= g * y
    BY <1>1, <2>1, <2>2, <2>3, <2>4
  <2> HIDE DEF x, y, d
  <2>6. (g + 1) * (2 * y) = 2 * (g * y) + 2 * y
    BY <1>1, <2>1
  <2>7. 2 * x + y \in Nat /\ 2 * y \in Nat \ {0} /\ 2 * x + y < (g + 1) * (2 * y)
    BY <1>1, <2>1, <2>4, <2>5, <2>6
  <2>8. (2 * x + y) \div (2 * y) \in 0..g
    BY <1>1, <2>7, QuotientAtMost
  <2>9. Average(r) = (2 * x + y) \div (2 * y)
    BY <1>3 DEF Average, Rounded, x, y, d
  <2> QED BY <2>8, <2>9
<1> QED BY <1>2, <1>3

LEMMA RaisedFacts ==
    ASSUME NEW p \in Score, NEW alpha \in 1..Scale
    PROVE  Raised(p, alpha) \in Score /\ Raised(p, alpha) > 0
<1>1. Scale \in Nat \ {0} /\ p \in Nat /\ p <= Scale /\ alpha \in Nat /\ alpha >= 1 /\ alpha <= Scale
  BY EngineAssumption DEF Score
<1> DEFINE rest == Scale - p
           q == (rest * alpha) \div Scale
<1>2. rest \in Nat
  BY <1>1
<1>3. rest * alpha \in Nat /\ rest * alpha <= rest * Scale /\ rest * Scale \in Nat
  BY <1>1, <1>2, Products
<1>4. (rest + 1) * Scale = rest * Scale + Scale
  BY <1>1, <1>2
<1>5. rest * alpha < (rest + 1) * Scale
  BY <1>1, <1>3, <1>4
<1>6. q \in 0..rest
  BY <1>1, <1>2, <1>3, <1>5, QuotientAtMost
<1>7. p = 0 => q > 0
  <2> SUFFICES ASSUME p = 0 PROVE q > 0
    OBVIOUS
  <2>1. rest = Scale
    BY <1>1
  <2>2. Scale * 1 <= Scale * alpha
    BY <1>1, Products
  <2>3. rest * alpha >= Scale
    BY <1>1, <2>1, <2>2
  <2> QED BY <1>1, <1>3, <2>3, QuotientAtLeast
<1>8. Raised(p, alpha) = p + q
  BY DEF Raised
<1> HIDE DEF q
<1> QED BY <1>1, <1>6, <1>7, <1>8 DEF Score

(* An encounter leaves a positive score. *)
LEMMA EncounteredFacts ==
    ASSUME NEW r \in Row, clock \in Time, r.at <= clock, r.count < MaxMeets
    PROVE  /\ Encountered(r) \in Row
           /\ Encountered(r).at = clock /\ Encountered(r).count = r.count + 1
           /\ Encountered(r).avg = Average(r)
           /\ Encountered(r).score > 0
<1>1. r.score \in Score /\ r.count + 1 \in 0..MaxMeets
  BY EngineAssumption DEF Row
<1>2. Average(r) \in Time
  <2>1. MaxClock \in Time /\ r.avg <= MaxClock /\ clock - r.at <= MaxClock
    BY EngineAssumption DEF Row, Time
  <2>2. Average(r) \in 0..MaxClock
    BY <2>1, AverageFacts
  <2> QED BY <2>2 DEF Time
<1>3. Alpha[Average(r)] \in 1..Scale
  BY <1>2, EngineAssumption
<1> HIDE DEF Average
<1>4. Raised(r.score, Alpha[Average(r)]) \in Score /\ Raised(r.score, Alpha[Average(r)]) > 0
  BY <1>1, <1>3, RaisedFacts
<1> QED BY <1>1, <1>2, <1>4 DEF Encountered, Row

(* What is learned from others is not more than certain. *)
LEMMA TransitiveFacts ==
    ASSUME NEW mine \in Score, NEW towards \in Score, NEW theirs \in Score
    PROVE  Transitive(mine, towards, theirs) \in Score
<1>1. /\ Scale \in Nat \ {0} /\ mine \in Nat /\ towards \in Nat /\ theirs \in Nat
      /\ mine <= Scale /\ towards <= Scale /\ theirs <= Scale
  BY EngineAssumption DEF Score
<1> DEFINE rest == Scale - mine
           square == Scale * Scale
           x == rest * towards * theirs
<1>2. rest \in Nat /\ square \in Nat \ {0}
  BY <1>1
<1>3. rest * towards \in Nat /\ rest * towards <= rest * Scale /\ rest * Scale \in Nat
  BY <1>1, <1>2, Products
<1>4. x \in Nat /\ x <= (rest * Scale) * Scale
  BY <1>1, <1>3, Products
<1>5. (rest * Scale) * Scale = rest * square
  BY <1>1, <1>2
<1>6. 4 * Scale * Scale = 4 * square /\ 4 * square \in Nat \ {0}
  BY <1>1, <1>2
<1>7. rest * square \in Nat /\ (rest + 1) * (4 * square) = 4 * (rest * square) + 4 * square
  BY <1>2
<1>8. x <= rest * square
  BY <1>4, <1>5
<1> HIDE DEF square, x, rest
<1>9. x < (rest + 1) * (4 * square)
  BY <1>2, <1>4, <1>7, <1>8
<1>10. x \div (4 * square) \in 0..rest
  BY <1>2, <1>4, <1>6, <1>9, QuotientAtMost
<1>11. Transitive(mine, towards, theirs) = mine + (x \div (4 * square))
  BY <1>6 DEF Transitive, x, rest
<1> QED BY <1>1, <1>10, <1>11 DEF Score, rest

LEMMA LearnedFacts ==
    ASSUME NEW r \in Row, clock \in Time, r.at <= clock, NEW towards \in Score, NEW theirs \in Score
    PROVE  /\ Learned(r, towards, theirs) \in Row
           /\ Learned(r, towards, theirs).count = r.count
           /\ Learned(r, towards, theirs).avg = r.avg
           /\ Learned(r, towards, theirs).at \in {r.at, clock}
<1>1. Decayed(r) \in Score
  BY DecayedFacts
<1>2. Transitive(Decayed(r), towards, theirs) \in Score
  BY <1>1, TransitiveFacts
<1> QED BY <1>2, RefreshedFacts DEF Learned, Row

-----------------------------------------------------------------------------
(* What a step does to a row: of one's own, and of another's table. *)

(* Behind the types: no row, at home or under way, has more encounters than *)
(* there were.                                                              *)
Recorded ==
    /\ \A n, p, t \in Node : scores[n][p][t].count <= meets
    /\ \A f \in wire : f.from # f.to /\ \A t \in Node : f.table[t].count <= meets

Typed == IInv /\ TypeOK /\ Recorded

OwnStep(n, t) ==
    \/ Hear(n, t) /\ scores'[n][n][t] = Refreshed(Encountered(scores[n][n][t]))
    \/ /\ met'[n][t] = met[n][t] /\ gap'[n][t] = gap[n][t]
       /\ \/ scores'[n][n][t] \in {scores[n][n][t], Refreshed(scores[n][n][t])}
          \/ /\ frameId
             /\ \E towards, theirs \in Score :
                  scores'[n][n][t] = Learned(scores[n][n][t], towards, theirs)

Taken(f, t) ==
    [score |-> f.table[t].score, at |-> clock, count |-> f.table[t].count, avg |-> f.table[t].avg]

TheirStep(n, p, t) ==
    \/ scores'[n][p][t] \in {scores[n][p][t], Refreshed(scores[n][p][t])}
    \/ frameId /\ \E f \in wire : scores'[n][p][t] = Taken(f, t)

RowsStep ==
    /\ \A n, t \in Node : OwnStep(n, t)
    /\ \A n, p, t \in Node : p # n => TheirStep(n, p, t)

FramesStep ==
    \A f \in wire' :
        \/ f \in wire
        \/ \E n, p \in Node :
             /\ Hear(n, p)
             /\ f = [to |-> p, from |-> n,
                     table |-> GetMyRoutingTable([scores[n][n] EXCEPT ![p] = Encountered(@)])]

LEMMA RowTypes ==
    ASSUME TypeOK, NEW n \in Node, NEW p \in Node, NEW t \in Node
    PROVE  scores[n][p][t] \in Row /\ scores[n][p][t].at <= clock /\ clock \in Time
BY DEF TypeOK

LEMMA UntouchedRows ==
    ASSUME TypeOK, UNCHANGED <<scores, met, gap>>
    PROVE  RowsStep
BY DEF TypeOK, RowsStep, OwnStep, TheirStep

LEMMA HearRows == ASSUME Typed, NEW n \in Node, NEW p \in Node, Hear(n, p) PROVE RowsStep
<1> DEFINE mine == [scores[n][n] EXCEPT ![p] = Encountered(scores[n][n][p])]
           new == [t \in Node |-> Refreshed(mine[t])]
<1>1. scores' = [scores EXCEPT ![n][n] = new]
  BY DEF Hear
<1>2. \A t \in Node : new[t] = Refreshed(IF t = p THEN Encountered(scores[n][n][p])
                                         ELSE scores[n][n][t])
  BY DEF Typed, TypeOK
<1> HIDE DEF new, mine
<1>4. /\ \A m, q, t \in Node : ~(m = n /\ q = n) => scores'[m][q][t] = scores[m][q][t]
      /\ \A t \in Node : scores'[n][n][t] = new[t]
  BY <1>1 DEF Typed, TypeOK
<1>6. ASSUME NEW m \in Node, NEW t \in Node PROVE OwnStep(m, t)
  <2>1. CASE m = n /\ t = p
    BY <1>2, <1>4, <2>1 DEF OwnStep
  <2>2. CASE ~(m = n /\ t = p)
    <3>1. met'[m][t] = met[m][t] /\ gap'[m][t] = gap[m][t]
      BY <2>2 DEF Hear, Typed, TypeOK
    <3>2. scores'[m][m][t] \in {scores[m][m][t], Refreshed(scores[m][m][t])}
      BY <1>2, <1>4, <2>2
    <3> QED BY <3>1, <3>2 DEF OwnStep
  <2> QED BY <2>1, <2>2
<1>7. \A m, q, t \in Node : q # m => TheirStep(m, q, t)
  BY <1>4 DEF TheirStep
<1> QED BY <1>6, <1>7 DEF RowsStep

LEMMA ReceiveRows == ASSUME Typed, NEW f \in wire, Receive(f) PROVE RowsStep
<1>1. CASE ~frameId
  BY <1>1, UntouchedRows DEF Receive, Typed
<1>2. CASE frameId
  <2> DEFINE n == f.to
             p == f.from
             towards == Decayed(scores[n][n][p])
             Mine(t) == IF t = p THEN Refreshed(scores[n][n][p])
                        ELSE IF towards = 0 \/ t = n \/ f.table[t].score = 0 THEN scores[n][n][t]
                        ELSE Learned(scores[n][n][t], towards, f.table[t].score)
             own == [t \in Node |-> Mine(t)]
             theirs == Stored(scores[n][p], f.table, p)
  <2>1. /\ n \in Node /\ p \in Node /\ p # n
        /\ \A t \in Node : f.table[t].score \in Score
    <3>1. f \in Frame
      BY DEF Typed, TypeOK
    <3> QED BY <3>1 DEF Typed, Recorded, Frame, Entry
  <2>2. towards \in Score
    BY <2>1, RowTypes, DecayedFacts DEF Typed
  <2>3. scores' = [scores EXCEPT ![n] =
                    [q \in Node |-> IF q = p THEN theirs
                                    ELSE IF q = n THEN own ELSE scores[n][q]]]
    BY <1>2 DEF Receive, UpdateTransitivity
  <2>4. UNCHANGED <<met, gap>>
    BY DEF Receive
  <2>5. ASSUME NEW t \in Node
        PROVE  \/ own[t] \in {scores[n][n][t], Refreshed(scores[n][n][t])}
               \/ \E tw, th \in Score : own[t] = Learned(scores[n][n][t], tw, th)
    <3> HIDE DEF towards
    <3>1. own[t] = Mine(t)
      OBVIOUS
    <3>2. CASE t = p
      BY <3>1, <3>2
    <3>3. CASE t # p /\ (towards = 0 \/ t = n \/ f.table[t].score = 0)
      BY <3>1, <3>3
    <3>4. CASE t # p /\ ~(towards = 0 \/ t = n \/ f.table[t].score = 0)
      BY <2>1, <2>2, <3>1, <3>4
    <3> QED BY <3>2, <3>3, <3>4
  <2>6. \A t \in Node : theirs[t] = scores[n][p][t] \/ theirs[t] = Taken(f, t)
    BY DEF Stored, Taken
  <2> HIDE DEF own, theirs
  <2>8. /\ \A m, q, t \in Node : m # n \/ (q # n /\ q # p) => scores'[m][q][t] = scores[m][q][t]
        /\ \A t \in Node : scores'[n][n][t] = own[t] /\ scores'[n][p][t] = theirs[t]
    BY <2>1, <2>3 DEF Typed, TypeOK
  <2>10. \A m, t \in Node : OwnStep(m, t)
    <3> SUFFICES ASSUME NEW m \in Node, NEW t \in Node PROVE OwnStep(m, t)
      OBVIOUS
    <3>1. CASE m = n
      BY <1>2, <2>4, <2>5, <2>8, <3>1 DEF OwnStep
    <3>2. CASE m # n
      BY <2>4, <2>8, <3>2 DEF OwnStep
    <3> QED BY <3>1, <3>2
  <2>11. \A m, q, t \in Node : q # m => TheirStep(m, q, t)
    BY <1>2, <2>1, <2>6, <2>8 DEF TheirStep
  <2> QED BY <2>10, <2>11 DEF RowsStep
<1> QED BY <1>1, <1>2

LEMMA QuestionRows ==
    ASSUME Typed, NEW n \in Node, NEW t \in Node, NEW relay \in Node,
           ShouldForwardMessage(n, t, relay)
    PROVE  RowsStep
<1>1. relay # n /\ UNCHANGED <<met, gap>>
  BY DEF ShouldForwardMessage, Asks
<1>2. ASSUME NEW m \in Node, NEW q \in Node, NEW u \in Node
      PROVE  scores'[m][q][u] \in {scores[m][q][u], Refreshed(scores[m][q][u])}
  <2> DEFINE own == Refreshed(scores[n][n][t])
             theirs == Refreshed(scores[n][relay][t])
  <2>1. scores' = [scores EXCEPT ![n][n][t] = own, ![n][relay][t] = theirs]
    BY DEF ShouldForwardMessage, Asks, Typed, TypeOK
  <2> HIDE DEF own, theirs
  <2>2. scores'[m][q][u] = IF m = n /\ q = n /\ u = t THEN own
                           ELSE IF m = n /\ q = relay /\ u = t THEN theirs
                           ELSE scores[m][q][u]
    BY <1>1, <2>1 DEF Typed, TypeOK
  <2> QED BY <2>2 DEF own, theirs
<1> QED BY <1>1, <1>2 DEF RowsStep, OwnStep, TheirStep

LEMMA EngineStep == Typed /\ [Next]_vars => RowsStep /\ FramesStep
<1> SUFFICES ASSUME Typed, [Next]_vars PROVE RowsStep /\ FramesStep
  OBVIOUS
<1>1. CASE UNCHANGED vars \/ Tick \/ \E f \in wire : Lose(f)
  <2>1. UNCHANGED <<scores, met, gap>> /\ wire' \subseteq wire
    BY <1>1 DEF vars, Tick, Lose
  <2> QED BY <2>1, UntouchedRows DEF Typed, FramesStep
<1>2. ASSUME NEW n \in Node, NEW p \in Node, Hear(n, p) PROVE RowsStep /\ FramesStep
  BY <1>2, HearRows DEF FramesStep, Hear
<1>3. ASSUME NEW f \in wire, Receive(f) PROVE RowsStep /\ FramesStep
  BY <1>3, ReceiveRows DEF FramesStep, Receive
<1>4. ASSUME NEW n \in Node, NEW t \in Node, NEW relay \in Node, ShouldForwardMessage(n, t, relay)
      PROVE  RowsStep /\ FramesStep
  BY <1>4, QuestionRows DEF FramesStep, ShouldForwardMessage
<1> QED BY <1>1, <1>2, <1>3, <1>4 DEF Next

-----------------------------------------------------------------------------
(* The table sent after an encounter. *)
LEMMA TableFacts ==
    ASSUME Typed, NEW n \in Node, NEW p \in Node, Hear(n, p)
    PROVE  LET sent == GetMyRoutingTable([scores[n][n] EXCEPT ![p] = Encountered(@)]) IN
           sent \in [Node -> Entry] /\ \A t \in Node : sent[t].count <= meets + 1
<1> DEFINE mine == [scores[n][n] EXCEPT ![p] = Encountered(scores[n][n][p])]
<1>1. /\ meets \in Nat /\ MaxMeets \in Nat /\ meets < MaxMeets /\ clock \in Time
      /\ \A t \in Node : /\ scores[n][n][t] \in Row /\ scores[n][n][t].at <= clock
                         /\ scores[n][n][t].count <= meets
  BY EngineAssumption DEF Hear, Typed, TypeOK, Recorded
<1>2. ASSUME NEW t \in Node
      PROVE  mine[t] \in Row /\ mine[t].at <= clock /\ mine[t].count <= meets + 1
  <2>1. scores[n][n][t].count \in Nat /\ scores[n][n][t].at \in Nat /\ clock \in Nat
    BY <1>1 DEF Row, Time
  <2>2. CASE t = p
    <3>1. mine[t] = Encountered(scores[n][n][t])
      BY <2>2 DEF Typed, TypeOK
    <3>2. scores[n][n][t].count < MaxMeets
      BY <1>1, <2>1
    <3> QED BY <1>1, <2>1, <3>1, <3>2, EncounteredFacts
  <2>3. CASE t # p
    <3>1. mine[t] = scores[n][n][t]
      BY <2>3 DEF Typed, TypeOK
    <3> QED BY <1>1, <2>1, <3>1
  <2> QED BY <2>2, <2>3
<1> DEFINE sent == GetMyRoutingTable(mine)
<1>3. sent = [t \in Node |-> [score |-> Decayed(mine[t]), count |-> mine[t].count,
                              avg |-> mine[t].avg]]
  BY DEF GetMyRoutingTable
<1> HIDE DEF mine, sent
<1>4. \A t \in Node : Decayed(mine[t]) \in Score
  BY <1>1, <1>2, DecayedFacts
<1>5. sent \in [Node -> Entry] /\ \A t \in Node : sent[t].count <= meets + 1
  BY <1>2, <1>3, <1>4 DEF Row, Entry
<1> QED BY <1>5 DEF sent, mine

LEMMA MeetsStep ==
    ASSUME Typed, [Next]_vars
    PROVE  /\ clock' \in Time /\ clock <= clock' /\ meets' \in 0..MaxMeets /\ meets <= meets'
           /\ clock \in Nat /\ meets \in Nat
           /\ \A n, p \in Node : Hear(n, p) => meets' = meets + 1 /\ meets < MaxMeets
           /\ frameId' = frameId
<1>1. clock \in 0..MaxClock /\ MaxClock \in Nat /\ meets \in 0..MaxMeets /\ MaxMeets \in Nat
  BY EngineAssumption DEF Typed, TypeOK, Time
<1>2. CASE \E n, p \in Node : Hear(n, p)
  <2>1. clock' = clock /\ frameId' = frameId /\ meets < MaxMeets /\ meets' = meets + 1
    BY <1>2 DEF Hear
  <2> QED BY <1>1, <2>1 DEF Time
<1>3. CASE ~\E n, p \in Node : Hear(n, p)
  <2>1. /\ frameId' = frameId /\ meets' = meets
        /\ clock' = clock \/ (clock < MaxClock /\ clock' = clock + 1)
    BY <1>3 DEF Next, vars, Receive, Lose, ShouldForwardMessage, Tick
  <2> QED BY <1>1, <1>3, <2>1 DEF Time
<1> QED BY <1>2, <1>3

LEMMA RowTypeStep ==
    ASSUME Typed, [Next]_vars, NEW n \in Node, NEW p \in Node, NEW t \in Node
    PROVE  /\ scores'[n][p][t] \in Row
           /\ scores'[n][p][t].at <= clock'
           /\ scores'[n][p][t].count <= meets'
<1> DEFINE r == scores[n][p][t]
           s == scores'[n][p][t]
<1>1. RowsStep /\ r \in Row /\ r.at <= clock /\ clock \in Time /\ r.count <= meets
  BY EngineStep, RowTypes DEF Typed, Recorded
<1>2. /\ clock <= clock' /\ meets <= meets' /\ clock \in Nat /\ clock' \in Nat
      /\ meets \in Nat /\ meets' \in Nat /\ MaxMeets \in Nat
  BY MeetsStep, EngineAssumption DEF Time
<1>3. r.at \in Nat /\ r.count \in Nat
  BY <1>1 DEF Row, Time
<1> SUFFICES s \in Row /\ s.at <= clock' /\ s.count <= meets'
  OBVIOUS
<1> HIDE DEF r, s
<1>4. ASSUME s \in Row, s.at \in {r.at, clock}, s.count = r.count
      PROVE  s \in Row /\ s.at <= clock' /\ s.count <= meets'
  BY <1>1, <1>2, <1>3, <1>4
<1>5. CASE s = r
  BY <1>1, <1>4, <1>5
<1>6. CASE s = Refreshed(r)
  BY <1>1, <1>4, <1>6, RefreshedFacts
<1>7. CASE p = n /\ Hear(n, t) /\ s = Refreshed(Encountered(r))
  <2>1. meets' = meets + 1 /\ meets < MaxMeets
    BY <1>7, MeetsStep
  <2>2. r.count < MaxMeets
    BY <1>1, <1>2, <1>3, <2>1
  <2>3. /\ Encountered(r) \in Row /\ Encountered(r).at = clock
        /\ Encountered(r).count = r.count + 1
    BY <1>1, <2>2, EncounteredFacts
  <2>4. s \in Row /\ s.count = r.count + 1 /\ s.at = clock
    BY <1>1, <1>2, <1>7, <2>3, RefreshedFacts
  <2> QED BY <1>1, <1>2, <1>3, <2>1, <2>4
<1>8. CASE \E towards, theirs \in Score : s = Learned(r, towards, theirs)
  BY <1>1, <1>4, <1>8, LearnedFacts
<1>9. CASE \E f \in wire : s = Taken(f, t)
  <2>1. PICK f \in wire : s = Taken(f, t)
    BY <1>9
  <2>2. f \in Frame /\ f.table[t].count <= meets
    BY DEF Typed, TypeOK, Recorded
  <2>3. f.table[t] \in Entry
    BY <2>2 DEF Frame
  <2>4. s \in Row /\ s.at = clock /\ s.count <= meets /\ s.count \in Nat
    BY <1>1, <2>1, <2>2, <2>3 DEF Taken, Entry, Row
  <2> QED BY <1>2, <2>4
<1>10. \/ s = r \/ s = Refreshed(r)
       \/ p = n /\ Hear(n, t) /\ s = Refreshed(Encountered(r))
       \/ \E towards, theirs \in Score : s = Learned(r, towards, theirs)
       \/ \E f \in wire : s = Taken(f, t)
  <2>1. CASE p = n
    <3>1. OwnStep(n, t)
      BY <1>1 DEF RowsStep
    <3> QED BY <2>1, <3>1 DEF OwnStep, r, s
  <2>2. CASE p # n
    <3>1. TheirStep(n, p, t)
      BY <1>1, <2>2 DEF RowsStep
    <3> QED BY <3>1 DEF TheirStep, r, s
  <2> QED BY <2>1, <2>2
<1> QED BY <1>5, <1>6, <1>7, <1>8, <1>9, <1>10

LEMMA TypedStep == Typed /\ [Next]_vars => Typed'
<1> SUFFICES ASSUME Typed, [Next]_vars PROVE Typed'
  OBVIOUS
<1>1. IInv'
  BY NextSourced DEF Typed
<1>2. FramesStep /\ meets' \in 0..MaxMeets /\ meets' \in Nat /\ meets \in Nat /\ meets <= meets'
  BY EngineStep, MeetsStep, EngineAssumption
<1>3. scores' \in [Node -> [Node -> [Node -> Row]]]
  <2>1. /\ scores' = [n \in Node |-> scores'[n]]
        /\ \A n \in Node : scores'[n] = [p \in Node |-> scores'[n][p]]
        /\ \A n, p \in Node : scores'[n][p] = [t \in Node |-> scores'[n][p][t]]
    BY <1>1 DEF IInv, Shape
  <2>2. \A n, p \in Node : scores'[n][p] \in [Node -> Row]
    BY <2>1, RowTypeStep
  <2>3. \A n \in Node : scores'[n] \in [Node -> [Node -> Row]]
    BY <2>1, <2>2
  <2> QED BY <2>1, <2>3
<1>4. ASSUME NEW f \in wire'
      PROVE  f \in Frame /\ f.from # f.to /\ \A t \in Node : f.table[t].count <= meets'
  <2>1. CASE f \in wire
    <3>1. f \in Frame /\ f.from # f.to /\ \A t \in Node : f.table[t].count <= meets
      BY <2>1 DEF Typed, TypeOK, Recorded
    <3>2. \A t \in Node : f.table[t].count \in Nat
      BY <3>1 DEF Frame, Entry
    <3> QED BY <1>2, <3>1, <3>2
  <2>2. ASSUME NEW n \in Node, NEW p \in Node, Hear(n, p),
               f = [to |-> p, from |-> n,
                    table |-> GetMyRoutingTable([scores[n][n] EXCEPT ![p] = Encountered(@)])]
        PROVE  f \in Frame /\ f.from # f.to /\ \A t \in Node : f.table[t].count <= meets'
    <3> DEFINE sent == GetMyRoutingTable([scores[n][n] EXCEPT ![p] = Encountered(@)])
    <3>1. sent \in [Node -> Entry] /\ \A t \in Node : sent[t].count <= meets + 1
      BY <2>2, TableFacts
    <3>2. meets' = meets + 1 /\ n # p
      BY <2>2 DEF Hear
    <3>3. f = [to |-> p, from |-> n, table |-> sent]
      BY <2>2
    <3> HIDE DEF sent
    <3> QED BY <3>1, <3>2, <3>3 DEF Frame
  <2> QED BY <1>2, <2>1, <2>2 DEF FramesStep
<1>5. /\ met' \in [Node -> [Node -> Time \cup {Never}]]
      /\ gap' \in [Node -> [Node -> Time]]
  <2>1. CASE UNCHANGED <<met, gap>>
    BY <2>1 DEF Typed, TypeOK
  <2>2. ASSUME NEW n \in Node, NEW p \in Node, Hear(n, p)
        PROVE  /\ met' \in [Node -> [Node -> Time \cup {Never}]]
               /\ gap' \in [Node -> [Node -> Time]]
    <3> DEFINE longest == IF met[n][p] # Never /\ clock - met[n][p] > gap[n][p]
                          THEN clock - met[n][p] ELSE gap[n][p]
    <3>1. met[n][p] \in Time \cup {Never} /\ gap[n][p] \in Time /\ clock \in Time /\ MaxClock \in Nat
      BY EngineAssumption DEF Typed, TypeOK
    <3>2. longest \in Time
      BY <3>1 DEF Time
    <3>3. met' = [met EXCEPT ![n][p] = clock] /\ gap' = [gap EXCEPT ![n][p] = longest]
      BY <2>2 DEF Hear
    <3> HIDE DEF longest
    <3> QED BY <3>1, <3>2, <3>3 DEF Typed, TypeOK
  <2> QED BY <2>1, <2>2 DEF Next, vars, Receive, Lose, ShouldForwardMessage, Tick
<1>6. clock' \in Time /\ frameId' \in FrameIds
  BY MeetsStep DEF Typed, TypeOK
<1> QED BY <1>1, <1>2, <1>3, <1>4, <1>5, <1>6, RowTypeStep DEF Typed, TypeOK, Recorded

LEMMA TypedInit == Init => Typed
<1> SUFFICES ASSUME Init PROVE Typed
  OBVIOUS
<1>1. NoRow \in Row /\ 0 \in Time /\ 0 \in 0..MaxMeets
  BY EngineAssumption DEF NoRow, Row, Score, Time
<1>2. \A n, p, t \in Node : scores[n][p][t] = NoRow
  BY DEF Init
<1>3. TypeOK
  BY <1>1, EngineAssumption DEF Init, TypeOK, NoRow
<1>4. Recorded
  BY <1>2 DEF Init, Recorded, NoRow
<1> QED BY <1>3, <1>4, InitSourced DEF Typed

(* Whatever the engines hear, decay, write back and tell each other, scores *)
(* stay between 0 and Scale, rows are not written in the future, and counts *)
(* and averages within what was counted and timed.                          *)
THEOREM EngineTypeCorrect == Spec => []TypeOK
<1>1. Typed => TypeOK
  BY DEF Typed
<1> QED BY <1>1, TypedInit, TypedStep, PTL DEF Spec

-----------------------------------------------------------------------------
(* What holds of a daemon's own rows, of the time of its last encounter and *)
(* of the longest gap.                                                      *)
OwnRows ==
    \A n, p \in Node :
        /\ met[n][p] <= scores[n][n][p].at
        /\ scores[n][n][p].count > 0 => met[n][p] # Never
        /\ scores[n][n][p].avg <= gap[n][p]

LEMMA OwnRowsStep == Typed /\ OwnRows /\ [Next]_vars => OwnRows'
<1> SUFFICES ASSUME Typed, OwnRows, [Next]_vars, NEW n \in Node, NEW p \in Node
             PROVE  /\ met'[n][p] <= scores'[n][n][p].at
                    /\ scores'[n][n][p].count > 0 => met'[n][p] # Never
                    /\ scores'[n][n][p].avg <= gap'[n][p]
  BY DEF OwnRows
<1> DEFINE r == scores[n][n][p]
           s == scores'[n][n][p]
           m == met[n][p]
<1>1. /\ r \in Row /\ r.at <= clock /\ clock \in Time /\ m \in Time \cup {Never}
      /\ gap[n][p] \in Time /\ r.count <= meets /\ MaxClock \in Nat
      /\ m <= r.at /\ (r.count > 0 => m # Never) /\ r.avg <= gap[n][p]
  BY RowTypes, EngineAssumption DEF Typed, TypeOK, Recorded, OwnRows
<1>2. /\ r.at \in Nat /\ r.count \in Nat /\ r.avg \in Nat /\ clock \in Nat /\ gap[n][p] \in Nat
      /\ m \in Int
  BY <1>1 DEF Row, Time, Never
<1>3. OwnStep(n, p)
  BY EngineStep DEF RowsStep
<1> SUFFICES /\ met'[n][p] <= s.at
             /\ s.count > 0 => met'[n][p] # Never
             /\ s.avg <= gap'[n][p]
  OBVIOUS
<1> HIDE DEF r, s, m
<1>4. CASE Hear(n, p) /\ s = Refreshed(Encountered(r))
  <2> DEFINE g == IF m # Never /\ clock - m > gap[n][p] THEN clock - m ELSE gap[n][p]
  <2>1. met'[n][p] = clock /\ gap'[n][p] = g
    BY <1>4 DEF Hear, Typed, TypeOK, m
  <2>2. g \in Time /\ gap[n][p] <= g /\ (m # Never => clock - m <= g)
    BY <1>1, <1>2 DEF Time, Never
  <2> HIDE DEF g
  <2>3. g \in Nat /\ r.avg <= g /\ (r.count > 0 => clock - r.at <= g)
    BY <1>1, <1>2, <2>2 DEF Time
  <2>4. Average(r) \in 0..g
    BY <1>1, <2>2, <2>3, AverageFacts
  <2>5. r.count < MaxMeets
    <3>1. meets < MaxMeets /\ meets \in Nat /\ MaxMeets \in Nat
      BY <1>4, MeetsStep, EngineAssumption
    <3> QED BY <1>1, <1>2, <3>1
  <2>6. /\ Encountered(r) \in Row /\ Encountered(r).at = clock
        /\ Encountered(r).avg = Average(r)
    BY <1>1, <2>5, EncounteredFacts
  <2>7. s.at = clock /\ s.avg = Average(r)
    BY <1>1, <1>2, <1>4, <2>6, RefreshedFacts
  <2> QED BY <1>1, <1>2, <2>1, <2>3, <2>4, <2>7 DEF Never
<1>5. ASSUME met'[n][p] = m, gap'[n][p] = gap[n][p],
             s.at \in {r.at, clock}, s.count = r.count, s.avg = r.avg
      PROVE  /\ met'[n][p] <= s.at
             /\ s.count > 0 => met'[n][p] # Never
             /\ s.avg <= gap'[n][p]
  BY <1>1, <1>2, <1>5
<1>6. CASE /\ met'[n][p] = m /\ gap'[n][p] = gap[n][p]
           /\ s = r \/ s = Refreshed(r)
              \/ \E towards, theirs \in Score : s = Learned(r, towards, theirs)
  <2>1. s.at \in {r.at, clock} /\ s.count = r.count /\ s.avg = r.avg
    BY <1>1, <1>6, RefreshedFacts, LearnedFacts
  <2> QED BY <1>5, <1>6, <2>1
<1> QED BY <1>3, <1>4, <1>6 DEF OwnStep, r, s, m

(* Whatever restarts the time an average is taken from, the rolling average *)
(* of a peer never exceeds the longest gap between two encounters with it.  *)
THEOREM AveragesWithin == Spec => []AverageWithinGaps
<1>1. Init => OwnRows
  <2> SUFFICES ASSUME Init, NEW n \in Node, NEW p \in Node
               PROVE  /\ met[n][p] <= scores[n][n][p].at
                      /\ scores[n][n][p].count > 0 => met[n][p] # Never
                      /\ scores[n][n][p].avg <= gap[n][p]
    BY DEF OwnRows
  <2>1. met[n][p] = Never /\ scores[n][n][p] = NoRow /\ gap[n][p] = 0
    BY DEF Init
  <2> QED BY <2>1 DEF Never, NoRow
<1>2. Typed /\ OwnRows /\ [Next]_vars => (Typed /\ OwnRows)'
  BY TypedStep, OwnRowsStep
<1>3. OwnRows => AverageWithinGaps
  BY DEF OwnRows, AverageWithinGaps
<1> QED BY <1>1, <1>2, <1>3, TypedInit, PTL DEF Spec

-----------------------------------------------------------------------------
(* As long as no scores are exchanged, a daemon has one for whom it has met, *)
(* and nothing from others.                                                 *)
Strangers ==
    ~frameId => /\ \A n, t \in Node : scores[n][n][t].score = 0 <=> met[n][t] = Never
                /\ \A n, p, t \in Node : p # n => scores[n][p][t].score = 0


LEMMA StrangersStep == Typed /\ Strangers /\ [Next]_vars => Strangers'
<1> SUFFICES ASSUME Typed, Strangers, [Next]_vars, ~frameId'
             PROVE  /\ \A n, t \in Node : scores'[n][n][t].score = 0 <=> met'[n][t] = Never
                    /\ \A n, p, t \in Node : p # n => scores'[n][p][t].score = 0
  BY DEF Strangers
<1>1. ~frameId /\ RowsStep
  BY MeetsStep, EngineStep
<1>2. ASSUME NEW n \in Node, NEW t \in Node
      PROVE  scores'[n][n][t].score = 0 <=> met'[n][t] = Never
  <2> DEFINE r == scores[n][n][t]
  <2>1. r \in Row /\ r.at <= clock /\ clock \in Time /\ (r.score = 0 <=> met[n][t] = Never)
    BY <1>1, RowTypes DEF Typed, Strangers
  <2>2. CASE Hear(n, t) /\ scores'[n][n][t] = Refreshed(Encountered(r))
    <3>1. met'[n][t] = clock /\ met'[n][t] # Never
      BY <2>1, <2>2, EngineAssumption DEF Hear, Typed, TypeOK, Time, Never
    <3>2. r.count < MaxMeets
      <4>1. meets < MaxMeets /\ meets \in Nat /\ MaxMeets \in Nat
        BY <2>2, MeetsStep, EngineAssumption
      <4>2. r.count \in Nat /\ r.count <= meets
        BY <2>1 DEF Row, Typed, Recorded
      <4> QED BY <4>1, <4>2
    <3> HIDE DEF r
    <3>3. Encountered(r) \in Row /\ Encountered(r).at = clock /\ Encountered(r).score > 0
      BY <2>1, <3>2, EncounteredFacts
    <3>4. clock \in Nat
      BY <2>1, EngineAssumption DEF Time
    <3>5. Refreshed(Encountered(r)).score = 0 <=> Encountered(r).score = 0
      BY <2>1, <3>3, <3>4, RefreshedFacts
    <3> QED BY <2>2, <3>1, <3>3, <3>5
  <2>3. CASE met'[n][t] = met[n][t] /\ scores'[n][n][t] \in {r, Refreshed(r)}
    <3>1. Refreshed(r).score = 0 <=> r.score = 0
      BY <2>1, RefreshedFacts
    <3> QED BY <2>1, <2>3, <3>1
  <2> QED BY <1>1, <2>2, <2>3 DEF RowsStep, OwnStep
<1>3. ASSUME NEW n \in Node, NEW p \in Node, NEW t \in Node, p # n
      PROVE  scores'[n][p][t].score = 0
  <2> DEFINE r == scores[n][p][t]
  <2>1. r \in Row /\ r.at <= clock /\ clock \in Time /\ r.score = 0
    BY <1>1, <1>3, RowTypes DEF Typed, Strangers
  <2>2. Refreshed(r).score = 0
    BY <2>1, RefreshedFacts
  <2>3. scores'[n][p][t] \in {r, Refreshed(r)}
    BY <1>1, <1>3 DEF RowsStep, TheirStep
  <2> QED BY <2>1, <2>2, <2>3
<1> QED BY <1>2, <1>3

(* Without the exchange of scores the whole engine decides one thing: from  *)
(* ten hops on, a message is refused by those who have met its destination. *)
THEOREM StrangersCarryOn == Spec => []OnlyStrangersCarryOn
<1>1. Init => Strangers
  BY DEF Init, Strangers, NoRow
<1>2. Typed /\ Strangers /\ [Next]_vars => (Typed /\ Strangers)'
  BY TypedStep, StrangersStep
<1>3. Typed /\ Strangers => OnlyStrangersCarryOn
  <2> SUFFICES ASSUME Typed, Strangers, ~frameId, NEW n \in Node, NEW t \in Node,
                      NEW relay \in Node, NEW hops \in {0, CarrierHops}, Asks(n, t, relay)
               PROVE  ShouldForward(n, t, relay, hops) <=> hops < CarrierHops \/ met[n][t] = Never
    BY DEF OnlyStrangersCarryOn
  <2> DEFINE ours == Decayed(scores[n][n][t])
             theirs == Decayed(scores[n][relay][t])
  <2>1. theirs = 0
    BY ReadsInventNothing DEF Strangers, Asks
  <2>2. ours \in Score /\ (ours = 0 <=> met[n][t] = Never)
    BY RowTypes, DecayedFacts DEF Typed, Strangers
  <2>3. ShouldForward(n, t, relay, hops) <=>
          \/ theirs > ours + ForwardThreshold \/ ours = 0 \/ theirs > 0 \/ hops < CarrierHops
    BY DEF ShouldForward
  <2> HIDE DEF ours, theirs
  <2>4. ~(theirs > ours + ForwardThreshold) /\ ~(theirs > 0)
    BY <2>1, <2>2, EngineAssumption DEF Score
  <2> QED BY <2>2, <2>3, <2>4
<1> QED BY <1>1, <1>2, <1>3, TypedInit, PTL DEF Spec
=============================================================================
