---------------------------- MODULE ContactsProofs ----------------------------
(***************************************************************************)
(* The properties of Contacts for any number of peers and any timing       *)
(* constants that keep the order the code's have.  Each bound comes from a *)
(* sum that the clock leaves alone: one age grows while a timer runs down. *)
(***************************************************************************)
EXTENDS Contacts, TLAPS

(* last_seen is never older than the last announcement. *)
SeenSince(p) == Known(p) => row[p].seen \in 0..heard[p]

(* An address survives until the sweep, which comes before it is too old;  *)
(* each answer has made it look younger once, by Lifetime at most.         *)
AddressBound(p) ==
    up /\ Addressed(p) =>
        /\ row[p].seen + sweepIn <= Lifetime
        /\ heard[p] <= row[p].seen + answers[p] * Lifetime

(* Heartbeats come regularly; between two of them one more may get lost. *)
Rhythm(p) ==
    missed[p] < 2 => /\ where[p] # Away
                     /\ heard[p] + beat[p] <= (missed[p] + 1) * Interval

(* A peer in earshot for longer than the rest of its interval was heard in it. *)
InTouch(p) ==
    up /\ where[p] # Away /\ steady[p] + beat[p] > Interval =>
        /\ Known(p) /\ row[p].ip = where[p]
        /\ heard[p] + beat[p] <= Interval

PeerInv(p) == SeenSince(p) /\ AddressBound(p) /\ Rhythm(p) /\ InTouch(p)

IInv == TypeOK /\ \A p \in Peer : PeerInv(p)

-----------------------------------------------------------------------------
LEMMA Constants ==
    /\ Beacon \in Nat /\ Sweep \in Nat /\ Jitter \in Nat
    /\ Interval \in Nat /\ Interval >= 1 /\ StaleAfter >= Interval + Interval
    /\ StaleAfter \in Nat /\ StaleAfter > Interval
    /\ ScanWindow \in Nat /\ ScanWindow > StaleAfter
    /\ ForgetAfter \in Nat /\ ForgetAfter > StaleAfter
    /\ MaxAnswers \in Nat /\ Old \in Nat /\ Old > ForgetAfter
    /\ Lifetime \in Nat /\ Lifetime = StaleAfter + Sweep + Jitter
    /\ NoIP \notin Addr /\ Away \notin Addr
BY ContactsAssumption DEF Lifetime, Interval

(* The timers are set within their types. *)
LEMMA Timers ==
    /\ Around(Beacon) \subseteq 1..Interval
    /\ Around(Sweep) \subseteq 1..(Sweep + Jitter)
BY ContactsAssumption DEF Around, Interval

LEMMA OneMore == \A k, m \in Nat : k * m \in Nat /\ (k + 1) * m = k * m + m
OBVIOUS

LEMMA Multiples ==
    ASSUME NEW k \in 0..1
    PROVE  /\ k = 0 => (k + 1) * Interval = Interval
           /\ k = 1 => (k + 1) * Interval = Interval + Interval
BY Constants

LEMMA OlderFacts ==
    ASSUME NEW x \in 0..Old
    PROVE  /\ Older(x) \in 0..Old /\ Older(x) <= x + 1
           /\ \A y \in 0..x : Older(y) <= Older(x)
           /\ x < Old => Older(x) = x + 1
BY Constants DEF Older

(* Addressed rows are rows, and the types of one row. *)
LEMMA RowFacts ==
    ASSUME TypeOK, NEW p \in Peer
    PROVE  /\ row[p] = [seen |-> row[p].seen, ip |-> row[p].ip]
           /\ row[p].seen \in -1..Old /\ row[p].ip \in Addr \cup {NoIP}
           /\ Addressed(p) => Known(p)
           /\ ~Known(p) => row[p].seen = -1 /\ row[p].ip = NoIP
BY DEF TypeOK, Addressed, Known, NoRow

-----------------------------------------------------------------------------
LEMMA InitIInv == Init => IInv
<1> SUFFICES ASSUME Init PROVE IInv
  OBVIOUS
<1>1. TypeOK
  <2>1. up \in BOOLEAN /\ sweepIn \in 0..(Sweep + Jitter)
    BY Timers, Constants DEF Init
  <2> QED
    BY <2>1, Constants DEF Init, TypeOK, NoRow
<1>2. ASSUME NEW p \in Peer PROVE PeerInv(p)
  BY <1>2, Constants DEF Init, PeerInv, SeenSince, AddressBound, Rhythm, InTouch,
     Known, Addressed, NoRow
<1> QED
  BY <1>1, <1>2 DEF IInv

LEMMA HearIInv ==
    ASSUME IInv, NEW q \in Peer, Hear(q)
    PROVE  IInv'
<1>1. /\ up /\ where[q] # Away /\ where[q] \in Addr
      /\ row' = [row EXCEPT ![q] = [seen |-> 0, ip |-> where[q]]]
  BY Constants DEF Hear, UpsertPeer, Coalesce, IInv, TypeOK
<1>2. /\ \E next \in 0..Interval : beat' = [beat EXCEPT ![q] = next]
      /\ heard' = [heard EXCEPT ![q] = 0]
      /\ answers' = [answers EXCEPT ![q] = 0]
      /\ missed' = [missed EXCEPT ![q] = 0]
      /\ UNCHANGED <<up, sweepIn, where, steady>>
  <2>1. PICK next \in IF beat[q] = 0 THEN Around(Beacon) ELSE {beat[q]} :
            beat' = [beat EXCEPT ![q] = next]
    BY DEF Hear
  <2>2. next \in 0..Interval
    <3>1. CASE beat[q] = 0
      BY <2>1, <3>1, Timers, Constants
    <3>2. CASE beat[q] # 0
      BY <2>1, <3>2 DEF IInv, TypeOK
    <3> QED
      BY <3>1, <3>2
  <2> QED
    BY <2>1, <2>2 DEF Hear
<1>3. TypeOK'
  BY <1>1, <1>2, Constants DEF IInv, TypeOK
<1>4. PeerInv(q)'
  <2>1. /\ row'[q] = [seen |-> 0, ip |-> where[q]] /\ heard'[q] = 0 /\ answers'[q] = 0
        /\ missed'[q] = 0 /\ beat'[q] \in 0..Interval /\ sweepIn' \in 0..(Sweep + Jitter)
    BY <1>1, <1>2, <1>3 DEF IInv, TypeOK
  <2>2. SeenSince(q)' /\ InTouch(q)'
    BY <1>1, <1>2, <2>1, Constants DEF SeenSince, InTouch, Known, NoRow
  <2>3. AddressBound(q)'
    <3>1. row'[q].seen = 0 /\ sweepIn' <= Lifetime
      BY <2>1, Constants
    <3>2. answers'[q] * Lifetime = 0
      BY <2>1, Constants
    <3> QED
      BY <2>1, <3>1, <3>2 DEF AddressBound
  <2>4. Rhythm(q)'
    BY <1>1, <1>2, <2>1, Constants, Multiples DEF Rhythm
  <2> QED
    BY <2>2, <2>3, <2>4 DEF PeerInv
<1>5. ASSUME NEW p \in Peer, p # q PROVE PeerInv(p)'
  BY <1>1, <1>2, <1>5 DEF IInv, TypeOK, PeerInv, SeenSince, AddressBound, Rhythm, InTouch,
     Known, Addressed
<1> QED
  BY <1>3, <1>4, <1>5 DEF IInv

LEMMA GoodbyeIInv ==
    ASSUME IInv, NEW q \in Peer, Goodbye(q)
    PROVE  IInv'
<1>1. /\ row' = [row EXCEPT ![q] = NullIP(@)]
      /\ steady' = [steady EXCEPT ![q] = 0]
      /\ UNCHANGED <<up, sweepIn, where, beat, heard, answers, missed>>
  BY DEF Goodbye
<1>2. row'[q] = [seen |-> row[q].seen, ip |-> NoIP]
  BY <1>1, RowFacts DEF IInv, TypeOK, NullIP
<1>3. TypeOK'
  BY <1>1, Constants DEF IInv, TypeOK, NullIP
<1>4. PeerInv(q)'
  <2>1. SeenSince(q)'
    BY <1>1, <1>2, RowFacts DEF IInv, PeerInv, SeenSince, Known, NoRow
  <2>2. AddressBound(q)'
    BY <1>2 DEF AddressBound, Addressed
  <2>3. Rhythm(q)' /\ InTouch(q)'
    BY <1>1, Constants DEF IInv, TypeOK, PeerInv, Rhythm, InTouch
  <2> QED
    BY <2>1, <2>2, <2>3 DEF PeerInv
<1>5. ASSUME NEW p \in Peer, p # q PROVE PeerInv(p)'
  BY <1>1, <1>5 DEF IInv, TypeOK, PeerInv, SeenSince, AddressBound, Rhythm, InTouch,
     Known, Addressed
<1> QED
  BY <1>3, <1>4, <1>5 DEF IInv

LEMMA KeyResponseIInv ==
    ASSUME IInv, NEW q \in Peer, KeyResponse(q)
    PROVE  IInv'
<1>1. /\ up /\ answers[q] < MaxAnswers
      /\ row' = [row EXCEPT ![q] = [seen |-> 0, ip |-> row[q].ip]]
      /\ answers' = [answers EXCEPT ![q] = @ + 1]
      /\ UNCHANGED <<up, sweepIn, where, beat, heard, missed, steady>>
  BY DEF KeyResponse, UpsertPeer, Coalesce, IInv, TypeOK
<1>2. row'[q] = [seen |-> 0, ip |-> row[q].ip] /\ answers'[q] = answers[q] + 1
  BY <1>1 DEF IInv, TypeOK
<1>3. TypeOK'
  BY <1>1, Constants, RowFacts DEF IInv, TypeOK
<1>4. PeerInv(q)'
  <2>1. SeenSince(q)'
    BY <1>1, <1>2 DEF IInv, TypeOK, SeenSince
  <2>2. AddressBound(q)'
    <3> SUFFICES ASSUME Addressed(q)' PROVE AddressBound(q)'
      BY DEF AddressBound
    <3>1. Addressed(q)
      BY <1>2 DEF Addressed
    <3>2. /\ row[q].seen + sweepIn <= Lifetime
          /\ heard[q] <= row[q].seen + answers[q] * Lifetime
      BY <1>1, <3>1 DEF IInv, PeerInv, AddressBound
    <3>3. row[q].seen <= Lifetime
      BY <3>2, RowFacts, Constants DEF IInv, TypeOK
    <3>4. answers[q] \in Nat /\ (answers[q] + 1) * Lifetime = answers[q] * Lifetime + Lifetime
          /\ answers[q] * Lifetime \in Nat
      BY OneMore, Constants DEF IInv, TypeOK
    <3> HIDE DEF Lifetime
    <3>5. heard[q] <= 0 + (answers[q] + 1) * Lifetime
      BY <3>2, <3>3, <3>4, RowFacts, Constants DEF IInv, TypeOK
    <3>6. 0 + sweepIn <= Lifetime
      BY Constants DEF IInv, TypeOK
    <3> QED
      BY <1>1, <1>2, <3>5, <3>6 DEF AddressBound
  <2>3. Rhythm(q)' /\ InTouch(q)'
    BY <1>1, <1>2, Constants DEF IInv, TypeOK, PeerInv, Rhythm, InTouch, Known, NoRow
  <2> QED
    BY <2>1, <2>2, <2>3 DEF PeerInv
<1>5. ASSUME NEW p \in Peer, p # q PROVE PeerInv(p)'
  BY <1>1, <1>5 DEF IInv, TypeOK, PeerInv, SeenSince, AddressBound, Rhythm, InTouch,
     Known, Addressed
<1> QED
  BY <1>3, <1>4, <1>5 DEF IInv

LEMMA StalePeersIInv ==
    ASSUME IInv, StalePeers
    PROVE  IInv'
<1>1. /\ up /\ sweepIn = 0 /\ sweepIn' \in 0..(Sweep + Jitter)
      /\ row' = [p \in Peer |-> IF Stale(row[p]) THEN NullIP(row[p]) ELSE row[p]]
      /\ UNCHANGED <<up, where, beat, heard, answers, missed, steady>>
  BY Timers DEF StalePeers, RemoveInactivePeers
<1>2. TypeOK'
  BY <1>1, Constants DEF IInv, TypeOK, NullIP
<1>3. ASSUME NEW p \in Peer PROVE PeerInv(p)'
  <2>1. /\ Stale(row[p]) => row'[p] = [seen |-> row[p].seen, ip |-> NoIP]
        /\ ~Stale(row[p]) => row'[p] = row[p]
    BY <1>1, RowFacts DEF IInv, TypeOK, NullIP
  <2>2. SeenSince(p)'
    BY <1>1, <2>1, RowFacts DEF IInv, PeerInv, SeenSince, Known, NoRow
  <2>3. AddressBound(p)'
    <3> SUFFICES ASSUME Addressed(p)' PROVE AddressBound(p)'
      BY DEF AddressBound
    <3>1. ~Stale(row[p]) /\ row'[p] = row[p] /\ Addressed(p)
      BY <2>1 DEF Addressed
    <3>2. row[p].seen + sweepIn' <= Lifetime
      BY <1>1, <3>1, RowFacts, Constants DEF Stale, IInv, TypeOK
    <3> QED
      BY <1>1, <3>1, <3>2 DEF IInv, PeerInv, AddressBound
  <2>4. Rhythm(p)'
    BY <1>1 DEF IInv, PeerInv, Rhythm
  <2>5. InTouch(p)'
    <3> SUFFICES ASSUME up, where[p] # Away, steady[p] + beat[p] > Interval
                 PROVE  InTouch(p)'
      BY <1>1 DEF InTouch
    <3>1. Known(p) /\ row[p].ip = where[p] /\ heard[p] + beat[p] <= Interval
      BY DEF IInv, PeerInv, InTouch
    <3>2. row[p].seen <= heard[p]
      BY <3>1, RowFacts DEF IInv, TypeOK, PeerInv, SeenSince
    <3>3. ~Stale(row[p])
      BY <3>1, <3>2, RowFacts, Constants DEF IInv, TypeOK, Stale
    <3> QED
      BY <1>1, <2>1, <3>1, <3>3 DEF InTouch, Known
  <2> QED
    BY <2>2, <2>3, <2>4, <2>5 DEF PeerInv
<1> QED
  BY <1>2, <1>3 DEF IInv

LEMMA CleanupIInv ==
    ASSUME IInv, HourlyCleanup
    PROVE  IInv'
<1>1. /\ up
      /\ row' = [p \in Peer |-> IF row[p].seen > ForgetAfter THEN NoRow ELSE row[p]]
      /\ UNCHANGED <<up, sweepIn, where, beat, heard, answers, missed, steady>>
  BY DEF HourlyCleanup, CleanPeers
<1>2. TypeOK'
  BY <1>1, Constants DEF IInv, TypeOK, NoRow
<1>3. ASSUME NEW p \in Peer PROVE PeerInv(p)'
  <2>1. /\ row[p].seen > ForgetAfter => row'[p] = NoRow
        /\ ~(row[p].seen > ForgetAfter) => row'[p] = row[p]
    BY <1>1
  <2>2. SeenSince(p)' /\ AddressBound(p)' /\ Rhythm(p)'
    BY <1>1, <2>1 DEF IInv, PeerInv, SeenSince, AddressBound, Rhythm, Known, Addressed, NoRow
  <2>3. InTouch(p)'
    <3> SUFFICES ASSUME up, where[p] # Away, steady[p] + beat[p] > Interval
                 PROVE  InTouch(p)'
      BY <1>1 DEF InTouch
    <3>1. Known(p) /\ row[p].ip = where[p] /\ heard[p] + beat[p] <= Interval
      BY DEF IInv, PeerInv, InTouch
    <3>2. row[p].seen <= heard[p]
      BY <3>1, RowFacts DEF IInv, TypeOK, PeerInv, SeenSince
    <3>3. ~(row[p].seen > ForgetAfter)
      BY <3>1, <3>2, RowFacts, Constants DEF IInv, TypeOK
    <3> QED
      BY <1>1, <2>1, <3>1, <3>3 DEF InTouch, Known
  <2> QED
    BY <2>2, <2>3 DEF PeerInv
<1> QED
  BY <1>2, <1>3 DEF IInv

LEMMA NetworkChangeIInv ==
    ASSUME IInv, NetworkChange
    PROVE  IInv'
<1>1. /\ row' = [p \in Peer |-> NullIP(row[p])]
      /\ steady' = [p \in Peer |-> 0]
      /\ UNCHANGED <<up, sweepIn, where, beat, heard, answers, missed>>
  BY DEF NetworkChange, ClearAllPeerIPs
<1>2. TypeOK'
  BY <1>1, Constants DEF IInv, TypeOK, NullIP
<1>3. ASSUME NEW p \in Peer PROVE PeerInv(p)'
  <2>1. row'[p] = [seen |-> row[p].seen, ip |-> NoIP]
    BY <1>1, RowFacts DEF IInv, TypeOK, NullIP
  <2>2. SeenSince(p)'
    BY <1>1, <2>1, RowFacts DEF IInv, PeerInv, SeenSince, Known, NoRow
  <2>3. AddressBound(p)' /\ Rhythm(p)' /\ InTouch(p)'
    BY <1>1, <2>1, Constants DEF IInv, TypeOK, PeerInv, AddressBound, Rhythm, InTouch, Addressed
  <2> QED
    BY <2>2, <2>3 DEF PeerInv
<1> QED
  BY <1>2, <1>3 DEF IInv

LEMMA StopIInv ==
    ASSUME IInv, Stop
    PROVE  IInv'
<1>1. /\ up' = FALSE
      /\ UNCHANGED <<row, sweepIn, where, beat, heard, answers, missed, steady>>
  BY DEF Stop
<1>2. TypeOK'
  BY <1>1 DEF IInv, TypeOK
<1>3. ASSUME NEW p \in Peer PROVE PeerInv(p)'
  BY <1>1 DEF IInv, PeerInv, SeenSince, AddressBound, Rhythm, InTouch, Known
<1> QED
  BY <1>2, <1>3 DEF IInv

LEMMA StartIInv ==
    ASSUME IInv, Start
    PROVE  IInv'
<1>1. /\ row' = [p \in Peer |-> NullIP(CleanPeers[p])]
      /\ sweepIn' \in 0..(Sweep + Jitter) /\ up' = TRUE
      /\ steady' = [p \in Peer |-> 0]
      /\ UNCHANGED <<where, beat, heard, answers, missed>>
  BY Timers DEF Start, ClearAllPeerIPs
<1>2. ASSUME NEW p \in Peer
      PROVE  row'[p] \in [seen : -1..Old, ip : Addr \cup {NoIP}] /\ PeerInv(p)'
  <2>1. \/ row'[p] = NoRow
        \/ row'[p] = [seen |-> row[p].seen, ip |-> NoIP] /\ Known(p)
    BY <1>1, RowFacts DEF CleanPeers, NullIP, NoRow, IInv, TypeOK
  <2>2. row'[p] \in [seen : -1..Old, ip : Addr \cup {NoIP}]
    BY <2>1, RowFacts, Constants DEF IInv, TypeOK, NoRow
  <2>3. SeenSince(p)'
    BY <1>1, <2>1 DEF IInv, PeerInv, SeenSince, Known
  <2>4. AddressBound(p)'
    BY <2>1 DEF AddressBound, Addressed, NoRow
  <2>5. Rhythm(p)' /\ InTouch(p)'
    BY <1>1, Constants DEF IInv, TypeOK, PeerInv, Rhythm, InTouch
  <2> QED
    BY <2>2, <2>3, <2>4, <2>5 DEF PeerInv
<1>3. row' \in [Peer -> [seen : -1..Old, ip : Addr \cup {NoIP}]]
  BY <1>1, <1>2
<1>4. TypeOK'
  BY <1>1, <1>3, Constants DEF IInv, TypeOK
<1> QED
  BY <1>2, <1>4 DEF IInv

LEMMA ArriveIInv ==
    ASSUME IInv, NEW q \in Peer, Arrive(q)
    PROVE  IInv'
<1>1. PICK addr \in Addr, phase \in IF where[q] = Away THEN 0..Interval ELSE {beat[q]} :
         /\ where' = [where EXCEPT ![q] = addr]
         /\ beat' = [beat EXCEPT ![q] = phase]
  BY DEF Arrive
<1>2. /\ steady' = [steady EXCEPT ![q] = 0]
      /\ UNCHANGED <<up, row, sweepIn, heard, answers, missed>>
  BY DEF Arrive
<1>3. phase \in 0..Interval /\ (where[q] # Away => phase = beat[q])
  BY <1>1 DEF IInv, TypeOK
<1>4. TypeOK'
  BY <1>1, <1>2, <1>3, Constants DEF IInv, TypeOK
<1>5. PeerInv(q)'
  <2>1. where'[q] = addr /\ addr # Away /\ beat'[q] = phase /\ steady'[q] = 0
    BY <1>1, <1>2, Constants DEF IInv, TypeOK
  <2>2. SeenSince(q)' /\ AddressBound(q)'
    BY <1>2 DEF IInv, PeerInv, SeenSince, AddressBound, Known, Addressed
  <2>3. Rhythm(q)'
    BY <1>2, <1>3, <2>1 DEF IInv, PeerInv, Rhythm
  <2>4. InTouch(q)'
    BY <1>3, <2>1, Constants DEF InTouch
  <2> QED
    BY <2>2, <2>3, <2>4 DEF PeerInv
<1>6. ASSUME NEW p \in Peer, p # q PROVE PeerInv(p)'
  BY <1>1, <1>2, <1>6 DEF IInv, TypeOK, PeerInv, SeenSince, AddressBound, Rhythm, InTouch,
     Known, Addressed
<1> QED
  BY <1>4, <1>5, <1>6 DEF IInv

LEMMA LeaveIInv ==
    ASSUME IInv, NEW q \in Peer, Leave(q)
    PROVE  IInv'
<1>1. /\ where' = [where EXCEPT ![q] = Away]
      /\ missed' = [missed EXCEPT ![q] = 2]
      /\ steady' = [steady EXCEPT ![q] = 0]
      /\ UNCHANGED <<up, row, sweepIn, beat, heard, answers>>
  BY DEF Leave
<1>2. TypeOK'
  BY <1>1, Constants DEF IInv, TypeOK
<1>3. PeerInv(q)'
  BY <1>1 DEF IInv, TypeOK, PeerInv, SeenSince, AddressBound, Rhythm, InTouch, Known, Addressed
<1>4. ASSUME NEW p \in Peer, p # q PROVE PeerInv(p)'
  BY <1>1, <1>4 DEF IInv, TypeOK, PeerInv, SeenSince, AddressBound, Rhythm, InTouch,
     Known, Addressed
<1> QED
  BY <1>2, <1>3, <1>4 DEF IInv

LEMMA MissIInv ==
    ASSUME IInv, NEW q \in Peer, Miss(q)
    PROVE  IInv'
<1>1. /\ where[q] # Away /\ beat[q] = 0
      /\ \E next \in 0..Interval : beat' = [beat EXCEPT ![q] = next]
      /\ missed' = [missed EXCEPT ![q] = IF @ < 2 THEN @ + 1 ELSE @]
      /\ steady' = [steady EXCEPT ![q] = 0]
      /\ UNCHANGED <<up, row, sweepIn, where, heard, answers>>
  <2>1. PICK next \in Around(Beacon) : beat' = [beat EXCEPT ![q] = next]
    BY DEF Miss
  <2>2. next \in 0..Interval
    BY <2>1, Timers, Constants
  <2> QED
    BY <2>1, <2>2 DEF Miss
<1>2. TypeOK'
  BY <1>1, Constants DEF IInv, TypeOK
<1>3. PeerInv(q)'
  <2>1. SeenSince(q)' /\ AddressBound(q)'
    BY <1>1 DEF IInv, PeerInv, SeenSince, AddressBound, Known, Addressed
  <2>2. Rhythm(q)'
    <3>1. /\ missed'[q] = IF missed[q] < 2 THEN missed[q] + 1 ELSE missed[q]
          /\ missed[q] \in 0..2 /\ beat'[q] \in 0..Interval /\ heard[q] \in Nat
      BY <1>1 DEF IInv, TypeOK
    <3>2. missed[q] < 2 => heard[q] <= (missed[q] + 1) * Interval
      BY <1>1, <3>1, Constants, Multiples DEF IInv, PeerInv, Rhythm
    <3>3. missed[q] < 1 => heard[q] + beat'[q] <= (missed[q] + 1 + 1) * Interval
      BY <3>1, <3>2, Constants, Multiples
    <3> QED
      BY <1>1, <3>1, <3>3 DEF Rhythm
  <2>3. InTouch(q)'
    BY <1>1, Constants DEF IInv, TypeOK, InTouch
  <2> QED
    BY <2>1, <2>2, <2>3 DEF PeerInv
<1>4. ASSUME NEW p \in Peer, p # q PROVE PeerInv(p)'
  BY <1>1, <1>4 DEF IInv, TypeOK, PeerInv, SeenSince, AddressBound, Rhythm, InTouch,
     Known, Addressed
<1> QED
  BY <1>2, <1>3, <1>4 DEF IInv

LEMMA TickIInv ==
    ASSUME IInv, Tick
    PROVE  IInv'
<1>1. /\ up => sweepIn > 0
      /\ \A p \in Peer : where[p] # Away => beat[p] > 0
      /\ sweepIn' = IF up THEN sweepIn - 1 ELSE sweepIn
      /\ row' = [p \in Peer |-> IF Known(p) THEN [row[p] EXCEPT !.seen = Older(@)] ELSE NoRow]
      /\ beat' = [p \in Peer |-> IF where[p] # Away THEN beat[p] - 1 ELSE beat[p]]
      /\ heard' = [p \in Peer |-> Older(heard[p])]
      /\ steady' = [p \in Peer |-> IF steady[p] <= Interval THEN steady[p] + 1 ELSE steady[p]]
      /\ UNCHANGED <<up, where, answers, missed>>
  BY DEF Tick
<1>2. ASSUME NEW p \in Peer
      PROVE  /\ row'[p] \in [seen : -1..Old, ip : Addr \cup {NoIP}]
             /\ heard'[p] \in 0..Old /\ beat'[p] \in 0..Interval
             /\ PeerInv(p)'
  <2>1. heard[p] \in 0..Old /\ beat[p] \in 0..Interval
    BY DEF IInv, TypeOK
  <2>2. heard'[p] = Older(heard[p])
    BY <1>1
  <2>3. heard'[p] \in 0..Old /\ heard'[p] <= heard[p] + 1
    BY <2>1, <2>2, OlderFacts
  <2>4. (where[p] # Away => beat'[p] = beat[p] - 1 /\ beat[p] > 0) /\ beat'[p] \in 0..Interval
    BY <1>1, <2>1, Constants
  <2>5. Known(p) => row[p].seen \in 0..Old
    BY <2>1, Constants DEF IInv, PeerInv, SeenSince
  <2>6. /\ Known(p) => row'[p] = [seen |-> Older(row[p].seen), ip |-> row[p].ip]
        /\ ~Known(p) => row'[p] = NoRow
    BY <1>1, RowFacts DEF IInv, TypeOK
  <2>7. /\ heard[p] \in 0..Old /\ heard'[p] = Older(heard[p])
        /\ heard'[p] \in 0..Old /\ heard'[p] <= heard[p] + 1
        /\ beat[p] \in 0..Interval /\ beat'[p] \in 0..Interval
        /\ where[p] # Away => beat'[p] = beat[p] - 1 /\ beat[p] > 0
        /\ Known(p) => /\ row[p].seen \in 0..Old
                       /\ row'[p] = [seen |-> Older(row[p].seen), ip |-> row[p].ip]
        /\ ~Known(p) => row'[p] = NoRow
    BY <2>1, <2>2, <2>3, <2>4, <2>5, <2>6
  <2>8. SeenSince(p)'
    <3> SUFFICES ASSUME Known(p)' PROVE row'[p].seen \in 0..heard'[p]
      BY DEF SeenSince
    <3>1. Known(p)
      BY <2>7 DEF Known
    <3>2. row[p].seen \in 0..heard[p] /\ row[p].seen \in 0..Old
      BY <2>7, <3>1 DEF IInv, PeerInv, SeenSince
    <3>3. Older(row[p].seen) \in 0..Old /\ Older(row[p].seen) <= Older(heard[p])
      BY <2>7, <3>2, OlderFacts
    <3> QED
      BY <2>7, <3>1, <3>3, Constants
  <2>9. AddressBound(p)'
    <3> SUFFICES ASSUME up, Addressed(p)' PROVE AddressBound(p)'
      BY <1>1 DEF AddressBound
    <3>1. Known(p) /\ Addressed(p)
      BY <2>7 DEF Addressed, NoRow
    <3>2. /\ row[p].seen + sweepIn <= Lifetime
          /\ heard[p] <= row[p].seen + answers[p] * Lifetime
          /\ sweepIn > 0 /\ sweepIn \in Nat /\ sweepIn' = sweepIn - 1
      BY <1>1, <3>1 DEF IInv, TypeOK, PeerInv, AddressBound
    <3>3. row[p].seen < Old
      <4>1. MaxAnswers + 1 \in Nat /\ (MaxAnswers + 1) * Lifetime >= Lifetime
        BY OneMore, Constants
      <4>2. Lifetime < Old
        BY <4>1, ContactsAssumption, OneMore, Constants
      <4> QED
        BY <2>7, <3>1, <3>2, <4>2, Constants
    <3>4. row'[p].seen = row[p].seen + 1
      BY <2>7, <3>1, <3>3, OlderFacts
    <3>5. answers[p] \in Nat /\ answers[p] * Lifetime \in Nat /\ answers'[p] = answers[p]
      BY <1>1, OneMore, Constants DEF IInv, TypeOK
    <3>6. row'[p].seen + sweepIn' <= Lifetime
      BY <2>7, <3>1, <3>2, <3>4, Constants
    <3>7. heard'[p] <= row'[p].seen + answers[p] * Lifetime
      BY <2>7, <3>1, <3>2, <3>4, <3>5
    <3> QED
      BY <3>5, <3>6, <3>7 DEF AddressBound
  <2>10. Rhythm(p)'
    <3> SUFFICES ASSUME missed[p] < 2 PROVE Rhythm(p)'
      BY <1>1 DEF Rhythm
    <3>1. where[p] # Away /\ heard[p] + beat[p] <= (missed[p] + 1) * Interval
      BY DEF IInv, PeerInv, Rhythm
    <3>2. missed[p] + 1 \in Nat /\ (missed[p] + 1) * Interval \in Nat
      BY OneMore, Constants DEF IInv, TypeOK
    <3>3. heard'[p] + beat'[p] <= (missed[p] + 1) * Interval
      BY <2>7, <3>1, <3>2
    <3> QED
      BY <1>1, <3>1, <3>3 DEF Rhythm
  <2>11. InTouch(p)'
    <3> SUFFICES ASSUME up, where[p] # Away, steady'[p] + beat'[p] > Interval
                 PROVE  InTouch(p)'
      BY <1>1 DEF InTouch
    <3>1. steady[p] + beat[p] > Interval
      BY <1>1, <2>7, Constants DEF IInv, TypeOK
    <3>2. Known(p) /\ row[p].ip = where[p] /\ heard[p] + beat[p] <= Interval
      BY <3>1 DEF IInv, PeerInv, InTouch
    <3>3. row'[p].ip = where[p] /\ row'[p].seen # -1
      BY <2>7, <3>2, OlderFacts, Constants
    <3>4. heard'[p] + beat'[p] <= Interval
      BY <2>7, <3>2, Constants
    <3> QED
      BY <1>1, <3>3, <3>4 DEF InTouch, Known, NoRow
  <2>12. row'[p] \in [seen : -1..Old, ip : Addr \cup {NoIP}]
    <3>1. CASE Known(p)
      BY <2>7, <3>1, RowFacts, OlderFacts, Constants DEF IInv, TypeOK
    <3>2. CASE ~Known(p)
      BY <2>7, <3>2, Constants DEF NoRow
    <3> QED
      BY <3>1, <3>2
  <2> QED
    BY <2>7, <2>8, <2>9, <2>10, <2>11, <2>12 DEF PeerInv
<1>3. TypeOK'
  <2>1. row' \in [Peer -> [seen : -1..Old, ip : Addr \cup {NoIP}]]
    BY <1>1, <1>2
  <2>2. beat' \in [Peer -> 0..Interval] /\ heard' \in [Peer -> 0..Old]
    BY <1>1, <1>2
  <2>3. steady' \in [Peer -> 0..Interval + 1] /\ sweepIn' \in 0..(Sweep + Jitter)
    BY <1>1, Constants DEF IInv, TypeOK
  <2> QED
    BY <1>1, <2>1, <2>2, <2>3 DEF IInv, TypeOK
<1> QED
  BY <1>2, <1>3 DEF IInv

LEMMA NextIInv == IInv /\ [Next]_vars => IInv'
<1> SUFFICES ASSUME IInv, [Next]_vars PROVE IInv'
  OBVIOUS
<1>1. CASE UNCHANGED vars
  BY <1>1 DEF vars, IInv, TypeOK, PeerInv, SeenSince, AddressBound, Rhythm, InTouch,
     Known, Addressed
<1>2. CASE \E p \in Peer : Hear(p) \/ Goodbye(p) \/ KeyResponse(p)
  BY <1>2, HearIInv, GoodbyeIInv, KeyResponseIInv
<1>3. CASE StalePeers \/ HourlyCleanup \/ NetworkChange \/ Stop \/ Start
  BY <1>3, StalePeersIInv, CleanupIInv, NetworkChangeIInv, StopIInv, StartIInv
<1>4. CASE \E p \in Peer : Arrive(p) \/ Leave(p) \/ Miss(p)
  BY <1>4, ArriveIInv, LeaveIInv, MissIInv
<1>5. CASE Tick
  BY <1>5, TickIInv
<1> QED
  BY <1>1, <1>2, <1>3, <1>4, <1>5 DEF Next

LEMMA Invariance == Spec => []IInv
BY InitIInv, NextIInv, PTL DEF Spec

(* Ages, timers and counters stay in their ranges: the clock never runs     *)
(* past a heartbeat or a sweep that is due.                                 *)
THEOREM TypeCorrect == Spec => []TypeOK
<1>1. IInv => TypeOK
  BY DEF IInv
<1> QED
  BY <1>1, Invariance, PTL

-----------------------------------------------------------------------------
(* The address of a peer that fell silent is dropped in the time that a     *)
(* sweep and its threshold take, and each key_res in between adds as much.  *)
THEOREM AddressesExpireAlways == Spec => []AddressesExpire
<1>1. IInv => AddressesExpire
  <2> SUFFICES ASSUME IInv, NEW p \in Peer, up, Addressed(p)
               PROVE  heard[p] <= (answers[p] + 1) * Lifetime
    BY DEF AddressesExpire
  <2>1. /\ row[p].seen + sweepIn <= Lifetime
        /\ heard[p] <= row[p].seen + answers[p] * Lifetime
    BY DEF IInv, PeerInv, AddressBound
  <2>2. answers[p] \in Nat /\ (answers[p] + 1) * Lifetime = answers[p] * Lifetime + Lifetime
        /\ answers[p] * Lifetime \in Nat
    BY OneMore, Constants DEF IInv, TypeOK
  <2> QED
    BY <2>1, <2>2, RowFacts, Constants DEF IInv, TypeOK
<1> QED
  BY <1>1, Invariance, PTL

(* Whoever stays in earshot for a heartbeat without a loss is online and    *)
(* has its present address in the table.                                    *)
THEOREM PresentIsReachableAlways == Spec => []PresentIsReachable
<1>1. IInv => PresentIsReachable
  <2> SUFFICES ASSUME IInv, NEW p \in Peer, up, where[p] # Away, steady[p] > Interval
               PROVE  Online(p) /\ row[p].ip = where[p]
    BY DEF PresentIsReachable
  <2>1. steady[p] + beat[p] > Interval
    BY Constants DEF IInv, TypeOK
  <2>2. Known(p) /\ row[p].ip = where[p] /\ heard[p] + beat[p] <= Interval
    BY <2>1 DEF IInv, PeerInv, InTouch
  <2>3. row[p].seen <= heard[p]
    BY <2>2, RowFacts DEF IInv, TypeOK, PeerInv, SeenSince
  <2> QED
    BY <2>2, <2>3, RowFacts, Constants DEF IInv, TypeOK, Online, Listed
<1> QED
  BY <1>1, Invariance, PTL

(* The sweep never drops a peer that stayed and of whose last two           *)
(* heartbeats one was heard, for timers and datagrams as late as the        *)
(* assumption allows (in milliseconds: by up to 7500).                      *)
THEOREM SweepSparesAlways == Spec => SweepSparesTheLiving
<1>1. ASSUME IInv, StalePeers, NEW p \in Peer, Addressed(p), row'[p].ip = NoIP
      PROVE  missed[p] = 2
  <2>1. Stale(row[p])
    BY <1>1 DEF StalePeers, RemoveInactivePeers, Addressed
  <2>2. row[p].seen <= heard[p] /\ heard[p] \in Nat /\ row[p].seen > StaleAfter
    BY <1>1, <2>1, RowFacts DEF IInv, TypeOK, PeerInv, SeenSince, Stale
  <2>3. SUFFICES ASSUME missed[p] \in 0..1 PROVE FALSE
    BY <1>1, Constants DEF IInv, TypeOK
  <2>4. heard[p] + beat[p] <= (missed[p] + 1) * Interval
    BY <1>1, <2>3 DEF IInv, PeerInv, Rhythm
  <2> QED
    BY <1>1, <2>2, <2>3, <2>4, Multiples, Constants DEF IInv, TypeOK
<1>2. IInv /\ [Next]_vars => [StalePeers => \A p \in Peer :
          Addressed(p) /\ row'[p].ip = NoIP => missed[p] = 2]_vars
  BY <1>1
<1> QED
  BY <1>2, Invariance, PTL DEF Spec, SweepSparesTheLiving
=============================================================================
