------------------------------- MODULE Contacts -------------------------------
(***************************************************************************)
(* The peers table of one daemon in real time: heartbeats that get lost,   *)
(* goodbyes, the stale-peer sweep, the hourly cleanup, restarts, network   *)
(* changes, and the answers of key discovery, which write to the same rows *)
(* (db/messages.js, db/cleanup.js, daemon/udp.js, daemon/index.js).        *)
(*                                                                         *)
(* Time passes in units, which may be milliseconds, and only when nothing  *)
(* is due; what happens within a unit happens in any order.  No period is  *)
(* exact: setInterval fires late and drifts, datagrams are under way for a *)
(* while, and of either only the difference to the one before counts here. *)
(***************************************************************************)
EXTENDS Integers

CONSTANTS
    Peer, Addr,
    Beacon,        \* BROADCAST_INTERVAL_MS, 15 s
    Sweep,         \* STALE_PEER_INTERVAL_MS, 20 s
    StaleAfter,    \* STALE_PEER_THRESHOLD_MS, 45 s
    ScanWindow,    \* SCAN_FRESHNESS_MS, 90 s
    ForgetAfter,   \* cleanExpired's hour
    Jitter,        \* how far a period may be off, for late timers and datagrams
    MaxAnswers,    \* bound: key_res about one peer while it is not heard
    Old            \* bound: ages are not told apart from here on

NoIP == "NULL"
Away == "away"
NoRow == [seen |-> -1, ip |-> NoIP]

(* The times that may pass between two events a period apart. *)
Around(period) == (period - Jitter)..(period + Jitter)

(* The longest time between two heartbeats, as they arrive. *)
Interval == Beacon + Jitter

(* The longest an address may outlive the last sign of its peer. *)
Lifetime == StaleAfter + Sweep + Jitter

ASSUME ContactsAssumption ==
    /\ NoIP \notin Addr /\ Away \notin Addr
    /\ Beacon \in Nat /\ Sweep \in Nat
    /\ Jitter \in Nat /\ Jitter < Beacon /\ Jitter < Sweep
    /\ StaleAfter \in Nat /\ StaleAfter >= 2 * Interval
    /\ ScanWindow \in Nat /\ ScanWindow > StaleAfter
    /\ ForgetAfter \in Nat /\ ForgetAfter > ScanWindow
    /\ MaxAnswers \in Nat
    /\ Old \in Nat /\ Old > ForgetAfter /\ Old > (MaxAnswers + 1) * Lifetime

VARIABLES
    up,        \* is the daemon running?
    row,       \* [Peer -> [seen, ip]], seen: time since last_seen
    sweepIn,   \* time to the next stale-peer sweep
    where,     \* [Peer -> Addr or Away], where a peer in earshot is
    beat,      \* [Peer -> time until its next heartbeat would arrive]
    heard,     \* [Peer -> time since an announcement of it was heard]
    answers,   \* [Peer -> key_res about it since then]
    missed,    \* [Peer -> heartbeats lost since then, up to 2; 2 when it was away]
    steady     \* [Peer -> time it has been in earshot without loss or clearing]

vars == <<up, row, sweepIn, where, beat, heard, answers, missed, steady>>

Older(age) == IF age < Old THEN age + 1 ELSE age

Known(p) == row[p] # NoRow

Addressed(p) == row[p].ip # NoIP

(* `ib scan` lists a peer, and calls it online. *)
Listed(p) == Known(p) /\ row[p].seen < ScanWindow
Online(p) == Listed(p) /\ row[p].seen < StaleAfter

-----------------------------------------------------------------------------
(* SQL statements *)

(* Changed: COALESCE with its arguments swapped. *)
KeepsOldIP(new, old) == IF old # NoIP THEN old ELSE new

Coalesce(new, old) == IF new # NoIP THEN new ELSE old

(* Changed: ON CONFLICT leaves last_seen alone. *)
UpsertAddress(p, ip) ==
    [row EXCEPT ![p] = [seen |-> IF @ = NoRow THEN 0 ELSE @.seen, ip |-> Coalesce(ip, @.ip)]]

(* upsertPeer *)
UpsertPeer(p, ip) == [row EXCEPT ![p] = [seen |-> 0, ip |-> Coalesce(ip, @.ip)]]

(* last_seen < cutoff of removeInactivePeers *)
Stale(r) == r.seen > StaleAfter

(* Changed: the address becomes an empty string. *)
EmptyIP(r) == [r EXCEPT !.ip = ""]

NullIP(r) == [r EXCEPT !.ip = NoIP]

RemoveInactivePeers == [p \in Peer |-> IF Stale(row[p]) THEN NullIP(row[p]) ELSE row[p]]

(* Changed: the addresses of the previous session stay. *)
KeepPeerIPs(rows) == rows

ClearAllPeerIPs(rows) == [p \in Peer |-> NullIP(rows[p])]

(* the last DELETE of cleanExpired *)
CleanPeers == [p \in Peer |-> IF row[p].seen > ForgetAfter THEN NoRow ELSE row[p]]

-----------------------------------------------------------------------------
(* The daemon *)

(* onPeer: an announcement is heard, at the next heartbeat or in between,   *)
(* when p has started or noticed a new network.                             *)
Hear(p) ==
    /\ up /\ where[p] # Away
    /\ row' = UpsertPeer(p, where[p])
    /\ \E next \in IF beat[p] = 0 THEN Around(Beacon) ELSE {beat[p]} :
         beat' = [beat EXCEPT ![p] = next]
    /\ heard' = [heard EXCEPT ![p] = 0]
    /\ answers' = [answers EXCEPT ![p] = 0]
    /\ missed' = [missed EXCEPT ![p] = 0]
    /\ UNCHANGED <<up, sweepIn, where, steady>>

(* onPeerGoodbye: p is about to leave; its interval may still fire in the   *)
(* 200 ms before it closes its socket.                                      *)
Goodbye(p) ==
    /\ up /\ where[p] # Away
    /\ row' = [row EXCEPT ![p] = NullIP(@)]
    /\ steady' = [steady EXCEPT ![p] = 0]
    /\ UNCHANGED <<up, sweepIn, where, beat, heard, answers, missed>>

(* A key_res about p, asked for when p was unknown: upsertPeer without an   *)
(* address makes p look as if it had just been seen.                        *)
KeyResponse(p) ==
    /\ up /\ answers[p] < MaxAnswers
    /\ row' = UpsertPeer(p, NoIP)
    /\ answers' = [answers EXCEPT ![p] = @ + 1]
    /\ UNCHANGED <<up, sweepIn, where, beat, heard, missed, steady>>

StalePeers ==
    /\ up /\ sweepIn = 0
    /\ row' = RemoveInactivePeers
    /\ sweepIn' \in Around(Sweep)
    /\ UNCHANGED <<up, where, beat, heard, answers, missed, steady>>

(* The hourly timer; when it fires is left open. *)
HourlyCleanup ==
    /\ up
    /\ row' = CleanPeers
    /\ UNCHANGED <<up, sweepIn, where, beat, heard, answers, missed, steady>>

(* The watcher's callback. *)
NetworkChange ==
    /\ up
    /\ row' = ClearAllPeerIPs(row)
    /\ steady' = [p \in Peer |-> 0]
    /\ UNCHANGED <<up, sweepIn, where, beat, heard, answers, missed>>

Stop ==
    /\ up /\ up' = FALSE
    /\ UNCHANGED <<row, sweepIn, where, beat, heard, answers, missed, steady>>

(* The daemon starts: cleanup, clearAllPeerIPs, timers. *)
Start ==
    /\ ~up /\ up' = TRUE
    /\ row' = ClearAllPeerIPs(CleanPeers)
    /\ sweepIn' \in Around(Sweep)
    /\ steady' = [p \in Peer |-> 0]
    /\ UNCHANGED <<where, beat, heard, answers, missed>>

-----------------------------------------------------------------------------
(* The others *)

(* p comes into earshot, or changes its address there. *)
Arrive(p) ==
    /\ \E addr \in Addr \ {where[p]},
          phase \in IF where[p] = Away THEN 0..Interval ELSE {beat[p]} :
            /\ where' = [where EXCEPT ![p] = addr]
            /\ beat' = [beat EXCEPT ![p] = phase]
    /\ steady' = [steady EXCEPT ![p] = 0]
    /\ UNCHANGED <<up, row, sweepIn, heard, answers, missed>>

(* p is out of earshot or its daemon down. *)
Leave(p) ==
    /\ where[p] # Away
    /\ where' = [where EXCEPT ![p] = Away]
    /\ missed' = [missed EXCEPT ![p] = 2]
    /\ steady' = [steady EXCEPT ![p] = 0]
    /\ UNCHANGED <<up, row, sweepIn, beat, heard, answers>>

(* A heartbeat that nobody hears here. *)
Miss(p) ==
    /\ where[p] # Away /\ beat[p] = 0
    /\ \E next \in Around(Beacon) : beat' = [beat EXCEPT ![p] = next]
    /\ missed' = [missed EXCEPT ![p] = IF @ < 2 THEN @ + 1 ELSE @]
    /\ steady' = [steady EXCEPT ![p] = 0]
    /\ UNCHANGED <<up, row, sweepIn, where, heard, answers>>

Tick ==
    /\ up => sweepIn > 0
    /\ \A p \in Peer : where[p] # Away => beat[p] > 0
    /\ sweepIn' = IF up THEN sweepIn - 1 ELSE sweepIn
    /\ row' = [p \in Peer |-> IF Known(p) THEN [row[p] EXCEPT !.seen = Older(@)] ELSE NoRow]
    /\ beat' = [p \in Peer |-> IF where[p] # Away THEN beat[p] - 1 ELSE beat[p]]
    /\ heard' = [p \in Peer |-> Older(heard[p])]
    /\ steady' = [p \in Peer |-> IF steady[p] <= Interval THEN steady[p] + 1 ELSE steady[p]]
    /\ UNCHANGED <<up, where, answers, missed>>

-----------------------------------------------------------------------------
Init ==
    /\ up = TRUE /\ sweepIn \in Around(Sweep)
    /\ row = [p \in Peer |-> NoRow]
    /\ where \in [Peer -> Addr \cup {Away}]
    /\ beat \in [Peer -> 0..Interval]
    /\ heard = [p \in Peer |-> Old]
    /\ answers = [p \in Peer |-> 0]
    /\ missed = [p \in Peer |-> 2]
    /\ steady = [p \in Peer |-> 0]

Next ==
    \/ \E p \in Peer : Hear(p) \/ Goodbye(p) \/ KeyResponse(p)
    \/ StalePeers \/ HourlyCleanup \/ NetworkChange \/ Stop \/ Start
    \/ \E p \in Peer : Arrive(p) \/ Leave(p) \/ Miss(p)
    \/ Tick

Spec == Init /\ [][Next]_vars

-----------------------------------------------------------------------------
TypeOK ==
    /\ up \in BOOLEAN
    /\ row \in [Peer -> [seen : -1..Old, ip : Addr \cup {NoIP}]]
    /\ sweepIn \in 0..(Sweep + Jitter)
    /\ where \in [Peer -> Addr \cup {Away}]
    /\ beat \in [Peer -> 0..Interval]
    /\ heard \in [Peer -> 0..Old]
    /\ answers \in [Peer -> 0..MaxAnswers]
    /\ missed \in [Peer -> 0..2]
    /\ steady \in [Peer -> 0..Interval + 1]

(* A peer that falls silent loses its address within 65 s of its last       *)
(* announcement (and what the sweep is late by); every key_res that comes   *)
(* about it meanwhile gives the address, which it says nothing about, as    *)
(* much time again.                                                         *)
AddressesExpire ==
    \A p \in Peer :
        up /\ Addressed(p) => heard[p] <= (answers[p] + 1) * Lifetime

(* The sweep takes no address from a peer that stayed in earshot unless two *)
(* heartbeats in a row were lost, however late timers and datagrams are.    *)
(* (index.js:559 says "3 missed 15s heartbeats"; but the third is due just  *)
(* when the 45 s are over, and being a little late is enough.)  Every other *)
(* write to the row must leave last_seen true for that.                     *)
SweepSparesTheLiving ==
    [][StalePeers => \A p \in Peer :
          Addressed(p) /\ row'[p].ip = NoIP => missed[p] = 2]_vars

(* A peer that has been in earshot for an interval without a loss is online *)
(* in `ib scan`, at its present address, whatever came before: an older     *)
(* address, a sweep, a restart, a change of network, a late key_res.        *)
PresentIsReachable ==
    \A p \in Peer :
        up /\ where[p] # Away /\ steady[p] > Interval =>
            Online(p) /\ row[p].ip = where[p]
=============================================================================
