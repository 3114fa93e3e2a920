------------------------------- MODULE Mailbox -------------------------------
(***************************************************************************)
(* What the daemons promise their users, without any network: a message    *)
(* that was sent may appear in the recipient's inbox, once, and stays.     *)
(***************************************************************************)
EXTENDS Naturals

CONSTANT Message

VARIABLES
    sent,     \* messages `ib send` has handed to the daemon
    arrived   \* [Message -> 0..1], their entries in the recipient's inbox.log

MailboxInit ==
    /\ sent = {}
    /\ arrived = [m \in Message |-> 0]

Send(m) ==
    /\ m \notin sent
    /\ sent' = sent \cup {m}
    /\ UNCHANGED arrived

Arrive(m) ==
    /\ m \in sent /\ arrived[m] = 0
    /\ arrived' = [arrived EXCEPT ![m] = 1]
    /\ UNCHANGED sent

(* A message to oneself is in the inbox when the send command returns. *)
SendAndArrive(m) ==
    /\ m \notin sent /\ arrived[m] = 0
    /\ sent' = sent \cup {m}
    /\ arrived' = [arrived EXCEPT ![m] = 1]

MailboxNext == \E m \in Message : Send(m) \/ Arrive(m) \/ SendAndArrive(m)

MailboxSpec == MailboxInit /\ [][MailboxNext]_<<sent, arrived>>
=============================================================================
