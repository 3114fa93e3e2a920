------------------------------ MODULE MCContacts ------------------------------
(***************************************************************************)
(* One peer with two addresses: the rows share nothing but the timers.     *)
(* The unit is 5 seconds, by which timers and datagrams may be late.  The  *)
(* hour of the cleanup is shortened to 95 seconds, just above the window   *)
(* of `ib scan`; all other constants are the code's.                       *)
(***************************************************************************)
EXTENDS Contacts
=============================================================================
