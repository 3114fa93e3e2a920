----------------------------- MODULE MCLifecycle ------------------------------
(***************************************************************************)
(* Processes are alike: a command takes any that has not been used.        *)
(***************************************************************************)
EXTENDS Lifecycle
=============================================================================
