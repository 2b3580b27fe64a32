----------------------------- MODULE MCShutdown -----------------------------
(***************************************************************************)
(* Both daemons of Shutdown for TLC: all constants are values.             *)
(***************************************************************************)
EXTENDS Shutdown
=============================================================================
