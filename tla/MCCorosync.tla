----------------------------- MODULE MCCorosync -----------------------------
(***************************************************************************)
(* A small instance of Corosync for TLC: all constants are numbers.        *)
(***************************************************************************)
EXTENDS Corosync
=============================================================================
