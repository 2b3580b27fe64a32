------------------------------- MODULE MCIpcs -------------------------------
(***************************************************************************)
(* A small instance of Ipcs for TLC.                                       *)
(***************************************************************************)
EXTENDS Ipcs

CONSTANTS controller, other, c1, c2, c3
=============================================================================
