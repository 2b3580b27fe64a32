------------------------------ MODULE MCChilds ------------------------------
(***************************************************************************)
(* A small instance of Childs for TLC: three children, one pid to spare.   *)
(***************************************************************************)
EXTENDS Childs

MCPids == 1..4
=============================================================================
