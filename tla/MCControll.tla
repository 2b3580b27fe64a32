----------------------------- MODULE MCControll -----------------------------
(***************************************************************************)
(* Small instances of Controll for TLC: all constants are numbers.         *)
(***************************************************************************)
EXTENDS Controll
=============================================================================
