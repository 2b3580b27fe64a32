------------------------------- MODULE MCIpcc -------------------------------
(***************************************************************************)
(* Small instances of Ipcc for TLC.                                        *)
(***************************************************************************)
EXTENDS IpccImplements

CONSTANTS loop, other
=============================================================================
