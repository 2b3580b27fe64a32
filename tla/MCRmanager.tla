----------------------------- MODULE MCRmanager -----------------------------
(***************************************************************************)
(* Small instances of Rmanager for TLC.                                    *)
(***************************************************************************)
EXTENDS Rmanager, TLC

CONSTANT r1

OneShot(n, r, op) ==
  [seqno |-> n, rsc |-> r, op |-> op, repeat |-> FALSE, async |-> FALSE]
Monitor(n, r) ==
  [seqno |-> n, rsc |-> r, op |-> "monitor", repeat |-> TRUE, async |-> TRUE]

\* The life of one resource: start, a recurring monitor and a stop, in any order.
LifeCycle == {OneShot(1, r1, "start"), Monitor(2, r1), OneShot(3, r1, "stop")}

\* A recurring monitor and a stop.
MonitorAndStop == {Monitor(1, r1), OneShot(2, r1, "stop")}

JobSymmetry == Permutations(Job)
=============================================================================
