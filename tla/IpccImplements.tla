--------------------------- MODULE IpccImplements ---------------------------
(***************************************************************************)
(* The IPC client implements Call: the refinement mapping.                 *)
(***************************************************************************)
EXTENDS Ipcc

\* A call is open from the moment it has its number until Run delivers the answer;
\* SendRecvAsync is no call.
Stage(c) ==
  CASE caller[c].pc \in {"send", "wait"}  -> "called"
    [] caller[c].pc = "answered"         -> "answered"
    [] caller[c].pc \in {"idle", "async"} -> "idle"

at == [c \in Caller |-> Stage(c)]
number == [c \in Caller |-> caller[c].seqno]

\* Numbers come round again after MaxSeq calls only.
Fresh == MaxCalls <= MaxSeq

C == INSTANCE Call WITH
       Caller <- Caller, Number <- Seqno \ {0}, Fresh <- Fresh,
       at <- at, number <- number, served <- served

\* SendRecv is a remote call: numbers of open calls differ, nothing is answered that
\* was not asked, and a caller is answered only if the server has answered its number
\* (and, unless the numbers come round, has done so since the call), whatever is
\* reordered, answered twice, coalesced by the socket or overwritten in the buffer.
ImplementsCall == C!Spec
=============================================================================
