------------------------------ MODULE Controll ------------------------------
(***************************************************************************)
(* The controller daemon: how controller/main.go and control.go bring the  *)
(* resource up, by status values the channel loop sends to itself.         *)
(*                                                                         *)
(* ProcessRun pushes STARTUP on Status_ch.  The controller says HELLO to   *)
(* the resource manager again and again until a corosync callback has told *)
(* it its node id; then every answer moves it one step on: start the       *)
(* resource, monitor it, wait for events.  Status_ch and ipcClient_ch are  *)
(* drained by the loop whose handlers push on them.                        *)
(*                                                                         *)
(* The resource manager is seen from here: it answers HELLO and each       *)
(* request in turn, and a recurring monitor may report its failure later.  *)
(* ipcc is seen as two queues and the rule by which its Run goroutine      *)
(* tells the answer to a blocked SendRecv from any other message (Ipcc).   *)
(* As in Rmanager, the loop may take its ready channels in any order.      *)
(***************************************************************************)
EXTENDS Integers, Sequences

CONSTANTS
  StatusCap,  \* capacity of Status_ch, 2 in InitBase
  RecvCap,    \* capacity of ipcClient_ch, 12 in ipcc.New
  CoroCap,    \* capacity of the corosync channels, 128 in corosync.Init
  MaxCoro     \* bound: configuration changes corosync reports

ASSUME CapAssumption == {StatusCap, RecvCap, CoroCap} \subseteq Nat \ {0}
ASSUME BoundAssumption == MaxCoro \in Nat

VARIABLES
  main,          \* FALSE until ProcessRun has pushed STARTUP
  loop,          \* where the channel loop is, and the status it is about to push
  status,        \* the status field of Controll
  nodeid,        \* 0 until a corosync callback found out the local id
  step,          \* the next operation of _resourceControl
  Status_ch, ipcClient_ch,
  coro_chan,     \* how many events wait on each corosync channel
  coro_left,     \* configuration changes corosync may still report
  multicast,     \* cluster messages that have not been delivered back
  to_rman,       \* requests on their way to the resource manager
  from_rman,     \* messages on their way back
  clients,       \* the connection the resource manager has for the controller
  monitor        \* the recurring monitor of the resource manager

vars == <<main, loop, status, nodeid, step, Status_ch, ipcClient_ch, coro_chan,
          coro_left, multicast, to_rman, from_rman, clients, monitor>>
coroVars == <<coro_chan, coro_left, multicast>>
rmanVars == <<clients, monitor>>

Status == {"STARTUP", "ALL_CLIENT_UP", "CONTROL_RESOURCE", "OPERATIONAL"}
Coro == {"confchg", "deliver", "totemchg", "quorumchg"}
Idle == [pc |-> "poll", push |-> "none", seqno |-> 0]
Pushing(s) == [pc |-> "push", push |-> s, seqno |-> 0]
Syncing(n) == [pc |-> "sync", push |-> "none", seqno |-> n]

\* A message of the resource manager; HELLO has seqno 0, and the request of step n
\* is the n-th one GetSeqno numbers.
Hello == [types |-> "HELLO", seqno |-> 0]
Response(n) == [types |-> "RESPONSE", seqno |-> n]

Init ==
  /\ main = FALSE /\ loop = Idle
  /\ status = "STARTUP" /\ nodeid = 0 /\ step = 1
  /\ Status_ch = <<>> /\ ipcClient_ch = <<>>
  /\ coro_chan = [c \in Coro |-> 0] /\ coro_left = MaxCoro /\ multicast = 0
  /\ to_rman = <<>> /\ from_rman = <<>>
  /\ clients = "none" /\ monitor = "none"

-----------------------------------------------------------------------------
(* The channel loop.                                                       *)

\* The main goroutine, in ProcessRun.
ProcessRun ==
  /\ ~main /\ main' = TRUE
  /\ Len(Status_ch) < StatusCap /\ Status_ch' = Append(Status_ch, "STARTUP")
  /\ UNCHANGED <<loop, status, nodeid, step, ipcClient_ch, coroVars, to_rman, from_rman,
                 rmanVars>>

\* The loop pushes on the channel it drains.
PushStatus ==
  /\ loop.pc = "push" /\ Len(Status_ch) < StatusCap
  /\ Status_ch' = Append(Status_ch, loop.push)
  /\ loop' = Idle
  /\ UNCHANGED <<main, status, nodeid, step, ipcClient_ch, coroVars, to_rman, from_rman,
                 rmanVars>>

\* Mutants: OPERATIONAL is pushed whatever _resourceControl returned; the next operation
\* is asked for at once, and when the answer comes out of ipcClient_ch.
OperationalAnyway(r) == Pushing("OPERATIONAL")
NextOperation(r) == Pushing(IF r = 0 THEN "OPERATIONAL" ELSE "CONTROL_RESOURCE")

\* "if _r := _ct._resourceControl(); _r == 0"
AfterResourceControl(r) == IF r = 0 THEN Pushing("OPERATIONAL") ELSE Idle

\* Mutant: the case of step 3, which is commented out.
OperationUpTo3(n) == n \in {1, 2, 3}

\* The cases of _resourceControl: 1 is the start, 2 the monitor.
HasOperation(n) == n \in {1, 2}

\* Steps 1 and 2 send a request and block in SendRecv; then nothing is left to do.
_resourceControl ==
  IF HasOperation(step)
  THEN /\ to_rman' = Append(to_rman, Response(step))
       /\ loop' = Syncing(step)
  ELSE /\ loop' = AfterResourceControl(0)
       /\ UNCHANGED to_rman

\* The handler of Status_ch.
_processStatus ==
  /\ loop = Idle /\ Status_ch # <<>>
  /\ Status_ch' = Tail(Status_ch)
  /\ \/ /\ Head(Status_ch) = "STARTUP"
        /\ status' = "ALL_CLIENT_UP"
        /\ to_rman' = Append(to_rman, Hello)
        /\ UNCHANGED loop
     \/ /\ Head(Status_ch) = "CONTROL_RESOURCE"
        /\ _resourceControl
        /\ UNCHANGED status
     \/ /\ Head(Status_ch) \notin {"STARTUP", "CONTROL_RESOURCE"}
        /\ UNCHANGED <<status, to_rman, loop>>
  /\ UNCHANGED <<main, nodeid, step, ipcClient_ch, coroVars, from_rman, rmanVars>>

\* SendRecv has the answer: it goes to ipcClient_ch, SendRecv and _resourceControl
\* return.
SendRecvReturns ==
  /\ loop.pc = "answered" /\ Len(ipcClient_ch) < RecvCap
  /\ ipcClient_ch' = Append(ipcClient_ch, Response(loop.seqno))
  /\ step' = step + 1
  /\ loop' = AfterResourceControl(1)
  /\ UNCHANGED <<main, status, nodeid, Status_ch, coroVars, to_rman, from_rman, rmanVars>>

\* Mutants: the node id is not looked at; HELLO is not repeated.
HelloIgnoresNodeid(m) == "CONTROL_RESOURCE"
HelloOnce(m) == IF m.types = "HELLO" /\ nodeid = 0 THEN "ALL_CLIENT_UP" ELSE "CONTROL_RESOURCE"

\* The status a message of the resource manager leads to.
NextStatus(m) == IF m.types = "HELLO" /\ nodeid = 0 THEN "STARTUP" ELSE "CONTROL_RESOURCE"

_processIpcClientMessage ==
  /\ loop = Idle /\ ipcClient_ch # <<>>
  /\ ipcClient_ch' = Tail(ipcClient_ch)
  /\ loop' = Pushing(NextStatus(Head(ipcClient_ch)))
  /\ UNCHANGED <<main, status, nodeid, step, Status_ch, coroVars, to_rman, from_rman, rmanVars>>

\* GetLocalId may find no id yet, and returns an uninitialized variable when
\* cpg_local_get fails: 1 stands for any number but 0.
GetLocalId == {0, 1}

\* The node id is asked for until it is not 0.
_setNodeid == nodeid' \in IF nodeid = 0 THEN GetLocalId ELSE {nodeid}

\* A configuration change is answered by a message to the cluster.
SendClusterMessage(c) == multicast' = IF c = "confchg" THEN multicast + 1 ELSE multicast

\* The handlers of the corosync channels.
_processCoro(c) ==
  /\ loop = Idle /\ coro_chan[c] > 0
  /\ coro_chan' = [coro_chan EXCEPT ![c] = @ - 1]
  /\ IF c = "quorumchg" THEN UNCHANGED nodeid ELSE _setNodeid
  /\ SendClusterMessage(c)
  /\ UNCHANGED <<main, loop, status, step, Status_ch, ipcClient_ch, coro_left, to_rman,
                 from_rman, rmanVars>>

-----------------------------------------------------------------------------
(* corosync: the goroutine of corosync.Run and the callbacks it makes.     *)

\* A membership change is reported on any of these channels.
CoroChange(c) ==
  /\ c # "deliver" /\ coro_left > 0 /\ coro_chan[c] < CoroCap
  /\ coro_left' = coro_left - 1
  /\ coro_chan' = [coro_chan EXCEPT ![c] = @ + 1]
  /\ UNCHANGED <<main, loop, status, nodeid, step, Status_ch, ipcClient_ch, multicast,
                 to_rman, from_rman, rmanVars>>

\* A cluster message is delivered to every member, its sender too.
CoroDeliver ==
  /\ multicast > 0 /\ coro_chan["deliver"] < CoroCap
  /\ multicast' = multicast - 1
  /\ coro_chan' = [coro_chan EXCEPT !["deliver"] = @ + 1]
  /\ UNCHANGED <<main, loop, status, nodeid, step, Status_ch, ipcClient_ch, coro_left,
                 to_rman, from_rman, rmanVars>>

-----------------------------------------------------------------------------
(* ipcc and the resource manager.                                          *)

\* The Run goroutine of ipcc hands the awaited answer to SendRecv, and any other
\* message to the loop.
IpcReceive ==
  /\ from_rman # <<>>
  /\ from_rman' = Tail(from_rman)
  /\ LET m == Head(from_rman) IN
     \/ /\ loop.pc = "sync" /\ m.seqno = loop.seqno
        /\ loop' = [loop EXCEPT !.pc = "answered"]
        /\ UNCHANGED ipcClient_ch
     \/ /\ ~(loop.pc = "sync" /\ m.seqno = loop.seqno)
        /\ Len(ipcClient_ch) < RecvCap
        /\ ipcClient_ch' = Append(ipcClient_ch, m)
        /\ UNCHANGED loop
  /\ UNCHANGED <<main, status, nodeid, step, Status_ch, coroVars, to_rman, rmanVars>>

\* _messageHelloHandler of the resource manager: the connection is put into the
\* map, over an entry that is there already, and HELLO is sent back.
_messageHelloHandler ==
  /\ to_rman # <<>> /\ Head(to_rman) = Hello
  /\ to_rman' = Tail(to_rman)
  /\ clients' = "conn"
  /\ from_rman' = Append(from_rman, Hello)
  /\ UNCHANGED <<main, loop, status, nodeid, step, Status_ch, ipcClient_ch, coroVars, monitor>>

\* The resource manager carries a request out and sends the result; a monitor
\* that succeeded is repeated.
ExecRscOp ==
  /\ to_rman # <<>> /\ Head(to_rman) # Hello
  /\ to_rman' = Tail(to_rman)
  /\ from_rman' = Append(from_rman, Head(to_rman))
  /\ monitor' \in IF Head(to_rman).seqno = 2 THEN {"repeating", "over"} ELSE {monitor}
  /\ UNCHANGED <<main, loop, status, nodeid, step, Status_ch, ipcClient_ch, coroVars, clients>>

\* The recurring monitor fails: a second result, and no further repetition.
MonitorFails ==
  /\ monitor = "repeating" /\ monitor' = "over"
  /\ from_rman' = Append(from_rman, Response(2))
  /\ UNCHANGED <<main, loop, status, nodeid, step, Status_ch, ipcClient_ch, coroVars,
                 to_rman, clients>>

-----------------------------------------------------------------------------
LoopStep ==
  \/ PushStatus \/ _processStatus \/ SendRecvReturns \/ _processIpcClientMessage
  \/ \E c \in Coro : _processCoro(c)

Next ==
  \/ ProcessRun \/ LoopStep
  \/ \E c \in Coro : CoroChange(c)
  \/ CoroDeliver \/ IpcReceive \/ _messageHelloHandler \/ ExecRscOp \/ MonitorFails

Spec == Init /\ [][Next]_vars

(* The loop polls every channel again and again; the resource manager      *)
(* answers (an operation that hangs is timed out, see Rmanager).  corosync *)
(* need not report anything.                                               *)
Fairness ==
  /\ WF_vars(ProcessRun) /\ WF_vars(PushStatus) /\ WF_vars(SendRecvReturns)
  /\ SF_vars(_processStatus) /\ SF_vars(_processIpcClientMessage)
  /\ \A c \in Coro : SF_vars(_processCoro(c))
  /\ WF_vars(IpcReceive) /\ WF_vars(_messageHelloHandler) /\ WF_vars(ExecRscOp)

FairSpec == Spec /\ Fairness

-----------------------------------------------------------------------------
(* Properties.                                                             *)

Message == [types : {"HELLO", "RESPONSE"}, seqno : 0..2]
LoopType == [pc : {"poll", "push", "sync", "answered"}, push : Status \cup {"none"},
             seqno : 0..2]

\* Every variable has the values its Go counterpart can take, and no channel
\* holds more than its capacity.
TypeOK ==
  /\ main \in BOOLEAN /\ loop \in LoopType /\ status \in Status
  /\ nodeid \in {0, 1} /\ step \in 1..3
  /\ Status_ch \in Seq(Status) /\ Len(Status_ch) <= StatusCap
  /\ ipcClient_ch \in Seq(Message) /\ Len(ipcClient_ch) <= RecvCap
  /\ coro_chan \in [Coro -> 0..CoroCap] /\ coro_left \in 0..MaxCoro
  /\ multicast \in 0..MaxCoro
  /\ to_rman \in Seq(Message) /\ from_rman \in Seq(Message)
  /\ clients \in {"none", "conn"} /\ monitor \in {"none", "repeating", "over"}

\* The loop never blocks on a channel that only it drains: however the answers,
\* the late report of the monitor and the corosync events interleave, there is room
\* on Status_ch (2) when a handler pushes on it, and on ipcClient_ch for SendRecv.
NeverBlocksOnItself ==
  /\ loop.pc = "push" => Len(Status_ch) < StatusCap
  /\ loop.pc = "answered" => Len(ipcClient_ch) < RecvCap

\* No resource is touched before the node knows its id: HELLO goes round until a
\* corosync callback has found it out.
NodeidBeforeResources ==
  step > 1 \/ loop.pc = "sync" \/ (\E n \in 1..Len(to_rman) : to_rman[n] # Hello)
    => nodeid # 0

\* Until a monitor that is over may have reported twice, one message at a time is under
\* way between the controller's handlers and the resource manager, in either direction:
\* ipcc, which loses messages that meet in one Read, has none to lose.
OneMessageUnderWay ==
  monitor # "over" => Len(to_rman) + Len(from_rman) + Len(ipcClient_ch) <= 1

\* Once the node id is known the start and the monitor are carried out: no status
\* value, HELLO or answer gets lost on the way.
ReachesOperational == (nodeid # 0) ~> (step = 3)
=============================================================================
