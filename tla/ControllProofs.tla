--------------------------- MODULE ControllProofs ---------------------------
(***************************************************************************)
(* The controller, for any number of corosync events and any capacities:   *)
(* it drives the resource by one token that goes round between the loop,   *)
(* its own channels and the resource manager.  A second token is made once *)
(* at most, by the recurring monitor that reports its failure.             *)
(***************************************************************************)
EXTENDS Controll, TLAPS

Elems(s) == {s[n] : n \in 1..Len(s)}

AtMain == IF main THEN 0 ELSE 1
AtLoop == IF loop.pc \in {"push", "answered"} THEN 1 ELSE 0
Extra  == IF monitor = "over" THEN 1 ELSE 0

GoingRound ==
  AtLoop + Len(Status_ch) + Len(to_rman) + Len(from_rman) + Len(ipcClient_ch)

TokenInv == AtMain + GoingRound <= 1 + Extra

InSendRecv == loop.pc \in {"sync", "answered"}

\* The request that is under way is the one _resourceControl waits for, and the monitor
\* exists from the second one on.
StepInv ==
  /\ loop.pc = "push" => loop.push # "none"
  /\ InSendRecv => step \in {1, 2} /\ loop.seqno = step
  /\ step = 1 \/ (step = 2 /\ ~InSendRecv) => monitor = "none"
  /\ \A m \in Elems(to_rman) : m # Hello =>
       loop.pc = "sync" /\ m = Response(step) /\ monitor = "none"

\* As long as the node id is not known, nothing but HELLO goes round.
IdInv ==
  nodeid = 0 =>
    /\ step = 1 /\ ~InSendRecv /\ loop.push # "CONTROL_RESOURCE"
    /\ "CONTROL_RESOURCE" \notin Elems(Status_ch)
    /\ \A m \in Elems(to_rman) \cup Elems(from_rman) \cup Elems(ipcClient_ch) : m = Hello

\* No more cluster messages than configuration changes.
CoroInv == coro_left + coro_chan["confchg"] + coro_chan["deliver"] + multicast <= MaxCoro

Inv == TypeOK /\ TokenInv /\ StepInv /\ IdInv /\ CoroInv

-----------------------------------------------------------------------------
(* Queues.                                                                 *)

LEMMA Appended ==
  ASSUME NEW S, NEW s \in Seq(S), NEW e \in S
  PROVE  /\ Append(s, e) \in Seq(S) /\ Len(Append(s, e)) = Len(s) + 1
         /\ Elems(Append(s, e)) = Elems(s) \cup {e}
  <1>1. /\ Append(s, e) \in Seq(S) /\ Len(Append(s, e)) = Len(s) + 1 /\ Len(s) \in Nat
        /\ \A n \in 1..Len(s) : Append(s, e)[n] = s[n]
        /\ Append(s, e)[Len(s) + 1] = e
    OBVIOUS
  <1>. QED BY <1>1 DEF Elems

LEMMA Taken ==
  ASSUME NEW S, NEW s \in Seq(S), s # <<>>
  PROVE  /\ Head(s) \in S /\ Head(s) \in Elems(s)
         /\ Tail(s) \in Seq(S) /\ Len(Tail(s)) = Len(s) - 1 /\ Len(s) \in Nat \ {0}
         /\ Elems(Tail(s)) \subseteq Elems(s)
         /\ Len(s) = 1 => Elems(Tail(s)) = {}
  <1>1. /\ Head(s) = s[1] /\ s[1] \in S
        /\ Tail(s) \in Seq(S) /\ Len(Tail(s)) = Len(s) - 1 /\ Len(s) \in Nat \ {0}
        /\ \A n \in 1..Len(Tail(s)) : Tail(s)[n] = s[n + 1]
    OBVIOUS
  <1>. QED BY <1>1 DEF Elems

LEMMA NoneIn == ASSUME NEW S, NEW s \in Seq(S) PROVE Len(s) \in Nat /\ (Len(s) = 0 => Elems(s) = {})
  BY DEF Elems

LEMMA Messages ==
  /\ Hello \in Message /\ Hello.types = "HELLO" /\ Hello.seqno = 0
  /\ \A n \in 0..2 : /\ Response(n) \in Message /\ Response(n).types = "RESPONSE"
                     /\ Response(n).seqno = n /\ Response(n) # Hello
  BY DEF Hello, Response, Message

LEMMA Places ==
  /\ Idle \in LoopType /\ Idle.pc = "poll" /\ Idle.push = "none"
  /\ \A s \in Status : Pushing(s) \in LoopType /\ Pushing(s).pc = "push" /\ Pushing(s).push = s
  /\ \A n \in 0..2 : /\ Syncing(n) \in LoopType /\ Syncing(n).pc = "sync" /\ Syncing(n).push = "none"
                     /\ Syncing(n).seqno = n
  <1>1. Idle \in LoopType /\ Idle.pc = "poll" /\ Idle.push = "none"
    BY DEF Idle, LoopType
  <1>2. ASSUME NEW s \in Status
        PROVE  Pushing(s) \in LoopType /\ Pushing(s).pc = "push" /\ Pushing(s).push = s
    BY DEF Pushing, LoopType
  <1>3. ASSUME NEW n \in 0..2
        PROVE  /\ Syncing(n) \in LoopType /\ Syncing(n).pc = "sync" /\ Syncing(n).push = "none"
               /\ Syncing(n).seqno = n
    BY DEF Syncing, LoopType
  <1>. QED BY <1>1, <1>2, <1>3

-----------------------------------------------------------------------------
(* The invariant.                                                          *)

LEMMA StillBelow ==
  ASSUME NEW a \in Int, NEW g \in Int, NEW h \in Int, NEW e \in Int, NEW f \in Int,
         a + g <= 1 + e, h <= g, e <= f
  PROVE  a + h <= 1 + f
  OBVIOUS

\* The queues grow by as much as the loop gives away.
LEMMA TokenMoves ==
  ASSUME TypeOK, TypeOK', TokenInv, UNCHANGED main,
         GoingRound' <= GoingRound,
         monitor = "over" => monitor' = "over"
  PROVE  TokenInv'
  <1>1. /\ Len(Status_ch) \in Nat /\ Len(to_rman) \in Nat /\ Len(from_rman) \in Nat
        /\ Len(ipcClient_ch) \in Nat /\ Len(Status_ch') \in Nat /\ Len(to_rman') \in Nat
        /\ Len(from_rman') \in Nat /\ Len(ipcClient_ch') \in Nat
    BY DEF TypeOK
  <1>2. /\ AtLoop \in 0..1 /\ AtLoop' \in 0..1 /\ AtMain \in 0..1 /\ AtMain' = AtMain
        /\ Extra \in 0..1 /\ Extra' \in 0..1 /\ Extra <= Extra'
    BY DEF AtLoop, AtMain, Extra
  <1>3. GoingRound \in Nat /\ GoingRound' \in Nat
    BY <1>1, <1>2 DEF GoingRound
  <1>4. AtMain + GoingRound <= 1 + Extra
    BY DEF TokenInv
  <1>5. AtMain' + GoingRound' <= 1 + Extra'
    <2>1. /\ AtMain \in Int /\ GoingRound \in Int /\ GoingRound' \in Int
          /\ Extra \in Int /\ Extra' \in Int /\ AtMain' = AtMain
      BY <1>2, <1>3
    <2>2. GoingRound' <= GoingRound /\ Extra <= Extra'
      BY <1>2
    <2>3. AtMain + GoingRound' <= 1 + Extra'
      BY ONLY <1>4, <2>1, <2>2, StillBelow
    <2>. QED BY <2>1, <2>3
  <1>. QED BY <1>5 DEF TokenInv

\* ProcessRun has pushed nothing yet.
LEMMA InvInit == Init => Inv
  <1>. SUFFICES ASSUME Init PROVE Inv
    OBVIOUS
  <1>1. MaxCoro \in Nat /\ {StatusCap, RecvCap, CoroCap} \subseteq Nat \ {0}
    BY CapAssumption, BoundAssumption
  <1>2. TypeOK
    <2>1. /\ <<>> \in Seq(Status) /\ <<>> \in Seq(Message) /\ Len(<<>>) = 0
          /\ "STARTUP" \in Status
      BY DEF Status
    <2>2. [c \in Coro |-> 0] \in [Coro -> 0..CoroCap]
      BY <1>1
    <2>3. /\ main \in BOOLEAN /\ loop \in LoopType /\ status \in Status /\ nodeid \in {0, 1}
          /\ step \in 1..3 /\ coro_chan \in [Coro -> 0..CoroCap]
          /\ coro_left \in 0..MaxCoro /\ multicast \in 0..MaxCoro
          /\ clients \in {"none", "conn"} /\ monitor \in {"none", "repeating", "over"}
      <3>1. loop \in LoopType
        BY Places DEF Init
      <3>2. status \in Status
        BY <2>1 DEF Init
      <3>3. coro_chan \in [Coro -> 0..CoroCap]
        BY <2>2 DEF Init
      <3>4. coro_left \in 0..MaxCoro /\ multicast \in 0..MaxCoro
        BY <1>1 DEF Init
      <3>5. /\ nodeid \in {0, 1} /\ step \in 1..3
            /\ clients \in {"none", "conn"} /\ monitor \in {"none", "repeating", "over"}
        BY DEF Init
      <3>6. main \in BOOLEAN
        BY Zenon DEF Init
      <3>. QED BY <3>1, <3>2, <3>3, <3>4, <3>5, <3>6
    <2>4. /\ Status_ch \in Seq(Status) /\ Len(Status_ch) <= StatusCap
          /\ ipcClient_ch \in Seq(Message) /\ Len(ipcClient_ch) <= RecvCap
          /\ to_rman \in Seq(Message) /\ from_rman \in Seq(Message)
      BY <1>1, <2>1 DEF Init
    <2>. QED BY <2>3, <2>4 DEF TypeOK
  <1>3. Elems(<<>>) = {}
    BY DEF Elems
  <1>4. TokenInv
    BY Places DEF Init, TokenInv, AtMain, GoingRound, AtLoop, Extra
  <1>5. StepInv /\ IdInv
    BY <1>3, Places DEF Init, StepInv, IdInv, InSendRecv
  <1>6. CoroInv
    BY <1>1 DEF Init, CoroInv, Coro
  <1>. QED BY <1>2, <1>4, <1>5, <1>6 DEF Inv

\* The main goroutine and the loop hand the token on.
LEMMA InvLoopStep ==
  ASSUME Inv, \/ ProcessRun \/ PushStatus \/ _processStatus \/ SendRecvReturns
              \/ _processIpcClientMessage
  PROVE  Inv'
  <1>1. /\ Status_ch \in Seq(Status) /\ loop \in LoopType /\ step \in 1..3 /\ nodeid \in {0, 1}
        /\ ipcClient_ch \in Seq(Message) /\ to_rman \in Seq(Message) /\ from_rman \in Seq(Message)
        /\ Len(Status_ch) \in Nat /\ Len(ipcClient_ch) \in Nat
        /\ Len(to_rman) \in Nat /\ Len(from_rman) \in Nat
        /\ StatusCap \in Nat /\ RecvCap \in Nat
    BY CapAssumption DEF Inv, TypeOK
  <1>2. {"STARTUP", "ALL_CLIENT_UP", "CONTROL_RESOURCE", "OPERATIONAL"} \subseteq Status
    BY DEF Status
  <1>3. UNCHANGED <<coroVars, rmanVars>>
    BY DEF ProcessRun, PushStatus, _processStatus, SendRecvReturns, _processIpcClientMessage
  <1>4. CoroInv'
    BY <1>3 DEF Inv, CoroInv, coroVars
  <1>5. CASE ProcessRun
    <2>1. /\ Status_ch' \in Seq(Status) /\ Len(Status_ch') = Len(Status_ch) + 1
          /\ Elems(Status_ch') = Elems(Status_ch) \cup {"STARTUP"}
      BY <1>1, <1>2, <1>5, Appended DEF ProcessRun
    <2>2. TypeOK'
      BY <1>1, <1>3, <1>5, <2>1 DEF ProcessRun, Inv, TypeOK, coroVars, rmanVars
    <2>3. TokenInv'
      BY <1>1, <1>3, <1>5, <2>1 DEF ProcessRun, Inv, TokenInv, AtMain, GoingRound, AtLoop, Extra, rmanVars
    <2>4. StepInv' /\ IdInv'
      BY <1>3, <1>5, <2>1 DEF ProcessRun, Inv, StepInv, IdInv, InSendRecv, rmanVars
    <2>. QED BY <1>4, <2>2, <2>3, <2>4 DEF Inv
  <1>6. CASE PushStatus
    <2>1. loop.push \in Status
      BY <1>1, <1>6 DEF PushStatus, Inv, StepInv, LoopType
    <2>2. /\ Status_ch' \in Seq(Status) /\ Len(Status_ch') = Len(Status_ch) + 1
          /\ Elems(Status_ch') = Elems(Status_ch) \cup {loop.push}
      BY <1>1, <1>6, <2>1, Appended DEF PushStatus
    <2>3. TypeOK'
      BY <1>1, <1>3, <1>6, <2>2, Places DEF PushStatus, Inv, TypeOK, coroVars, rmanVars
    <2>4. TokenInv'
      BY <1>1, <1>3, <1>6, <2>2, Places DEF PushStatus, Inv, TokenInv, AtMain, GoingRound, AtLoop, Extra, rmanVars
    <2>5. StepInv' /\ IdInv'
      BY <1>3, <1>6, <2>2, Places DEF PushStatus, Inv, StepInv, IdInv, InSendRecv, rmanVars
    <2>. QED BY <1>4, <2>3, <2>4, <2>5 DEF Inv
  <1>7. CASE _processStatus
    <2>1. /\ Head(Status_ch) \in Status /\ Head(Status_ch) \in Elems(Status_ch)
          /\ Status_ch' \in Seq(Status) /\ Len(Status_ch') = Len(Status_ch) - 1
          /\ Elems(Status_ch') \subseteq Elems(Status_ch)
          /\ loop = Idle
      BY <1>1, <1>7, Taken DEF _processStatus
    <2>2. UNCHANGED <<main, nodeid, step, ipcClient_ch, from_rman>>
      BY <1>7 DEF _processStatus
    <2>3. CASE /\ Head(Status_ch) = "STARTUP" /\ status' = "ALL_CLIENT_UP"
               /\ to_rman' = Append(to_rman, Hello) /\ UNCHANGED loop
      <3>1. /\ to_rman' \in Seq(Message) /\ Len(to_rman') = Len(to_rman) + 1
            /\ Elems(to_rman') = Elems(to_rman) \cup {Hello}
        BY <1>1, <2>3, Messages, Appended
      <3>2. TypeOK'
        BY <1>1, <1>2, <1>3, <2>1, <2>2, <2>3, <3>1 DEF Inv, TypeOK, coroVars, rmanVars
      <3>3. TokenInv'
        <4>1. GoingRound' <= GoingRound
          <5>1. AtLoop' = AtLoop /\ AtLoop \in Int
            BY <2>3 DEF AtLoop
          <5>2. GoingRound' = AtLoop + (Len(Status_ch) - 1) + (Len(to_rman) + 1) + Len(from_rman)
                              + Len(ipcClient_ch)
            BY <2>1, <2>2, <3>1, <5>1 DEF GoingRound
          <5>3. GoingRound = AtLoop + Len(Status_ch) + Len(to_rman) + Len(from_rman) + Len(ipcClient_ch)
            BY DEF GoingRound
          <5>. QED BY ONLY <1>1, <5>1, <5>2, <5>3
        <4>. QED BY <1>3, <2>2, <3>2, <4>1, TokenMoves DEF Inv, rmanVars
      <3>4. StepInv' /\ IdInv'
        BY <1>3, <2>1, <2>2, <2>3, <3>1 DEF Inv, StepInv, IdInv, InSendRecv, rmanVars
      <3>. QED BY <1>4, <3>2, <3>3, <3>4 DEF Inv
    <2>4. CASE /\ Head(Status_ch) = "CONTROL_RESOURCE" /\ UNCHANGED status /\ step \in {1, 2}
               /\ to_rman' = Append(to_rman, Response(step)) /\ loop' = Syncing(step)
      <3>1. /\ to_rman' \in Seq(Message) /\ Len(to_rman') = Len(to_rman) + 1
            /\ Elems(to_rman') = Elems(to_rman) \cup {Response(step)}
        BY <1>1, <2>4, Messages, Appended
      <3>2. /\ loop' \in LoopType /\ loop'.pc = "sync" /\ loop'.push = "none"
            /\ loop'.seqno = step
        BY <2>4, Places
      <3>3. TypeOK'
        BY <1>1, <1>3, <2>1, <2>2, <2>4, <3>1, <3>2 DEF Inv, TypeOK, coroVars, rmanVars
      <3>4. TokenInv'
        BY <1>1, <1>3, <2>1, <2>2, <3>1, <3>2, <3>3, Places, TokenMoves DEF Inv, GoingRound, AtLoop, rmanVars
      <3>5. StepInv' /\ IdInv'
        BY <1>3, <2>1, <2>2, <2>4, <3>1, <3>2, Places DEF Inv, StepInv, IdInv, InSendRecv, rmanVars
      <3>. QED BY <1>4, <3>3, <3>4, <3>5 DEF Inv
    <2>5. CASE /\ Head(Status_ch) = "CONTROL_RESOURCE" /\ UNCHANGED <<status, to_rman>>
               /\ step = 3 /\ loop' = Pushing("OPERATIONAL")
      <3>1. loop' \in LoopType /\ loop'.pc = "push" /\ loop'.push = "OPERATIONAL"
        BY <1>2, <2>5, Places
      <3>2. TypeOK'
        BY <1>1, <1>3, <2>1, <2>2, <2>5, <3>1 DEF Inv, TypeOK, coroVars, rmanVars
      <3>3. TokenInv'
        BY <1>1, <1>3, <2>1, <2>2, <2>5, <3>1, <3>2, Places, TokenMoves DEF Inv, GoingRound, AtLoop, rmanVars
      <3>4. StepInv' /\ IdInv'
        BY <1>3, <2>1, <2>2, <2>5, <3>1, Places DEF Inv, StepInv, IdInv, InSendRecv, rmanVars
      <3>. QED BY <1>4, <3>2, <3>3, <3>4 DEF Inv
    <2>6. CASE UNCHANGED <<status, to_rman, loop>>
      <3>1. TypeOK'
        BY <1>1, <1>3, <2>1, <2>2, <2>6 DEF Inv, TypeOK, coroVars, rmanVars
      <3>2. TokenInv'
        <4>1. GoingRound' <= GoingRound
          BY <1>1, <1>3, <2>1, <2>2, <2>6, <3>1 DEF GoingRound, AtLoop
        <4>. QED BY <1>3, <2>2, <3>1, <4>1, TokenMoves DEF Inv, rmanVars
      <3>3. StepInv' /\ IdInv'
        BY <1>3, <2>1, <2>2, <2>6 DEF Inv, StepInv, IdInv, InSendRecv, rmanVars
      <3>. QED BY <1>4, <3>1, <3>2, <3>3 DEF Inv
    <2>. QED BY <1>1, <1>7, <2>3, <2>4, <2>5, <2>6
             DEF _processStatus, _resourceControl, HasOperation, AfterResourceControl
  <1>8. CASE SendRecvReturns
    <2>1. step \in {1, 2} /\ loop.seqno = step /\ step' = step + 1 /\ loop' = Idle
          /\ UNCHANGED <<main, status, nodeid, Status_ch, to_rman, from_rman>>
      BY <1>8 DEF SendRecvReturns, Inv, StepInv, InSendRecv, AfterResourceControl
    <2>2. /\ ipcClient_ch' \in Seq(Message) /\ Len(ipcClient_ch') = Len(ipcClient_ch) + 1
          /\ Elems(ipcClient_ch') = Elems(ipcClient_ch) \cup {Response(loop.seqno)}
      BY <1>1, <1>8, <2>1, Messages, Appended DEF SendRecvReturns
    <2>3. TypeOK'
      BY <1>1, <1>3, <1>8, <2>1, <2>2, Places DEF SendRecvReturns, Inv, TypeOK, coroVars, rmanVars
    <2>4. TokenInv'
      <3>1. GoingRound' <= GoingRound
        <4>1. AtLoop = 1 /\ AtLoop' = 0
          BY <1>8, <2>1, Places DEF SendRecvReturns, AtLoop
        <4>2. GoingRound' = 0 + Len(Status_ch) + Len(to_rman) + Len(from_rman) + (Len(ipcClient_ch) + 1)
          BY <2>1, <2>2, <4>1 DEF GoingRound
        <4>3. GoingRound = 1 + Len(Status_ch) + Len(to_rman) + Len(from_rman) + Len(ipcClient_ch)
          BY <4>1 DEF GoingRound
        <4>. QED BY ONLY <1>1, <4>2, <4>3
      <3>. QED BY <1>3, <2>1, <2>3, <3>1, TokenMoves DEF Inv, rmanVars
    <2>5. StepInv'
      BY <1>1, <1>3, <1>8, <2>1, Places DEF SendRecvReturns, Inv, StepInv, InSendRecv, rmanVars
    <2>6. IdInv'
      BY <1>8, <2>1 DEF SendRecvReturns, Inv, IdInv, InSendRecv
    <2>. QED BY <1>4, <2>3, <2>4, <2>5, <2>6 DEF Inv
  <1>9. CASE _processIpcClientMessage
    <2>1. /\ Head(ipcClient_ch) \in Elems(ipcClient_ch)
          /\ ipcClient_ch' \in Seq(Message) /\ Len(ipcClient_ch') = Len(ipcClient_ch) - 1
          /\ Elems(ipcClient_ch') \subseteq Elems(ipcClient_ch)
          /\ loop = Idle
          /\ UNCHANGED <<main, status, nodeid, step, Status_ch, to_rman, from_rman>>
      BY <1>1, <1>9, Taken DEF _processIpcClientMessage
    <2>2. NextStatus(Head(ipcClient_ch)) \in {"STARTUP", "CONTROL_RESOURCE"}
      BY DEF NextStatus
    <2>3. /\ loop' \in LoopType /\ loop'.pc = "push"
          /\ loop'.push = NextStatus(Head(ipcClient_ch))
      BY <1>2, <1>9, <2>2, Places DEF _processIpcClientMessage
    <2>4. TypeOK'
      BY <1>1, <1>3, <2>1, <2>3 DEF Inv, TypeOK, coroVars, rmanVars
    <2>5. TokenInv'
      <3>1. GoingRound' <= GoingRound
        BY <1>1, <2>1, <2>3, Places DEF GoingRound, AtLoop
      <3>. QED BY <1>3, <2>1, <2>4, <3>1, TokenMoves DEF Inv, rmanVars
    <2>6. StepInv'
      BY <1>3, <2>1, <2>2, <2>3, Places DEF Inv, StepInv, InSendRecv, rmanVars
    <2>7. IdInv'
      BY <2>1, <2>3, Messages DEF Inv, IdInv, InSendRecv, NextStatus
    <2>. QED BY <1>4, <2>4, <2>5, <2>6, <2>7 DEF Inv
  <1>. QED BY <1>5, <1>6, <1>7, <1>8, <1>9

\* corosync's events do not touch the token, and can only make the node id known.
LEMMA InvCoroStep ==
  ASSUME Inv, \/ \E c \in Coro : _processCoro(c) \/ CoroChange(c)
              \/ CoroDeliver
  PROVE  Inv'
  <1>1. /\ coro_chan \in [Coro -> 0..CoroCap] /\ coro_left \in 0..MaxCoro
        /\ multicast \in 0..MaxCoro /\ nodeid \in {0, 1}
        /\ CoroCap \in Nat /\ MaxCoro \in Nat /\ {"confchg", "deliver"} \subseteq Coro
    BY CapAssumption, BoundAssumption DEF Inv, TypeOK, Coro
  <1>2. UNCHANGED <<main, loop, status, step, Status_ch, ipcClient_ch, to_rman, from_rman, rmanVars>>
        /\ nodeid' \in {0, 1} /\ (nodeid' = 0 => nodeid = 0)
    BY <1>1 DEF _processCoro, _setNodeid, GetLocalId, CoroChange, CoroDeliver
  <1>3. /\ coro_chan' \in [Coro -> 0..CoroCap] /\ coro_left' \in 0..MaxCoro
        /\ multicast' \in Nat /\ CoroInv'
    <2>1. ASSUME NEW c \in Coro, _processCoro(c)
          PROVE  /\ coro_chan' \in [Coro -> 0..CoroCap] /\ coro_left' \in 0..MaxCoro
                 /\ multicast' \in Nat /\ CoroInv'
      <3>1. coro_chan[c] > 0 /\ coro_chan' = [coro_chan EXCEPT ![c] = @ - 1] /\ coro_left' = coro_left
        BY <2>1 DEF _processCoro
      <3>2. multicast' = IF c = "confchg" THEN multicast + 1 ELSE multicast
        BY <2>1 DEF _processCoro, SendClusterMessage
      <3>3. coro_chan[c] \in 0..CoroCap
        BY <1>1
      <3>4. coro_chan[c] - 1 \in 0..CoroCap
        BY <1>1, <3>1, <3>3
      <3>5. coro_chan' \in [Coro -> 0..CoroCap]
        BY <1>1, <3>1, <3>4
      <3>. QED BY <1>1, <3>1, <3>2, <3>5 DEF CoroInv, Inv
    <2>2. ASSUME NEW c \in Coro, CoroChange(c)
          PROVE  /\ coro_chan' \in [Coro -> 0..CoroCap] /\ coro_left' \in 0..MaxCoro
                 /\ multicast' \in Nat /\ CoroInv'
      <3>1. /\ c # "deliver" /\ coro_left > 0 /\ coro_chan[c] < CoroCap /\ coro_left' = coro_left - 1
            /\ coro_chan' = [coro_chan EXCEPT ![c] = @ + 1] /\ multicast' = multicast
        BY <2>2 DEF CoroChange
      <3>2. coro_chan[c] + 1 \in 0..CoroCap
        BY <1>1, <3>1
      <3>3. coro_chan' \in [Coro -> 0..CoroCap]
        BY <1>1, <3>1, <3>2
      <3>. QED BY <1>1, <3>1, <3>3 DEF CoroInv, Inv
    <2>3. CASE CoroDeliver
      <3>1. /\ multicast > 0 /\ coro_chan["deliver"] < CoroCap /\ coro_left' = coro_left
            /\ coro_chan' = [coro_chan EXCEPT !["deliver"] = @ + 1] /\ multicast' = multicast - 1
        BY <2>3 DEF CoroDeliver
      <3>2. coro_chan["deliver"] + 1 \in 0..CoroCap
        BY <1>1, <3>1
      <3>3. coro_chan' \in [Coro -> 0..CoroCap]
        BY <1>1, <3>1, <3>2
      <3>. QED BY <1>1, <3>1, <3>3 DEF CoroInv, Inv
    <2>. QED BY <2>1, <2>2, <2>3
  <1>4. multicast' \in 0..MaxCoro
    BY <1>1, <1>3 DEF CoroInv
  <1>5. TypeOK'
    BY <1>2, <1>3, <1>4 DEF Inv, TypeOK, rmanVars
  <1>6. TokenInv' /\ StepInv' /\ IdInv'
    BY <1>2 DEF Inv, TokenInv, AtMain, GoingRound, AtLoop, Extra, StepInv, IdInv, InSendRecv, rmanVars
  <1>. QED BY <1>3, <1>5, <1>6 DEF Inv

LEMMA OneOfTwo ==
  \A a, b \in Nat : a # 0 /\ a + b <= 1 => a = 1 /\ b = 0
  OBVIOUS

\* A request that has not reached the resource manager is all that goes round.
LEMMA RequestAlone ==
  ASSUME Inv, NEW m \in Elems(to_rman), m # Hello
  PROVE  Len(to_rman) = 1 /\ Len(from_rman) = 0
  <1>1. monitor = "none"
    BY DEF Inv, StepInv
  <1>2. AtMain + GoingRound <= 1
    BY <1>1 DEF Inv, TokenInv, Extra
  <1>3. /\ to_rman \in Seq(Message) /\ Len(Status_ch) \in Nat /\ Len(to_rman) \in Nat
        /\ Len(from_rman) \in Nat /\ Len(ipcClient_ch) \in Nat
    BY DEF Inv, TypeOK
  <1>4. Len(to_rman) # 0
    BY <1>3, NoneIn
  <1>5. AtMain \in Nat /\ AtLoop \in Nat
    BY DEF AtMain, AtLoop
  <1>6. AtMain + (AtLoop + Len(Status_ch) + Len(to_rman) + Len(from_rman) + Len(ipcClient_ch)) <= 1
    BY <1>2 DEF GoingRound
  <1>7. Len(to_rman) + Len(from_rman) <= 1
    BY ONLY <1>3, <1>5, <1>6
  <1>. QED BY ONLY <1>4, <1>7, Len(to_rman) \in Nat, Len(from_rman) \in Nat, OneOfTwo

\* ipcc and the resource manager hand the token on; the failing monitor makes another.
LEMMA InvRmanStep ==
  ASSUME Inv, IpcReceive \/ _messageHelloHandler \/ ExecRscOp \/ MonitorFails
  PROVE  Inv'
  <1>1. /\ loop \in LoopType /\ step \in 1..3 /\ nodeid \in {0, 1}
        /\ ipcClient_ch \in Seq(Message) /\ to_rman \in Seq(Message) /\ from_rman \in Seq(Message)
        /\ Len(Status_ch) \in Nat /\ Len(ipcClient_ch) \in Nat
        /\ Len(to_rman) \in Nat /\ Len(from_rman) \in Nat /\ RecvCap \in Nat
    BY CapAssumption DEF Inv, TypeOK
  <1>2. UNCHANGED <<main, status, nodeid, step, Status_ch, coroVars>>
    BY DEF IpcReceive, _messageHelloHandler, ExecRscOp, MonitorFails
  <1>3. CoroInv'
    BY <1>2 DEF Inv, CoroInv, coroVars
  <1>4. GoingRound = AtLoop + Len(Status_ch) + Len(to_rman) + Len(from_rman) + Len(ipcClient_ch)
    BY DEF GoingRound
  <1>5. AtLoop \in Int /\ (UNCHANGED loop => AtLoop' = AtLoop)
    BY DEF AtLoop
  <1>6. CASE IpcReceive
    <2>1. /\ Head(from_rman) \in Message /\ Head(from_rman) \in Elems(from_rman)
          /\ from_rman' \in Seq(Message) /\ Len(from_rman') = Len(from_rman) - 1
          /\ Len(from_rman) # 0 /\ Elems(from_rman') \subseteq Elems(from_rman)
      BY <1>1, <1>6, Taken DEF IpcReceive
    <2>2. UNCHANGED <<to_rman, clients, monitor>>
      BY <1>6 DEF IpcReceive, rmanVars
    <2>3. CASE /\ loop.pc = "sync" /\ loop' = [loop EXCEPT !.pc = "answered"]
               /\ UNCHANGED ipcClient_ch
      <3>1. /\ loop' \in LoopType /\ loop'.pc = "answered" /\ loop'.push = loop.push
            /\ loop'.seqno = loop.seqno
        BY <1>1, <2>3 DEF LoopType
      <3>2. TypeOK'
        BY <1>2, <2>1, <2>2, <2>3, <3>1 DEF Inv, TypeOK, coroVars
      <3>3. AtLoop = 0 /\ AtLoop' = 1
        BY <2>3, <3>1 DEF AtLoop
      <3>4. GoingRound' = 1 + Len(Status_ch) + Len(to_rman) + (Len(from_rman) - 1) + Len(ipcClient_ch)
        BY <1>2, <2>1, <2>2, <2>3, <3>3 DEF GoingRound
      <3>5. GoingRound' <= GoingRound
        BY ONLY <1>1, <1>4, <3>3, <3>4
      <3>6. TokenInv'
        BY <1>2, <2>2, <3>2, <3>5, TokenMoves DEF Inv
      <3>7. \A m \in Elems(to_rman) : m = Hello
        BY <2>1, RequestAlone
      <3>8. StepInv' /\ IdInv'
        BY <1>2, <2>2, <2>3, <3>1, <3>7 DEF Inv, StepInv, IdInv, InSendRecv
      <3>. QED BY <1>3, <3>2, <3>6, <3>8 DEF Inv
    <2>4. CASE /\ Len(ipcClient_ch) < RecvCap
               /\ ipcClient_ch' = Append(ipcClient_ch, Head(from_rman)) /\ UNCHANGED loop
      <3>1. /\ ipcClient_ch' \in Seq(Message) /\ Len(ipcClient_ch') = Len(ipcClient_ch) + 1
            /\ Elems(ipcClient_ch') = Elems(ipcClient_ch) \cup {Head(from_rman)}
        BY <1>1, <2>1, <2>4, Appended
      <3>2. TypeOK'
        BY <1>1, <1>2, <2>1, <2>2, <2>4, <3>1 DEF Inv, TypeOK, coroVars
      <3>3. GoingRound' = AtLoop + Len(Status_ch) + Len(to_rman) + (Len(from_rman) - 1)
                          + (Len(ipcClient_ch) + 1)
        BY <1>2, <1>5, <2>1, <2>2, <2>4, <3>1 DEF GoingRound
      <3>4. GoingRound' <= GoingRound
        BY ONLY <1>1, <1>4, <1>5, <3>3
      <3>5. TokenInv'
        BY <1>2, <2>2, <3>2, <3>4, TokenMoves DEF Inv
      <3>6. StepInv' /\ IdInv'
        BY <1>2, <2>1, <2>2, <2>4, <3>1 DEF Inv, StepInv, IdInv, InSendRecv
      <3>. QED BY <1>3, <3>2, <3>5, <3>6 DEF Inv
    <2>. QED BY <1>6, <2>3, <2>4 DEF IpcReceive
  <1>7. CASE _messageHelloHandler
    <2>1. /\ to_rman' \in Seq(Message) /\ Len(to_rman') = Len(to_rman) - 1
          /\ Elems(to_rman') \subseteq Elems(to_rman)
      BY <1>1, <1>7, Taken DEF _messageHelloHandler
    <2>2. /\ from_rman' \in Seq(Message) /\ Len(from_rman') = Len(from_rman) + 1
          /\ Elems(from_rman') = Elems(from_rman) \cup {Hello}
      BY <1>1, <1>7, Messages, Appended DEF _messageHelloHandler
    <2>3. UNCHANGED <<loop, ipcClient_ch, monitor>> /\ clients' = "conn"
      BY <1>7 DEF _messageHelloHandler
    <2>4. TypeOK'
      BY <1>2, <2>1, <2>2, <2>3 DEF Inv, TypeOK, coroVars
    <2>5. GoingRound' = AtLoop + Len(Status_ch) + (Len(to_rman) - 1) + (Len(from_rman) + 1)
                        + Len(ipcClient_ch)
      BY <1>2, <1>5, <2>1, <2>2, <2>3 DEF GoingRound
    <2>6. GoingRound' <= GoingRound
      BY ONLY <1>1, <1>4, <1>5, <2>5
    <2>7. TokenInv'
      BY <1>2, <2>3, <2>4, <2>6, TokenMoves DEF Inv
    <2>8. StepInv' /\ IdInv'
      BY <1>2, <2>1, <2>2, <2>3 DEF Inv, StepInv, IdInv, InSendRecv
    <2>. QED BY <1>3, <2>4, <2>7, <2>8 DEF Inv
  <1>8. CASE ExecRscOp
    <2>1. /\ Head(to_rman) \in Elems(to_rman) /\ Head(to_rman) # Hello
          /\ to_rman' = Tail(to_rman) /\ to_rman # <<>>
      BY <1>1, <1>8, Taken DEF ExecRscOp
    <2>2. Len(to_rman) = 1
      BY <2>1, RequestAlone
    <2>3. to_rman' \in Seq(Message) /\ Len(to_rman') = Len(to_rman) - 1 /\ Elems(to_rman') = {}
      BY <1>1, <2>1, <2>2, Taken
    <2>4. loop.pc = "sync" /\ Head(to_rman) = Response(step) /\ monitor = "none"
      BY <2>1 DEF Inv, StepInv
    <2>5. step \in {1, 2} /\ Head(to_rman).seqno = step
      BY <1>1, <2>4, Messages DEF Inv, StepInv, InSendRecv
    <2>6. /\ from_rman' \in Seq(Message) /\ Len(from_rman') = Len(from_rman) + 1
      BY <1>1, <1>8, <2>4, <2>5, Messages, Appended DEF ExecRscOp
    <2>7. UNCHANGED <<loop, ipcClient_ch, clients>>
      BY <1>8 DEF ExecRscOp
    <2>8. monitor' \in {"none", "repeating", "over"} /\ (step = 1 => monitor' = "none")
      BY <1>8, <2>4, <2>5 DEF ExecRscOp
    <2>9. TypeOK'
      BY <1>2, <2>3, <2>6, <2>7, <2>8 DEF Inv, TypeOK, coroVars
    <2>10. GoingRound' = AtLoop + Len(Status_ch) + (Len(to_rman) - 1) + (Len(from_rman) + 1)
                         + Len(ipcClient_ch)
      BY <1>2, <1>5, <2>3, <2>6, <2>7 DEF GoingRound
    <2>11. GoingRound' <= GoingRound
      BY ONLY <1>1, <1>4, <1>5, <2>10
    <2>12. TokenInv'
      BY <1>2, <2>4, <2>9, <2>11, TokenMoves DEF Inv
    <2>13. StepInv'
      BY <1>2, <2>3, <2>4, <2>5, <2>7, <2>8 DEF Inv, StepInv, InSendRecv
    <2>14. IdInv'
      BY <1>2, <2>4 DEF Inv, IdInv, InSendRecv
    <2>. QED BY <1>3, <2>9, <2>12, <2>13, <2>14 DEF Inv
  <1>9. CASE MonitorFails
    <2>1. /\ monitor = "repeating" /\ monitor' = "over"
          /\ UNCHANGED <<loop, ipcClient_ch, to_rman, clients>>
      BY <1>9 DEF MonitorFails
    <2>2. from_rman' \in Seq(Message) /\ Len(from_rman') = Len(from_rman) + 1
      BY <1>1, <1>9, Messages, Appended DEF MonitorFails
    <2>3. TypeOK'
      BY <1>2, <2>1, <2>2 DEF Inv, TypeOK, coroVars
    <2>4. Extra = 0 /\ Extra' = 1 /\ AtMain' = AtMain /\ AtMain \in Int
      BY <1>2, <2>1 DEF Extra, AtMain
    <2>5. AtMain + (AtLoop + Len(Status_ch) + Len(to_rman) + Len(from_rman) + Len(ipcClient_ch)) <= 1 + 0
      BY <1>4, <2>4 DEF Inv, TokenInv
    <2>6. GoingRound' = AtLoop + Len(Status_ch) + Len(to_rman) + (Len(from_rman) + 1) + Len(ipcClient_ch)
      BY <1>2, <1>5, <2>1, <2>2 DEF GoingRound
    <2>7. AtMain + GoingRound' <= 1 + 1
      BY ONLY <1>1, <1>5, <2>4, <2>5, <2>6
    <2>8. TokenInv'
      BY <2>4, <2>7 DEF TokenInv
    <2>9. StepInv'
      BY <1>2, <2>1 DEF Inv, StepInv, InSendRecv
    <2>10. IdInv'
      BY <1>2, <2>1 DEF Inv, IdInv, StepInv
    <2>. QED BY <1>3, <2>3, <2>8, <2>9, <2>10 DEF Inv
  <1>. QED BY <1>6, <1>7, <1>8, <1>9

LEMMA InvNext == Inv /\ [Next]_vars => Inv'
  <1>. SUFFICES ASSUME Inv, [Next]_vars PROVE Inv'
    OBVIOUS
  <1>1. CASE UNCHANGED vars
    BY <1>1 DEF vars, coroVars, rmanVars, Inv, TypeOK, TokenInv, AtMain, GoingRound, AtLoop, Extra,
                StepInv, InSendRecv, IdInv, CoroInv
  <1>. QED BY <1>1, InvLoopStep, InvCoroStep, InvRmanStep DEF Next, LoopStep

LEMMA InvHolds == Spec => []Inv
  BY InvInit, InvNext, PTL DEF Spec

-----------------------------------------------------------------------------
(* What follows from it.                                                   *)

\* Every variable has the values its Go counterpart can take, and no channel of the
\* controller holds more than its capacity.
THEOREM TypeCorrect == Spec => []TypeOK
  <1>1. Inv => TypeOK
    BY DEF Inv
  <1>. QED BY <1>1, InvHolds, PTL

\* No request for a resource is made before a corosync callback found out the node id.
THEOREM NodeidFirst == Spec => []NodeidBeforeResources
  <1>1. Inv => NodeidBeforeResources
    <2>. SUFFICES ASSUME Inv, nodeid = 0 PROVE NodeidBeforeResources
      BY DEF NodeidBeforeResources
    <2>. QED BY DEF Inv, IdInv, InSendRecv, NodeidBeforeResources, Elems
  <1>. QED BY <1>1, InvHolds, PTL

\* Until the recurring monitor is over, at most one message is under way between the
\* handlers of the controller and the resource manager: none is there to meet it in a Read.
THEOREM OneMessage == Spec => []OneMessageUnderWay
  <1>1. Inv => OneMessageUnderWay
    <2>. SUFFICES ASSUME Inv, monitor # "over"
                  PROVE  Len(to_rman) + Len(from_rman) + Len(ipcClient_ch) <= 1
      BY DEF OneMessageUnderWay
    <2>1. /\ Len(Status_ch) \in Nat /\ Len(to_rman) \in Nat
          /\ Len(from_rman) \in Nat /\ Len(ipcClient_ch) \in Nat
      BY DEF Inv, TypeOK
    <2>2. AtMain \in Nat /\ AtLoop \in Nat
      BY DEF AtMain, AtLoop
    <2>3. AtMain + (AtLoop + Len(Status_ch) + Len(to_rman) + Len(from_rman) + Len(ipcClient_ch)) <= 1
      BY DEF Inv, TokenInv, GoingRound, Extra
    <2>. QED BY ONLY <2>1, <2>2, <2>3
  <1>. QED BY <1>1, InvHolds, PTL

\* Two places, which is what InitBase gives Status_ch, are enough for the loop never to
\* block on a channel that only it drains, whatever reports and events come in between.
THEOREM NoSelfBlock ==
  ASSUME StatusCap >= 2, RecvCap >= 2
  PROVE  Spec => []NeverBlocksOnItself
  <1>1. Inv => NeverBlocksOnItself
    <2>. SUFFICES ASSUME Inv PROVE NeverBlocksOnItself
      OBVIOUS
    <2>1. /\ Len(Status_ch) \in Nat /\ Len(to_rman) \in Nat
          /\ Len(from_rman) \in Nat /\ Len(ipcClient_ch) \in Nat
          /\ StatusCap \in Nat /\ RecvCap \in Nat
      BY CapAssumption DEF Inv, TypeOK
    <2>2. AtMain \in Nat /\ Extra \in 0..1
      BY DEF AtMain, Extra
    <2>3. AtMain + (AtLoop + Len(Status_ch) + Len(to_rman) + Len(from_rman) + Len(ipcClient_ch))
            <= 1 + Extra
      BY DEF Inv, TokenInv, GoingRound
    <2>4. loop.pc \in {"push", "answered"} => AtLoop = 1
      BY DEF AtLoop
    <2>5. AtLoop = 1 => Len(Status_ch) < StatusCap /\ Len(ipcClient_ch) < RecvCap
      BY ONLY StatusCap >= 2, RecvCap >= 2, <2>1, <2>2, <2>3
    <2>. QED BY <2>4, <2>5 DEF NeverBlocksOnItself
  <1>. QED BY <1>1, InvHolds, PTL
=============================================================================
