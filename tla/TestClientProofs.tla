-------------------------- MODULE TestClientProofs --------------------------
(***************************************************************************)
(* The test client, for any sockets, attempts and messages: once it is     *)
(* connected nothing but a SIGTERM ends it, although Terminate closes      *)
(* channels under its reader and its loop.                                 *)
(***************************************************************************)
EXTENDS TestClient, TLAPS

Signals == {"SIGTERM", "SIGCHLD"}
Terminating == main \in {"exit_ch", "recv_ch", "send_ch", "return"}

\* What waits in the connection was sent.
SentInv == sock <= sends

\* Terminate runs, and closes, after the loop has taken a SIGTERM; a process that ended
\* without one never connected.
StopInv ==
  /\ loop = "exit" \/ Terminating => termed
  /\ closed # {} => Terminating
  /\ main \in {"dial", "redial"} => conn = "none"
  /\ process # "running" => termed \/ conn = "none"

Inv == TypeOK /\ SentInv /\ StopInv

-----------------------------------------------------------------------------
LEMMA InvInit == Init => Inv
  <1>. SUFFICES ASSUME Init PROVE Inv
    OBVIOUS
  <1>1. <<>> \in Seq(Signals) /\ Len(<<>>) = 0 /\ MaxMsg \in Nat /\ MaxDials \in Nat
    BY BoundAssumption
  <1>2. signal_ch \in Seq(Signals) /\ Len(signal_ch) <= 1
    BY <1>1 DEF Init
  <1>3. written \in BOOLEAN /\ termed \in BOOLEAN
    BY Zenon DEF Init
  <1>4. TypeOK
    BY <1>1, <1>2, <1>3 DEF Init, TypeOK, Signals
  <1>5. SentInv /\ StopInv
    BY DEF Init, SentInv, StopInv, Terminating
  <1>. QED BY <1>4, <1>5 DEF Inv

\* The channels between program and server.
LEMMA TypeServer ==
  ASSUME TypeOK, SentInv, ServerSends \/ ServerCloses \/ \E s \in Sockets : Listen(s)
  PROVE  TypeOK' /\ SentInv'
  <1>1. MaxMsg \in Nat /\ sends \in 0..MaxMsg /\ sock \in 0..MaxMsg
    BY BoundAssumption DEF TypeOK
  <1>2. CASE ServerSends
    <2>1. sends < MaxMsg /\ sends' = sends + 1 /\ sock' = sock + 1
      BY <1>2 DEF ServerSends
    <2>2. sends' \in 0..MaxMsg /\ sock' \in 0..MaxMsg /\ sock' <= sends'
      BY <1>1, <2>1 DEF SentInv
    <2>. QED BY <1>2, <2>2 DEF ServerSends, TypeOK, SentInv, signals
  <1>3. CASE ServerCloses
    BY <1>3 DEF ServerCloses, TypeOK, SentInv, signals
  <1>4. ASSUME NEW s \in Sockets, Listen(s) PROVE TypeOK' /\ SentInv'
    BY <1>4 DEF Listen, TypeOK, SentInv, signals
  <1>. QED BY <1>2, <1>3, <1>4

LEMMA TypeSignal ==
  ASSUME TypeOK, TakeSignal \/ \E sig \in Signals : Notify(sig)
  PROVE  TypeOK'
  <1>1. signal_ch \in Seq(Signals) /\ Len(signal_ch) <= 1
    BY DEF TypeOK, Signals
  <1>2. CASE TakeSignal
    <2>1. signal_ch # <<>> /\ signal_ch' = Tail(signal_ch)
      BY <1>2 DEF TakeSignal
    <2>2. Tail(signal_ch) \in Seq(Signals) /\ Len(Tail(signal_ch)) = Len(signal_ch) - 1
          /\ Len(signal_ch) \in Nat
      BY <1>1, <2>1
    <2>3. signal_ch' \in Seq(Signals) /\ Len(signal_ch') <= 1
      BY <1>1, <2>1, <2>2
    <2>4. termed' \in BOOLEAN
      BY <1>2, Zenon DEF TakeSignal
    <2>5. loop' \in {"poll", "exit"}
      BY <1>2 DEF TakeSignal, SignalCase
    <2>. QED BY <1>2, <2>3, <2>4, <2>5 DEF TakeSignal, TypeOK, Signals, server
  <1>3. ASSUME NEW sig \in Signals, Notify(sig) PROVE TypeOK'
    <2>1. <<sig>> \in Seq(Signals) /\ Len(<<sig>>) = 1
      OBVIOUS
    <2>2. signal_ch' \in Seq(Signals) /\ Len(signal_ch') <= 1
      BY <1>1, <1>3, <2>1 DEF Notify, Notified
    <2>. QED BY <1>3, <2>2 DEF Notify, TypeOK, Signals, server
  <1>. QED BY <1>2, <1>3

LEMMA TypeProgram ==
  ASSUME TypeOK,
         Main \/ SendExit \/ EmptyPoll \/ Sleep \/ Write \/ Read \/ TakeMessage
  PROVE  TypeOK'
  <1>1. MaxDials \in Nat /\ dials \in 0..MaxDials /\ MaxMsg \in Nat
    BY BoundAssumption DEF TypeOK
  <1>2. CASE Dial
    BY <1>2 DEF Dial, Connected, TypeOK, signals
  <1>3. CASE Redial
    <2>1. dials' = dials \/ (dials < MaxDials /\ dials' = dials + 1)
      <3>1. CASE dials < MaxDials /\ Connected
        BY <3>1 DEF Connected
      <3>. QED BY <1>3, <3>1 DEF Redial
    <2>2. dials' \in 0..MaxDials
      BY <1>1, <2>1
    <2>. QED BY <1>3, <2>2 DEF Redial, Connected, Panics, TypeOK, signals
  <1>4. CASE MakeHello
    BY <1>4 DEF MakeHello, TypeOK, signals, server
  <1>5. CASE SendMesage
    BY <1>5 DEF SendMesage, TypeOK, signals, server
  <1>6. CASE StartLoop
    BY <1>6 DEF StartLoop, TypeOK, signals, server
  <1>7. CASE Close
    <2>1. main \in {"exit_ch", "recv_ch", "send_ch"}
      BY <1>7 DEF Close
    <2>2. After(main) \in {"recv_ch", "send_ch", "return"}
      BY <2>1 DEF After
    <2>. QED BY <1>7, <2>1, <2>2 DEF Close, Panics, TypeOK, signals, server
  <1>8. CASE Return
    BY <1>8 DEF Return, TypeOK, signals, server
  <1>9. CASE SendExit
    BY <1>9 DEF SendExit, Panics, TypeOK, signals, server
  <1>10. CASE EmptyPoll
    BY <1>10 DEF EmptyPoll, AfterEmptyPoll, TypeOK, signals, server
  <1>11. CASE Sleep
    BY <1>11 DEF Sleep, TypeOK, signals, server
  <1>12. CASE TakeMessage
    BY <1>12 DEF TakeMessage, TypeOK, signals, server
  <1>13. CASE Write
    <2>1. written' \in BOOLEAN
      BY <1>13 DEF Write, TypeOK
    <2>. QED BY <1>13, <2>1 DEF Write, TypeOK, signals, server
  <1>14. CASE Read
    <2>1. sock' \in 0..MaxMsg
      BY <1>1, <1>14 DEF Read, TypeOK
    <2>. QED BY <1>14, <2>1 DEF Read, Panics, TypeOK, signals
  <1>. QED BY <1>2, <1>3, <1>4, <1>5, <1>6, <1>7, <1>8, <1>9, <1>10, <1>11, <1>12, <1>13, <1>14
           DEF Main

LEMMA SentStep ==
  ASSUME TypeOK, SentInv,
         \/ Main \/ SendExit \/ EmptyPoll \/ Sleep \/ Write \/ Read \/ LoopStep
         \/ \E sig \in Signals : Notify(sig)
  PROVE  SentInv'
  <1>1. sends \in Nat /\ sock \in Nat
    BY BoundAssumption DEF TypeOK
  <1>2. sends' = sends /\ sock' \in {sock, 0}
    BY DEF Main, Dial, Redial, MakeHello, SendMesage, StartLoop, Close, Return, SendExit,
           EmptyPoll, Sleep, Write, Read, LoopStep, TakeSignal, TakeMessage, Notify, server
  <1>. QED BY <1>1, <1>2 DEF SentInv

\* Every step: what stops the program is traced back to a SIGTERM.
LEMMA StopStep == ASSUME Inv, Next PROVE StopInv'
  <1>1. CASE ServerSends \/ ServerCloses \/ \E s \in Sockets : Listen(s)
    <2>1. UNCHANGED <<process, main, loop, closed, termed>> /\ (conn' = "none" <=> conn = "none")
      BY <1>1 DEF ServerSends, ServerCloses, Listen, signals
    <2>. QED BY <2>1 DEF Inv, StopInv, Terminating
  <1>2. CASE \E sig \in Signals : Notify(sig)
    BY <1>2 DEF Notify, server, Inv, StopInv, Terminating
  <1>3. CASE TakeSignal
    <2>1. UNCHANGED <<process, main, conn, closed>> /\ signal_ch # <<>>
          /\ loop' = SignalCase(Head(signal_ch))
          /\ termed' = (termed \/ Head(signal_ch) = "SIGTERM")
      BY <1>3 DEF TakeSignal, server
    <2>2. Head(signal_ch) \in Signals
      <3>1. signal_ch \in Seq(Signals)
        BY DEF Inv, TypeOK, Signals
      <3>. QED BY <2>1, <3>1
    <2>3. loop' = "exit" => Head(signal_ch) = "SIGTERM"
      BY <2>1, <2>2 DEF SignalCase, Signals
    <2>4. termed' <=> termed \/ Head(signal_ch) = "SIGTERM"
      BY <2>1, Zenon
    <2>. QED BY <2>1, <2>3, <2>4 DEF Inv, StopInv, Terminating
  <1>4. CASE EmptyPoll \/ Sleep \/ Write \/ TakeMessage
    BY <1>4 DEF EmptyPoll, Sleep, Write, TakeMessage, signals, server, Inv, StopInv, Terminating
  <1>5. CASE Read
    <2>1. UNCHANGED <<main, loop, conn, closed, termed>>
          /\ (process' # "running" => "recv_ch" \in closed \/ process # "running")
      BY <1>5 DEF Read, Panics, Running, signals
    <2>. QED BY <2>1 DEF Inv, StopInv, Terminating
  <1>6. CASE Dial \/ Redial \/ MakeHello \/ SendMesage
    <2>1. UNCHANGED <<loop, closed, termed>> /\ ~Terminating /\ ~Terminating'
      BY <1>6 DEF Dial, Redial, MakeHello, SendMesage, Connected, signals, server, Terminating
    <2>2. main' \in {"dial", "redial"} => conn' = "none"
      BY <1>6 DEF Dial, Redial, MakeHello, SendMesage, Connected, signals, server, Inv, StopInv
    <2>3. process' # "running" => conn' = "none"
      BY <1>6 DEF Dial, Redial, MakeHello, SendMesage, Connected, Panics, Running, signals, server,
                  Inv, StopInv
    <2>. QED BY <2>1, <2>2, <2>3 DEF Inv, StopInv
  <1>7. CASE StartLoop
    BY <1>7 DEF StartLoop, signals, server, Inv, StopInv, Terminating
  <1>8. CASE SendExit
    <2>1. loop = "exit" /\ termed
      BY <1>8 DEF SendExit, Inv, StopInv
    <2>2. UNCHANGED <<conn, closed, termed>> /\ main' \in {main, "exit_ch"}
          /\ (main' = "exit_ch" => main \in {"wait", "exit_ch"})
      BY <1>8 DEF SendExit, signals, server
    <2>. QED BY <2>1, <2>2 DEF Inv, StopInv, Terminating
  <1>9. CASE Close \/ Return
    <2>1. Terminating /\ Terminating' /\ UNCHANGED <<conn, loop, termed>>
      BY <1>9 DEF Close, Return, Terminating, After, signals, server
    <2>2. termed' /\ main' \notin {"dial", "redial"}
      BY <2>1 DEF Inv, StopInv, Terminating
    <2>. QED BY <2>1, <2>2 DEF StopInv
  <1>. QED BY <1>1, <1>2, <1>3, <1>4, <1>5, <1>6, <1>7, <1>8, <1>9
           DEF Next, Main, LoopStep, Signals

LEMMA InvHolds == Spec => []Inv
  <1>1. ASSUME Inv, Next PROVE TypeOK' /\ SentInv'
    <2>1. CASE ServerSends \/ ServerCloses \/ \E s \in Sockets : Listen(s)
      BY <1>1, <2>1, TypeServer DEF Inv
    <2>2. CASE Main \/ SendExit \/ EmptyPoll \/ Sleep \/ Write \/ Read \/ TakeMessage
      BY <1>1, <2>2, TypeProgram, SentStep DEF Inv, LoopStep
    <2>3. CASE TakeSignal \/ \E sig \in Signals : Notify(sig)
      BY <1>1, <2>3, TypeSignal, SentStep DEF Inv, LoopStep
    <2>. QED BY <1>1, <2>1, <2>2, <2>3 DEF Next, LoopStep, Signals
  <1>2. Inv /\ UNCHANGED vars => Inv'
    BY DEF vars, Inv, TypeOK, SentInv, StopInv, Terminating
  <1>3. Inv /\ [Next]_vars => Inv'
    BY <1>1, <1>2, StopStep DEF Inv
  <1>. QED BY <1>3, InvInit, PTL DEF Spec

\* Every variable has the values its Go counterpart can take.
THEOREM TypeCorrect == Spec => []TypeOK
  <1>1. Inv => TypeOK
    BY DEF Inv
  <1>. QED BY <1>1, InvHolds, PTL

\* A client that has connected ends only by a SIGTERM: the channels Terminate closes make
\* reader and loop panic after that, and the server's end makes neither end.
THEOREM TermOnly == Spec => []StopsOnTermOnly
  <1>1. Inv => StopsOnTermOnly
    BY DEF Inv, StopInv, StopsOnTermOnly, Running
  <1>. QED BY <1>1, InvHolds, PTL
=============================================================================
