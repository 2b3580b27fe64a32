--------------------------- MODULE ShutdownProofs ---------------------------
(***************************************************************************)
(* Both daemons, for any capacity of the signal channel: nothing but a     *)
(* SIGTERM makes them stop, although the loop goes on while channels are   *)
(* closed under it.                                                        *)
(***************************************************************************)
EXTENDS Shutdown, TLAPS

\* What stops the daemon is traced back to the SIGTERM the loop has taken: Exit_ch <- 1,
\* the end of ProcessRun, the closing of channels, and the panics those cause.
StopInv ==
  /\ loop = "exit" => termed
  /\ main # "run" => termed
  /\ closed # {} => main # "run"
  /\ process # "running" => termed

Inv == TypeOK /\ StopInv

-----------------------------------------------------------------------------
LEMMA InvInit == Init => Inv
  <1>1. <<>> \in Seq({"SIGTERM", "SIGCHLD"}) /\ Len(<<>>) = 0
    OBVIOUS
  <1>2. Init => TypeOK
    <2>. SUFFICES ASSUME Init PROVE TypeOK
      OBVIOUS
    <2>1. Signal_ch \in Seq({"SIGTERM", "SIGCHLD"}) /\ Len(Signal_ch) <= SignalCap
      BY <1>1, CapAssumption DEF Init
    <2>2. work \in BOOLEAN /\ termed \in BOOLEAN
      BY Zenon DEF Init
    <2>. QED BY <2>1, <2>2 DEF Init, TypeOK
  <1>3. Init => StopInv
    BY DEF Init, StopInv
  <1>. QED BY <1>2, <1>3 DEF Inv

LEMMA Taken ==
  ASSUME TypeOK, Signal_ch # <<>>
  PROVE  /\ Head(Signal_ch) \in {"SIGTERM", "SIGCHLD"}
         /\ Tail(Signal_ch) \in Seq({"SIGTERM", "SIGCHLD"}) /\ Len(Tail(Signal_ch)) <= SignalCap
  <1>1. Signal_ch \in Seq({"SIGTERM", "SIGCHLD"}) /\ Len(Signal_ch) <= SignalCap
    BY DEF TypeOK
  <1>2. Len(Signal_ch) \in Nat /\ SignalCap \in Nat
    BY <1>1, CapAssumption
  <1>3. Tail(Signal_ch) \in Seq({"SIGTERM", "SIGCHLD"}) /\ Len(Tail(Signal_ch)) = Len(Signal_ch) - 1
    BY <1>1
  <1>4. Head(Signal_ch) \in {"SIGTERM", "SIGCHLD"}
    BY <1>1
  <1>. QED BY <1>1, <1>2, <1>3, <1>4

LEMMA TypeStep == ASSUME TypeOK, Next PROVE TypeOK'
  <1>1. CASE \E sig \in {"SIGTERM", "SIGCHLD"} : Notify(sig)
    <2>. PICK sig \in {"SIGTERM", "SIGCHLD"} : Notify(sig)
      BY <1>1
    <2>1. Signal_ch \in Seq({"SIGTERM", "SIGCHLD"}) /\ Len(Signal_ch) <= SignalCap
      BY DEF TypeOK
    <2>2. Len(Signal_ch) \in Nat /\ SignalCap \in Nat
      BY <2>1, CapAssumption
    <2>3. /\ Append(Signal_ch, sig) \in Seq({"SIGTERM", "SIGCHLD"})
          /\ Len(Append(Signal_ch, sig)) = Len(Signal_ch) + 1
      BY <2>1
    <2>4. Signal_ch' \in Seq({"SIGTERM", "SIGCHLD"}) /\ Len(Signal_ch') <= SignalCap
      BY <2>1, <2>2, <2>3 DEF Notify, SignalHasRoom
    <2>. QED BY <2>4 DEF Notify, Panics, TypeOK
  <1>2. CASE clientReceive
    <2>1. work' \in BOOLEAN
      BY <1>2, Zenon DEF clientReceive
    <2>. QED BY <1>2, <2>1 DEF clientReceive, Panics, TypeOK
  <1>3. CASE TakeSignal
    <2>1. termed' \in BOOLEAN
      BY <1>3, Zenon DEF TakeSignal, TypeOK
    <2>2. Signal_ch' \in Seq({"SIGTERM", "SIGCHLD"}) /\ Len(Signal_ch') <= SignalCap
      BY <1>3, Taken DEF TakeSignal, TypeOK
    <2>3. loop' \in {"poll", "exit"}
      BY <1>3 DEF TakeSignal, SignalCase
    <2>. QED BY <1>3, <2>1, <2>2, <2>3 DEF TakeSignal, TypeOK
  <1>4. CASE Exec
    <2>1. work' \in BOOLEAN
      BY <1>4, Zenon DEF Exec
    <2>. QED BY <1>4, <2>1 DEF Exec, TypeOK
  <1>5. CASE HandlerReturns \/ SendExit
    BY <1>5 DEF HandlerReturns, SendExit, Panics, TypeOK
  <1>6. CASE Close
    <2>1. main \in {"ipcSrvRecv_ch", "Exit_ch", "Signal_ch", "Status_ch"}
      BY <1>6 DEF Close, TypeOK
    <2>2. After(main) \in {"Exit_ch", "Signal_ch", "Status_ch", "done"}
      BY <2>1 DEF After
    <2>. QED BY <1>6, <2>1, <2>2 DEF Close, Panics, TypeOK
  <1>7. CASE Exit
    BY <1>7 DEF Exit, TypeOK
  <1>. QED BY <1>1, <1>2, <1>3, <1>4, <1>5, <1>6, <1>7 DEF Next

LEMMA StopStep == ASSUME Inv, Next PROVE StopInv'
  <1>1. CASE \E sig \in {"SIGTERM", "SIGCHLD"} : Notify(sig)
    BY <1>1 DEF Notify, Panics, Inv, StopInv
  <1>2. CASE clientReceive
    BY <1>2 DEF clientReceive, Panics, Inv, StopInv
  <1>3. CASE TakeSignal
    <2>1. Signal_ch # <<>> => Head(Signal_ch) \in {"SIGTERM", "SIGCHLD"}
      BY Taken DEF Inv
    <2>2. /\ process' = process /\ main' = main /\ closed' = closed
          /\ termed => termed'
      <3>1. process' = process /\ main' = main /\ closed' = closed
        BY <1>3 DEF TakeSignal
      <3>2. CASE termed' = (termed \/ Head(Signal_ch) = "SIGTERM")
        <4>1. termed => termed'
          BY <3>2, Zenon
        <4>. QED BY <3>1, <4>1
      <3>3. CASE termed' = termed
        BY <3>1, <3>3
      <3>. QED BY <1>3, <3>2, <3>3, Zenon DEF TakeSignal
    <2>3. loop' = "exit" => termed'
      <3>1. CASE /\ Signal_ch # <<>> /\ loop' = SignalCase(Head(Signal_ch))
                 /\ termed' = (termed \/ Head(Signal_ch) = "SIGTERM")
        <4>1. loop' = "exit" => Head(Signal_ch) # "SIGCHLD"
          BY <3>1 DEF SignalCase
        <4>2. loop' = "exit" => Head(Signal_ch) = "SIGTERM"
          BY <2>1, <3>1, <4>1
        <4>. QED BY <3>1, <4>2, Zenon
      <3>2. CASE "Signal_ch" \in closed
        BY <2>2, <3>2, Zenon DEF Inv, StopInv
      <3>. QED BY <1>3, <3>1, <3>2, Zenon DEF TakeSignal
    <2>. QED BY <2>2, <2>3, Zenon DEF Inv, StopInv
  <1>4. CASE Exec \/ HandlerReturns
    BY <1>4 DEF Exec, HandlerReturns, Inv, StopInv
  <1>5. CASE SendExit
    BY <1>5 DEF SendExit, Panics, Inv, StopInv
  <1>6. CASE Close
    <2>1. main # "run" /\ After(main) # "run"
      BY <1>6 DEF Close, Inv, TypeOK, After
    <2>. QED BY <1>6, <2>1 DEF Close, Panics, Inv, StopInv
  <1>7. CASE Exit
    BY <1>7 DEF Exit, Inv, StopInv
  <1>. QED BY <1>1, <1>2, <1>3, <1>4, <1>5, <1>6, <1>7 DEF Next

LEMMA InvHolds == Spec => []Inv
  <1>1. Inv /\ [Next]_vars => Inv'
    BY TypeStep, StopStep DEF vars, Inv, TypeOK, StopInv
  <1>. QED BY <1>1, InvInit, PTL DEF Spec

\* Every variable has the values its Go counterpart can take.
THEOREM TypeCorrect == Spec => []TypeOK
  <1>1. Inv => TypeOK
    BY DEF Inv
  <1>. QED BY <1>1, InvHolds, PTL

\* ProcessRun returns, and the process ends, only after the loop has taken a SIGTERM: the
\* nil that a closed Signal_ch yields, and every panic, come later.
THEOREM TermOnly == Spec => []StopsOnTermOnly
  <1>1. Inv => StopsOnTermOnly
    BY DEF Inv, StopInv, StopsOnTermOnly
  <1>. QED BY <1>1, InvHolds, PTL
=============================================================================
