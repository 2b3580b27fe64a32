---------------------------- MODULE ChildsProofs ----------------------------
(***************************************************************************)
(* The children of the controller, for any number of them and any pids.    *)
(***************************************************************************)
EXTENDS Childs, TLAPS

\* A process of the list is either still known by its pid or has been signalled.
KnownOrKilled == \A p \in Pids : proc[p] \in Child => pid[proc[p]] = p \/ p \in killed

\* _childStart goes up the list, and _childStop after it.
LoopInv ==
  /\ i >= 1
  /\ main = "connect" => i = 1
  /\ main \in {"connect", "start"} => \A n \in Child : n >= i => pid[n] = 0
  /\ main = "stop" => \A n \in Child : n < i => pid[n] = 0
  /\ main = "stopped" => \A n \in Child : pid[n] = 0

Inv == TypeOK /\ PidIsChild /\ KnownOrKilled /\ LoopInv

-----------------------------------------------------------------------------
LEMMA Signals ==
  ASSUME NEW s \in Seq({"SIGTERM", "SIGCHLD"}), s # <<>>, Len(s) <= 1
  PROVE  /\ Tail(s) \in Seq({"SIGTERM", "SIGCHLD"}) /\ Len(Tail(s)) <= 1
  <1>1. Len(s) \in Nat
    OBVIOUS
  <1>2. Tail(s) \in Seq({"SIGTERM", "SIGCHLD"}) /\ Len(Tail(s)) = Len(s) - 1
    OBVIOUS
  <1>. QED BY <1>1, <1>2

LEMMA OneSignal ==
  ASSUME NEW s \in {"SIGTERM", "SIGCHLD"}, TypeOK
  PROVE  Notified(s) \in Seq({"SIGTERM", "SIGCHLD"}) /\ Len(Notified(s)) <= 1
  <1>1. <<s>> \in Seq({"SIGTERM", "SIGCHLD"}) /\ Len(<<s>>) = 1
    OBVIOUS
  <1>2. Signal_ch \in Seq({"SIGTERM", "SIGCHLD"}) /\ Len(Signal_ch) <= 1
    BY DEF TypeOK
  <1>3. CASE Signal_ch = <<>>
    <2>1. Notified(s) = <<s>>
      BY <1>3 DEF Notified
    <2>. QED BY <1>1, <2>1
  <1>4. CASE Signal_ch # <<>>
    <2>1. Notified(s) = Signal_ch
      BY <1>4 DEF Notified
    <2>. QED BY <1>2, <2>1
  <1>. QED BY <1>3, <1>4

LEMMA InvInit == Init => Inv
  <1>. SUFFICES ASSUME Init PROVE Inv
    OBVIOUS
  <1>1. <<>> \in Seq({"SIGTERM", "SIGCHLD"}) /\ Len(<<>>) = 0 /\ 0 \in 0..Other
    BY NAssumption DEF Other
  <1>2. TypeOK
    BY <1>1 DEF Init, TypeOK
  <1>3. PidIsChild /\ KnownOrKilled /\ LoopInv
    BY NAssumption DEF Init, PidIsChild, KnownOrKilled, LoopInv, Child
  <1>. QED BY <1>2, <1>3 DEF Inv

\* The machine: a zombie keeps its pid, and other processes come and go on pids that are
\* not those of children.
LEMMA InvMachineStep ==
  ASSUME Inv,
         \/ Term \/ TakeSignal \/ Exec \/ HandlerReturns
         \/ \E p \in Pids : ChildExits(p) \/ OtherProcess(p)
  PROVE  Inv'
  <1>1. UNCHANGED <<main, i, pid, killed>>
    BY DEF Term, TakeSignal, Exec, HandlerReturns, ChildExits, OtherProcess
  <1>2. Signal_ch' \in Seq({"SIGTERM", "SIGCHLD"}) /\ Len(Signal_ch') <= 1
    <2>1. CASE Term \/ (\E p \in Pids : ChildExits(p))
      BY <2>1, OneSignal DEF Term, ChildExits, Inv
    <2>2. CASE TakeSignal
      BY <2>2, Signals DEF TakeSignal, Inv, TypeOK
    <2>3. CASE Exec \/ HandlerReturns \/ \E p \in Pids : OtherProcess(p)
      BY <2>3 DEF Exec, HandlerReturns, OtherProcess, Inv, TypeOK
    <2>. QED BY <2>1, <2>2, <2>3
  <1>3. zombie' \subseteq Pids /\ loop' \in {"off", "poll", "handler", "exit"}
    BY DEF Term, TakeSignal, ChildExit, Exec, HandlerReturns, ChildExits, OtherProcess, processes,
           Inv, TypeOK
  <1>4. CASE UNCHANGED proc
    BY <1>1, <1>2, <1>3, <1>4 DEF Inv, TypeOK, PidIsChild, KnownOrKilled, LoopInv
  <1>5. ASSUME NEW p \in Pids, OtherProcess(p)
        PROVE  Inv'
    <2>1. /\ proc[p] \notin Child
          /\ proc' = [proc EXCEPT ![p] = IF proc[p] = 0 THEN Other ELSE 0]
      BY <1>5 DEF OtherProcess
    <2>2. 0 \in 0..Other /\ Other \in 0..Other /\ 0 \notin Child /\ Other \notin Child
      BY NAssumption DEF Other, Child
    <2>3. /\ proc' \in [Pids -> 0..Other] /\ proc'[p] \notin Child
          /\ \A q \in Pids : q # p => proc'[q] = proc[q]
      BY <2>1, <2>2 DEF Inv, TypeOK
    <2>4. TypeOK'
      BY <1>1, <1>2, <1>3, <2>3 DEF Inv, TypeOK
    <2>5. PidIsChild'
      BY <1>1, <2>1, <2>3 DEF Inv, TypeOK, PidIsChild
    <2>6. KnownOrKilled'
      BY <1>1, <2>3 DEF Inv, KnownOrKilled
    <2>7. LoopInv'
      BY <1>1 DEF Inv, LoopInv
    <2>. QED BY <2>4, <2>5, <2>6, <2>7 DEF Inv
  <1>6. Term \/ TakeSignal \/ Exec \/ HandlerReturns \/ (\E p \in Pids : ChildExits(p))
          => UNCHANGED proc
    BY DEF Term, TakeSignal, ChildExit, Exec, HandlerReturns, ChildExits, processes
  <1>. QED BY <1>4, <1>5, <1>6

\* The main goroutine.
LEMMA InvMainStep == ASSUME Inv, Main PROVE Inv'
  <1>1. CASE Connect \/ Run \/ SendExit \/ Stopped
    <2>1. UNCHANGED <<pid, processes, killed>>
      BY <1>1 DEF Connect, Run, SendExit, Stopped
    <2>2. Signal_ch' = Signal_ch
      BY <1>1 DEF Connect, Run, StartLoop, SendExit, Stopped
    <2>3. TypeOK'
      BY <1>1, <2>1, <2>2 DEF Connect, Run, SendExit, Stopped, Inv, TypeOK, processes
    <2>4. PidIsChild' /\ KnownOrKilled'
      BY <2>1 DEF Inv, PidIsChild, KnownOrKilled, processes
    <2>5. LoopInv'
      <3>1. CASE Connect
        BY <2>1, <3>1 DEF Connect, Inv, LoopInv
      <3>2. CASE Run
        BY <2>1, <3>2 DEF Run, Inv, LoopInv
      <3>3. CASE SendExit
        BY <2>1, <3>3, NAssumption DEF SendExit, Inv, LoopInv, Child
      <3>4. CASE Stopped
        BY <2>1, <3>4, NAssumption DEF Stopped, Inv, TypeOK, LoopInv, Child
      <3>. QED BY <1>1, <3>1, <3>2, <3>3, <3>4
    <2>. QED BY <2>3, <2>4, <2>5 DEF Inv
  <1>2. CASE _childStart
    <2>1. main = "start" /\ i \in Child /\ UNCHANGED <<loop, Signal_ch, zombie, killed>>
      BY <1>2 DEF _childStart
    <2>2. CASE main' = "panicked" /\ UNCHANGED <<i, pid, proc>>
      BY <2>1, <2>2 DEF Inv, TypeOK, PidIsChild, KnownOrKilled, LoopInv
    <2>3. ASSUME NEW p \in Pids, proc[p] = 0, proc' = [proc EXCEPT ![p] = i],
                 pid' = [pid EXCEPT ![i] = p], i' = i + 1, UNCHANGED main
          PROVE  Inv'
      <3>1. i \in 0..Other /\ i + 1 \in Nat /\ 0 \notin Child /\ p # 0 /\ i >= 1
        BY <2>1, NAssumption, PidsAssumption DEF Child, Other
      <3>2. /\ proc' \in [Pids -> 0..Other] /\ proc'[p] = i
            /\ \A q \in Pids : q # p => proc'[q] = proc[q]
        BY <2>3, <3>1 DEF Inv, TypeOK
      <3>3. /\ pid' \in [Child -> Pids \cup {0}] /\ pid'[i] = p
            /\ \A n \in Child : n # i => pid'[n] = pid[n]
        BY <2>1, <2>3 DEF Inv, TypeOK
      <3>4. TypeOK'
        BY <2>1, <2>3, <3>1, <3>2, <3>3 DEF Inv, TypeOK
      <3>5. PidIsChild'
        BY <2>1, <2>3, <3>1, <3>2, <3>3 DEF Inv, TypeOK, PidIsChild
      <3>6. pid[i] = 0
        BY <2>1 DEF Inv, TypeOK, LoopInv
      <3>7. KnownOrKilled'
        <4>. SUFFICES ASSUME NEW q \in Pids, proc'[q] \in Child
                      PROVE  pid'[proc'[q]] = q \/ q \in killed'
          BY DEF KnownOrKilled
        <4>1. CASE q = p
          BY <3>2, <3>3, <4>1
        <4>2. CASE q # p
          <5>1. proc'[q] = proc[q] /\ (pid[proc[q]] = q \/ q \in killed)
            BY <3>2, <4>2 DEF Inv, KnownOrKilled
          <5>2. q # 0
            BY PidsAssumption
          <5>3. pid[proc[q]] = q => proc[q] # i
            BY <3>6, <5>2
          <5>. QED BY <2>1, <3>3, <5>1, <5>3
        <4>. QED BY <4>1, <4>2
      <3>8. LoopInv'
        <4>1. \A n \in Child : n >= i + 1 => n # i /\ n >= i
          BY <3>1 DEF Child
        <4>2. \A n \in Child : n >= i + 1 => pid'[n] = 0
          BY <2>1, <3>3, <4>1 DEF Inv, LoopInv
        <4>3. i + 1 >= 1
          BY <3>1
        <4>. QED BY <2>1, <2>3, <4>2, <4>3 DEF LoopInv
      <3>. QED BY <3>4, <3>5, <3>7, <3>8 DEF Inv
    <2>. QED BY <1>2, <2>2, <2>3 DEF _childStart
  <1>3. CASE _childStop
    <2>1. /\ main = "stop" /\ i \in Child /\ i' = i + 1 /\ UNCHANGED <<main, loop, Signal_ch, processes>>
      BY <1>3 DEF _childStop, AfterKill
    <2>2. i \in Nat /\ i >= 1 /\ i + 1 \in Nat
      BY <2>1 DEF Inv, TypeOK, LoopInv
    <2>3. /\ pid' \in [Child -> Pids \cup {0}] /\ pid'[i] = 0
          /\ \A n \in Child : n # i => pid'[n] = pid[n]
          /\ killed' \subseteq Pids /\ killed \subseteq killed'
          /\ pid[i] # 0 => pid[i] \in killed'
      BY <1>3, <2>1 DEF _childStop, Inv, TypeOK
    <2>4. TypeOK'
      BY <2>1, <2>2, <2>3 DEF Inv, TypeOK, processes
    <2>5. PidIsChild'
      BY <2>1, <2>3 DEF Inv, PidIsChild, processes
    <2>6. KnownOrKilled'
      <3>. SUFFICES ASSUME NEW q \in Pids, proc'[q] \in Child
                    PROVE  pid'[proc'[q]] = q \/ q \in killed'
        BY DEF KnownOrKilled
      <3>1. proc'[q] = proc[q] /\ (pid[proc[q]] = q \/ q \in killed) /\ q # 0
        BY <2>1, PidsAssumption DEF Inv, KnownOrKilled, processes
      <3>2. CASE proc[q] = i
        BY <2>3, <3>1, <3>2
      <3>3. CASE proc[q] # i
        BY <2>3, <3>1, <3>3
      <3>. QED BY <3>2, <3>3
    <2>7. LoopInv'
      <3>1. \A n \in Child : n < i + 1 => n = i \/ n < i
        BY <2>2 DEF Child
      <3>2. \A n \in Child : n < i + 1 => pid'[n] = 0
        BY <2>1, <2>3, <3>1 DEF Inv, LoopInv
      <3>3. i + 1 >= 1
        BY <2>2
      <3>. QED BY <2>1, <3>2, <3>3 DEF LoopInv
    <2>. QED BY <2>4, <2>5, <2>6, <2>7 DEF Inv
  <1>. QED BY <1>1, <1>2, <1>3 DEF Main

LEMMA InvHolds == Spec => []Inv
  <1>1. Inv /\ UNCHANGED vars => Inv'
    BY DEF vars, processes, Inv, TypeOK, PidIsChild, KnownOrKilled, LoopInv
  <1>2. Inv /\ [Next]_vars => Inv'
    BY <1>1, InvMachineStep, InvMainStep DEF Next
  <1>. QED BY <1>2, InvInit, PTL DEF Spec

\* Every variable has the values its Go counterpart can take.
THEOREM TypeCorrect == Spec => []TypeOK
  <1>1. Inv => TypeOK
    BY DEF Inv
  <1>. QED BY <1>1, InvHolds, PTL

\* _childStop never signals a process that took the pid of a child: nobody waits for the
\* children, so no pid of theirs becomes free.
THEOREM PidKept == Spec => []PidIsChild
  <1>1. Inv => PidIsChild
    BY DEF Inv
  <1>. QED BY <1>1, InvHolds, PTL

\* When _childStop is through, every process started for the list has been signalled.
THEOREM AllReached == Spec => []StopReachesAll
  <1>1. Inv => StopReachesAll
    <2>. SUFFICES ASSUME Inv, main = "stopped", NEW p \in Pids, proc[p] \in Child
                  PROVE  p \in killed
      BY DEF StopReachesAll
    <2>1. pid[proc[p]] = 0 /\ p # 0
      BY PidsAssumption DEF Inv, LoopInv
    <2>. QED BY <2>1 DEF Inv, KnownOrKilled
  <1>. QED BY <1>1, InvHolds, PTL
=============================================================================
