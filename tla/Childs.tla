------------------------------- MODULE Childs -------------------------------
(***************************************************************************)
(* The life of the controller's main goroutine around its child processes: *)
(* connect to the resource manager, start the children of the list, run    *)
(* the channel loop until SIGTERM, and signal the children by pid.         *)
(*                                                                         *)
(* Nobody ever waits for a child: the channel loop only prints that a      *)
(* SIGCHLD came.  A child that has exited stays a zombie and keeps its     *)
(* pid, which no other process can get while the controller lives.         *)
(* What the handlers of the loop do is in Controll and Ipcc; here they     *)
(* only take their time, and one of them may stay in SendRecv for ever.    *)
(***************************************************************************)
EXTENDS Integers, Sequences

CONSTANTS
  N,          \* the length of ChildControll.childs
  Pids        \* the pids of the machine

ASSUME NAssumption == N \in Nat
ASSUME PidsAssumption == Pids \subseteq Nat \ {0}

VARIABLES
  main,       \* connect, start, run, stop, stopped, exited (os.Exit(1)) or panicked
  i,          \* the index of the loops of _childStart and _childStop
  pid,        \* ChildInfo.pid: 0 where no child runs
  loop,       \* the channel loop: not started, polling, in a handler, or at Exit_ch <- 1
  Signal_ch,  \* a channel of capacity 1
  proc,       \* the process table: the child that has the pid, Other, or 0 (free)
  zombie,     \* pids of children that have exited
  killed      \* history: pids _childStop has called kill for

vars == <<main, i, pid, loop, Signal_ch, proc, zombie, killed>>
processes == <<proc, zombie>>

Child == 1..N
Other == N + 1

Running(p) == proc[p] \in Child /\ p \notin zombie
Alive == main \notin {"exited", "panicked"}

\* InitBase has set up Signal_ch before anything else.
Init ==
  /\ main = "connect" /\ i = 1 /\ loop = "off" /\ Signal_ch = <<>>
  /\ pid = [n \in Child |-> 0]
  /\ proc = [p \in Pids |-> 0] /\ zombie = {} /\ killed = {}

-----------------------------------------------------------------------------
(* The machine.                                                            *)

\* Mutant: the channel has no bound.
Queued(sig) == Append(Signal_ch, sig)

\* signal.Notify drops a signal that finds the channel full.
Notified(sig) == IF Signal_ch = <<>> THEN <<sig>> ELSE Signal_ch

Term ==
  /\ Alive /\ Signal_ch' = Notified("SIGTERM")
  /\ UNCHANGED <<main, i, pid, loop, processes, killed>>

\* A child exits, because of a signal or of itself.
ChildExits(p) ==
  /\ Alive /\ Running(p)
  /\ zombie' = zombie \cup {p}
  /\ Signal_ch' = Notified("SIGCHLD")
  /\ UNCHANGED <<main, i, pid, loop, proc, killed>>

\* Another process starts, or ends and is waited for by its parent.
OtherProcess(p) ==
  /\ Alive /\ proc[p] \notin Child
  /\ proc' = [proc EXCEPT ![p] = IF @ = 0 THEN Other ELSE 0]
  /\ UNCHANGED <<main, i, pid, loop, Signal_ch, zombie, killed>>

-----------------------------------------------------------------------------
(* _initialize.                                                            *)

\* Without the resource manager the controller exits before it starts a child.
Connect ==
  /\ main = "connect" /\ main' \in {"start", "exited"}
  /\ UNCHANGED <<i, pid, loop, Signal_ch, processes, killed>>

\* One round of the loop of _childStart.  os.FindProcess never fails on Unix.  The
\* children before one that cannot be started go on when main panics.
_childStart ==
  /\ main = "start" /\ i \in Child
  /\ \/ \E p \in Pids :
          /\ proc[p] = 0
          /\ proc' = [proc EXCEPT ![p] = i]
          /\ pid' = [pid EXCEPT ![i] = p]
          /\ i' = i + 1
          /\ UNCHANGED main
     \/ main' = "panicked" /\ UNCHANGED <<i, pid, proc>>
  /\ UNCHANGED <<loop, Signal_ch, zombie, killed>>

\* Mutant: signals that came too early are thrown away.
DrainSignals == Signal_ch' = <<>>

\* ProcessRun starts the loop, which finds what waits on Signal_ch.
StartLoop == UNCHANGED Signal_ch

Run ==
  /\ main = "start" /\ i \notin Child
  /\ main' = "run" /\ loop' = "poll"
  /\ StartLoop
  /\ UNCHANGED <<i, pid, processes, killed>>

-----------------------------------------------------------------------------
(* The channel loop, which goes on while main stops the children.          *)

\* Mutant: the children that exited are waited for.
ReapChildren ==
  /\ proc' = [p \in Pids |-> IF p \in zombie THEN 0 ELSE proc[p]]
  /\ zombie' = {}

\* "CHILD EXIT" is printed.
ChildExit == UNCHANGED processes

TakeSignal ==
  /\ Alive /\ loop = "poll" /\ Signal_ch # <<>>
  /\ Signal_ch' = Tail(Signal_ch)
  /\ \/ Head(Signal_ch) = "SIGCHLD" /\ ChildExit /\ UNCHANGED loop
     \/ Head(Signal_ch) = "SIGTERM" /\ loop' = "exit" /\ UNCHANGED processes
  /\ UNCHANGED <<main, i, pid, killed>>

\* A message is ready on one of the other channels, whose handler is called ...
Exec ==
  /\ Alive /\ loop = "poll" /\ loop' = "handler"
  /\ UNCHANGED <<main, i, pid, Signal_ch, processes, killed>>

\* ... and returns, if what it waits for comes.
HandlerReturns ==
  /\ Alive /\ loop = "handler" /\ loop' = "poll"
  /\ UNCHANGED <<main, i, pid, Signal_ch, processes, killed>>

\* Exit_ch <- 1: ProcessRun returns to main.
SendExit ==
  /\ main = "run" /\ loop = "exit"
  /\ main' = "stop" /\ i' = 1 /\ loop' = "poll"
  /\ UNCHANGED <<pid, Signal_ch, processes, killed>>

-----------------------------------------------------------------------------
(* _terminate: _childStop(SIGTERM).                                        *)

\* Mutant: an error of kill is returned, as one of os.FindProcess is.
ReturnError(ok) == i' = IF ok THEN i + 1 ELSE N + 1

\* An error is only printed.
AfterKill(ok) == i' = i + 1

\* One round of the loop.  The signal may be refused, by a child that has changed its
\* user.
_childStop ==
  /\ main = "stop" /\ i \in Child
  /\ IF pid[i] = 0
     THEN i' = i + 1 /\ UNCHANGED <<pid, killed>>
     ELSE /\ pid' = [pid EXCEPT ![i] = 0]
          /\ killed' = killed \cup {pid[i]}
          /\ \E ok \in BOOLEAN : AfterKill(ok)
  /\ UNCHANGED <<main, loop, Signal_ch, processes>>

\* cn.Terminate follows, which is in Shutdown.
Stopped ==
  /\ main = "stop" /\ i \notin Child /\ main' = "stopped"
  /\ UNCHANGED <<i, pid, loop, Signal_ch, processes, killed>>

-----------------------------------------------------------------------------
Main == Connect \/ _childStart \/ Run \/ SendExit \/ _childStop \/ Stopped

Next ==
  \/ Main \/ TakeSignal \/ Exec \/ HandlerReturns \/ Term
  \/ \E p \in Pids : ChildExits(p) \/ OtherProcess(p)

Spec == Init /\ [][Next]_vars

(* Main runs, and the loop's select, which chooses at random among what is *)
(* ready, takes a signal that it finds again and again.  That a handler    *)
(* returns is not assumed.                                                 *)
FairSpec == Spec /\ WF_vars(Main) /\ SF_vars(TakeSignal)

-----------------------------------------------------------------------------
(* Properties.                                                             *)

\* Every variable has the values its Go counterpart can take.
TypeOK ==
  /\ main \in {"connect", "start", "run", "stop", "stopped", "exited", "panicked"}
  /\ i \in Nat /\ loop \in {"off", "poll", "handler", "exit"}
  /\ pid \in [Child -> Pids \cup {0}]
  /\ Signal_ch \in Seq({"SIGTERM", "SIGCHLD"}) /\ Len(Signal_ch) <= 1
  /\ proc \in [Pids -> 0..Other]
  /\ zombie \subseteq Pids /\ killed \subseteq Pids

\* A pid that _childStop will signal is the pid of that very child, dead or alive,
\* however long ago it exited and however many processes have come since.
PidIsChild == \A n \in Child : pid[n] # 0 => proc[pid[n]] = n

\* When _childStop is through, no child was spared, whatever happened to the others:
\* every process that was ever started for the list has been signalled.
StopReachesAll ==
  main = "stopped" => \A p \in Pids : proc[p] \in Child => p \in killed

\* As long as the loop comes back from its handlers again and again (one that stays in
\* SendRecv keeps it for ever), a SIGTERM that got into Signal_ch stops the children,
\* even if it came while they were being started, and however many messages and
\* signals follow, unless a child could not be started, or there was no resource
\* manager.
TermReachesChildren ==
  []<>(loop # "handler") =>
    ((Signal_ch = <<"SIGTERM">>) ~> (main \in {"stopped", "exited", "panicked"}))
=============================================================================
