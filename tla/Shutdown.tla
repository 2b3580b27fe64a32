------------------------------ MODULE Shutdown ------------------------------
(***************************************************************************)
(* How a daemon stops: the signal channel and the channel loop of          *)
(* chhandler.ProcessRun, and Terminate, which closes channels (base.go)    *)
(* while the loop, the signal package and the ipcs goroutines still run.   *)
(*                                                                         *)
(* Both daemons do this.  The controller has a status channel; the         *)
(* resource manager closed it in Init and has nil instead ("Status channel *)
(* Not Used.").  A send on a closed channel and the close of a nil channel *)
(* panic.  The handlers are seen as one channel with one handler.          *)
(***************************************************************************)
EXTENDS Integers, Sequences

CONSTANTS
  SignalCap,   \* capacity of Signal_ch, 1 in InitBase
  HasStatus    \* TRUE: the controller; FALSE: the resource manager

ASSUME CapAssumption == SignalCap \in Nat \ {0}
ASSUME StatusAssumption == HasStatus \in BOOLEAN

VARIABLES
  process,    \* running, exited (os.Exit(0)) or panicked
  main,       \* the main goroutine: in ProcessRun, or what it closes next
  loop,       \* the channel loop: polling, in a handler, or at Exit_ch <- 1
  Signal_ch,
  work,       \* TRUE while a message waits: its sender is blocked on ipcSrvRecv_ch
  closed,     \* the channels that are closed
  termed      \* history: the loop has taken a SIGTERM from Signal_ch

vars == <<process, main, loop, Signal_ch, work, closed, termed>>

Init ==
  /\ process = "running" /\ main = "run" /\ loop = "poll"
  /\ Signal_ch = <<>> /\ work = FALSE /\ termed = FALSE
  /\ closed = {}

\* The daemon is up, and will be after this step unless it panics.
Running == process = "running"
Panics(b) == process' = IF b THEN "panicked" ELSE process

-----------------------------------------------------------------------------
(* The signal package and the ipcs goroutines.                             *)

\* Mutant: a signal too many fits.
SignalRoomOffByOne == Len(Signal_ch) <= SignalCap

SignalHasRoom == Len(Signal_ch) < SignalCap

\* signal.Notify never blocks: a signal that finds the channel full is dropped.
Notify(sig) ==
  /\ Running
  /\ Signal_ch' = IF SignalHasRoom /\ "Signal_ch" \notin closed
                  THEN Append(Signal_ch, sig) ELSE Signal_ch
  /\ Panics("Signal_ch" \in closed)
  /\ UNCHANGED <<main, loop, work, closed, termed>>

\* A message, or the end of a connection, is put on ipcSrvRecv_ch.
clientReceive ==
  /\ Running
  /\ work' = (work \/ "ipcSrvRecv_ch" \notin closed)
  /\ Panics("ipcSrvRecv_ch" \in closed)
  /\ UNCHANGED <<main, loop, Signal_ch, closed, termed>>

-----------------------------------------------------------------------------
(* The channel loop of ProcessRun.                                         *)

\* Mutants: SIGCHLD has no case of its own; signals wait while there is work.
EveryCaseExits(sig) == "exit"
IdleOnly == loop = "poll" /\ ~work

\* "default" is also the case of nil, which a closed Signal_ch yields.
SignalCase(sig) == IF sig = "SIGCHLD" THEN "poll" ELSE "exit"

\* The select of ProcessRun is reached after every handler.
AtSelect == loop = "poll"

TakeSignal ==
  /\ Running /\ AtSelect
  /\ \/ /\ Signal_ch # <<>>
        /\ Signal_ch' = Tail(Signal_ch)
        /\ loop' = SignalCase(Head(Signal_ch))
        /\ termed' = (termed \/ Head(Signal_ch) = "SIGTERM")
     \/ /\ Signal_ch = <<>> /\ "Signal_ch" \in closed
        /\ loop' = SignalCase("nil")
        /\ UNCHANGED <<Signal_ch, termed>>
  /\ UNCHANGED <<process, main, work, closed>>

\* chData.Exec; a closed channel yields nil, which the handlers only log.
Exec ==
  /\ Running /\ loop = "poll"
  /\ work \/ "ipcSrvRecv_ch" \in closed
  /\ work' = FALSE /\ loop' = "handler"
  /\ UNCHANGED <<process, main, Signal_ch, closed, termed>>

HandlerReturns ==
  /\ Running /\ loop = "handler" /\ loop' = "poll"
  /\ UNCHANGED <<process, main, Signal_ch, work, closed, termed>>

\* Exit_ch <- 1 meets the main goroutine, or panics once Exit_ch is closed.
SendExit ==
  /\ Running /\ loop = "exit"
  /\ \/ /\ main = "run"
        /\ main' = "ipcSrvRecv_ch" /\ loop' = "poll"
        /\ UNCHANGED process
     \/ /\ "Exit_ch" \in closed
        /\ Panics(TRUE)
        /\ UNCHANGED <<main, loop>>
  /\ UNCHANGED <<Signal_ch, work, closed, termed>>

-----------------------------------------------------------------------------
(* Terminate, after ProcessRun has returned.                               *)

After(ch) == CASE ch = "ipcSrvRecv_ch" -> "Exit_ch"
               [] ch = "Exit_ch" -> "Signal_ch"
               [] ch = "Signal_ch" -> "Status_ch"
               [] ch = "Status_ch" -> "done"

\* Terminate and TerminateBase close one channel after the other.  Whoever is blocked
\* sending on the channel panics: a goroutine of ipcs with a message nobody has taken,
\* the loop at Exit_ch; and so does the close of a nil Status_ch.
Close ==
  /\ Running /\ main \notin {"run", "done"}
  /\ closed' = closed \cup {main}
  /\ main' = After(main)
  /\ Panics(\/ main = "ipcSrvRecv_ch" /\ work
            \/ main = "Exit_ch" /\ loop = "exit"
            \/ main = "Status_ch" /\ ~HasStatus)
  /\ UNCHANGED <<loop, Signal_ch, work, termed>>

\* os.Exit(0).
Exit ==
  /\ Running /\ main = "done" /\ process' = "exited"
  /\ UNCHANGED <<main, loop, Signal_ch, work, closed, termed>>

-----------------------------------------------------------------------------
Next ==
  \/ \E sig \in {"SIGTERM", "SIGCHLD"} : Notify(sig)
  \/ clientReceive \/ TakeSignal \/ Exec \/ HandlerReturns \/ SendExit \/ Close \/ Exit

Spec == Init /\ [][Next]_vars

(* Goroutines run; the select picks at random between a signal and a       *)
(* message, so a signal that waits is taken in the end.  Handlers return.  *)
Fairness ==
  /\ SF_vars(TakeSignal) /\ WF_vars(HandlerReturns) /\ WF_vars(SendExit)
  /\ WF_vars(Close) /\ WF_vars(Exit)

FairSpec == Spec /\ Fairness

-----------------------------------------------------------------------------
(* Properties.                                                             *)

\* Every variable has the values its Go counterpart can take.
TypeOK ==
  /\ process \in {"running", "exited", "panicked"}
  /\ main \in {"run", "ipcSrvRecv_ch", "Exit_ch", "Signal_ch", "Status_ch", "done"}
  /\ loop \in {"poll", "handler", "exit"}
  /\ Signal_ch \in Seq({"SIGTERM", "SIGCHLD"}) /\ Len(Signal_ch) <= SignalCap
  /\ work \in BOOLEAN /\ termed \in BOOLEAN
  /\ closed \subseteq {"ipcSrvRecv_ch", "Exit_ch", "Signal_ch", "Status_ch"}

\* Only a SIGTERM stops the daemon: no exit of a child, and no race between the
\* goroutines and the channels that Terminate closes, ends it before one is taken.
StopsOnTermOnly == main # "run" \/ process # "running" => termed

\* A SIGTERM that got into Signal_ch (it is dropped when a SIGCHLD fills the
\* channel) stops the daemon, however busy the clients keep the loop and whatever
\* signals follow.
TermStops ==
  (\E n \in 1..Len(Signal_ch) : Signal_ch[n] = "SIGTERM") ~> (process # "running")

\* "Status channel Not Used." (Rmanager.Init): the resource manager does nothing with
\* the nil Status_ch.
StatusNotUsed == [][~HasStatus => ~(Close /\ main = "Status_ch")]_vars
=============================================================================
