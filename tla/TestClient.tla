----------------------------- MODULE TestClient -----------------------------
(***************************************************************************)
(* The test program test_ipc_client/main.go: it connects to the            *)
(* controller's socket, says HELLO, prints what comes back and stops by    *)
(* SIGTERM.                                                                *)
(*                                                                         *)
(* It has a channel loop, signal channel and Terminate of its own, older   *)
(* than those of chhandler and base.  All its channels but signal_ch are   *)
(* without buffer, so a send is one step with the receive it meets.  Run   *)
(* blocks in SendMesage until the writer goroutine polls, before there is  *)
(* a loop.  Terminate closes the channels under reader and loop, and main  *)
(* returns, which ends the process.                                        *)
(***************************************************************************)
EXTENDS Integers, Sequences

CONSTANTS
  Sockets,     \* unix sockets of the machine
  Controller,  \* "/tmp/controller.sock"
  Echo,        \* "/tmp/echo.sock"
  MaxDials,    \* 3: further attempts of connect
  MaxMsg       \* bound: messages the server sends

ASSUME SocketAssumption == {Controller, Echo} \subseteq Sockets
ASSUME BoundAssumption == MaxDials \in Nat /\ MaxMsg \in Nat

VARIABLES
  process,    \* running, exited or panicked
  main,       \* where the main goroutine is; in Terminate, what it closes next
  dials,      \* further attempts made
  listening,  \* the sockets somebody listens on
  conn,       \* the server's end of the connection: none, open or closed
  sock,       \* how many messages wait in the connection
  sends,      \* how many the server has sent
  written,    \* TRUE: HELLO has been written
  writer, reader, loop,  \* where the three goroutines are
  signal_ch,
  closed,     \* the channels that are closed
  termed      \* history: the loop has taken a SIGTERM

vars == <<process, main, dials, listening, conn, sock, sends, written, writer, reader, loop,
          signal_ch, closed, termed>>
server == <<listening, conn, sock, sends>>
signals == <<signal_ch, termed>>

Running == process = "running"
Panics(b) == process' = IF b THEN "panicked" ELSE process

\* Init of the program has set up the channels.
Init ==
  /\ process = "running" /\ main = "dial" /\ dials = 0
  /\ listening = {} /\ conn = "none" /\ sock = 0 /\ sends = 0
  /\ written = FALSE /\ writer = "off" /\ reader = "off" /\ loop = "off"
  /\ signal_ch = <<>> /\ closed = {} /\ termed = FALSE

-----------------------------------------------------------------------------
(* The machine and the server.                                             *)

\* A server starts, or stops, to listen on a socket.
Listen(s) ==
  /\ Running /\ listening' = IF s \in listening THEN listening \ {s} ELSE listening \cup {s}
  /\ UNCHANGED <<process, main, dials, conn, sock, sends, written, writer, reader, loop,
                 signals, closed>>

\* The server sends a message, which answers HELLO.
ServerSends ==
  /\ conn = "open" /\ written /\ sends < MaxMsg
  /\ sends' = sends + 1 /\ sock' = sock + 1
  /\ UNCHANGED <<process, main, dials, listening, conn, written, writer, reader, loop,
                 signals, closed>>

ServerCloses ==
  /\ conn = "open" /\ conn' = "closed"
  /\ UNCHANGED <<process, main, dials, listening, sock, sends, written, writer, reader, loop,
                 signals, closed>>

\* Mutant: a signal is kept although another one waits.
Kept(sig) == Append(signal_ch, sig)

\* signal.Notify drops a signal that finds the channel full.
Notified(sig) == IF signal_ch = <<>> THEN <<sig>> ELSE signal_ch

Notify(sig) ==
  /\ Running /\ signal_ch' = Notified(sig)
  /\ UNCHANGED <<process, main, dials, server, written, writer, reader, loop, closed, termed>>

-----------------------------------------------------------------------------
(* Run, before the loop.                                                   *)

\* The connection is there: reader and writer start.
Connected ==
  /\ main' = "connected" /\ conn' = "open"
  /\ reader' = "read" /\ writer' = "poll"
  /\ UNCHANGED <<process, dials>>

\* The first net.Dial, to the controller's socket.
Dial ==
  /\ Running /\ main = "dial"
  /\ \/ Controller \in listening /\ Connected
     \/ /\ Controller \notin listening
        /\ main' = "redial"
        /\ UNCHANGED <<process, dials, conn, reader, writer>>
  /\ UNCHANGED <<listening, sock, sends, written, loop, signals, closed>>

\* "Reconnect.....": the further attempts go to another socket; then it panics.
Redial ==
  /\ Running /\ main = "redial"
  /\ \/ dials < MaxDials /\ Echo \in listening /\ Connected
     \/ /\ dials < MaxDials /\ Echo \notin listening
        /\ dials' = dials + 1
        /\ UNCHANGED <<process, main, conn, reader, writer>>
     \/ /\ dials = MaxDials
        /\ Panics(TRUE)
        /\ UNCHANGED <<main, dials, conn, reader, writer>>
  /\ UNCHANGED <<listening, sock, sends, written, loop, signals, closed>>

\* The request is made while reader and writer already run.
MakeHello ==
  /\ Running /\ main = "connected" /\ main' = "hello"
  /\ UNCHANGED <<process, dials, server, written, writer, reader, loop, signals, closed>>

\* send_ch <- HELLO meets the poll of writer.
SendMesage ==
  /\ Running /\ main = "hello" /\ writer = "poll"
  /\ main' = "start" /\ writer' = "write"
  /\ UNCHANGED <<process, dials, server, written, reader, loop, signals, closed>>

\* The loop is started, and Run waits on exit_ch.
StartLoop ==
  /\ Running /\ main = "start"
  /\ main' = "wait" /\ loop' = "poll"
  /\ UNCHANGED <<process, dials, server, written, writer, reader, signals, closed>>

-----------------------------------------------------------------------------
(* writer and reader.                                                      *)

\* Mutant: writer returns when there is nothing to write.
WriterReturns == "ended"

\* It sleeps a second and polls again.
AfterEmptyPoll == "sleep"

\* The default of select, which is not taken while a sender waits.
EmptyPoll ==
  /\ Running /\ writer = "poll" /\ main # "hello"
  /\ writer' = AfterEmptyPoll
  /\ UNCHANGED <<process, main, dials, server, written, reader, loop, signals, closed>>

Sleep ==
  /\ Running /\ writer = "sleep" /\ writer' = "poll"
  /\ UNCHANGED <<process, main, dials, server, written, reader, loop, signals, closed>>

\* A write that fails ends writer.
Write ==
  /\ Running /\ writer = "write"
  /\ \/ conn = "open" /\ written' = TRUE /\ writer' = "sleep"
     \/ conn = "closed" /\ writer' = "ended" /\ UNCHANGED written
  /\ UNCHANGED <<process, main, dials, server, reader, loop, signals, closed>>

\* Read returns messages, however many there are, or an error, which ends reader.  A
\* send on the closed recv_ch panics.
Read ==
  /\ Running /\ reader = "read"
  /\ \/ /\ sock > 0 /\ sock' = 0
        /\ reader' = "send"
        /\ Panics("recv_ch" \in closed)
     \/ /\ sock = 0 /\ conn = "closed"
        /\ reader' = "ended"
        /\ UNCHANGED <<process, sock>>
  /\ UNCHANGED <<main, dials, listening, conn, sends, written, writer, loop, signals, closed>>

-----------------------------------------------------------------------------
(* The loop of Run.                                                        *)

\* Mutants: SIGCHLD has no case of its own; signals have to wait for messages.
EveryCaseExits(sig) == "exit"
MessagesFirst == loop = "poll" /\ reader # "send" /\ sock = 0

\* The switch on the signal.
SignalCase(sig) == IF sig = "SIGCHLD" THEN "poll" ELSE "exit"

\* The select of the loop.
AtSelect == loop = "poll"

TakeSignal ==
  /\ Running /\ AtSelect /\ signal_ch # <<>>
  /\ signal_ch' = Tail(signal_ch)
  /\ loop' = SignalCase(Head(signal_ch))
  /\ termed' = (termed \/ Head(signal_ch) = "SIGTERM")
  /\ UNCHANGED <<process, main, dials, server, written, writer, reader, closed>>

\* recv_ch meets reader; ipc_recv_process prints the message.
TakeMessage ==
  /\ Running /\ AtSelect /\ reader = "send" /\ "recv_ch" \notin closed
  /\ reader' = "read"
  /\ UNCHANGED <<process, main, dials, server, written, writer, loop, signals, closed>>

\* exit_ch <- 1 meets Run, or panics once exit_ch is closed.
SendExit ==
  /\ Running /\ loop = "exit"
  /\ \/ main = "wait" /\ main' = "exit_ch" /\ loop' = "poll" /\ UNCHANGED process
     \/ "exit_ch" \in closed /\ Panics(TRUE) /\ UNCHANGED <<main, loop>>
  /\ UNCHANGED <<dials, server, written, writer, reader, signals, closed>>

-----------------------------------------------------------------------------
(* Terminate, and the end of main.                                         *)

After(ch) == CASE ch = "exit_ch" -> "recv_ch" [] ch = "recv_ch" -> "send_ch"
               [] ch = "send_ch" -> "return"

\* The close of a channel panics its blocked sender.
Close ==
  /\ Running /\ main \in {"exit_ch", "recv_ch", "send_ch"}
  /\ closed' = closed \cup {main}
  /\ main' = After(main)
  /\ Panics((main = "exit_ch" /\ loop = "exit") \/ (main = "recv_ch" /\ reader = "send"))
  /\ UNCHANGED <<dials, server, written, writer, reader, loop, signals>>

Return ==
  /\ Running /\ main = "return" /\ process' = "exited"
  /\ UNCHANGED <<main, dials, server, written, writer, reader, loop, signals, closed>>

-----------------------------------------------------------------------------
Main == Dial \/ Redial \/ MakeHello \/ SendMesage \/ StartLoop \/ Close \/ Return
LoopStep == TakeSignal \/ TakeMessage

Next ==
  \/ Main \/ SendExit \/ EmptyPoll \/ Sleep \/ Write \/ Read \/ LoopStep
  \/ ServerSends \/ ServerCloses
  \/ \E s \in Sockets : Listen(s)
  \/ \E sig \in {"SIGTERM", "SIGCHLD"} : Notify(sig)

Spec == Init /\ [][Next]_vars

(* Goroutines run; the select of the loop picks at random.  Nobody need    *)
(* listen or answer.                                                       *)
FairSpec ==
  /\ Spec
  /\ WF_vars(Main) /\ WF_vars(SendExit) /\ WF_vars(Sleep) /\ WF_vars(Write) /\ WF_vars(Read)
  /\ SF_vars(TakeSignal) /\ SF_vars(TakeMessage)

-----------------------------------------------------------------------------
(* Properties.                                                             *)

\* Every variable has the values its Go counterpart can take.
TypeOK ==
  /\ process \in {"running", "exited", "panicked"}
  /\ main \in {"dial", "redial", "connected", "hello", "start", "wait", "exit_ch",
               "recv_ch", "send_ch", "return"}
  /\ dials \in 0..MaxDials /\ listening \subseteq Sockets
  /\ conn \in {"none", "open", "closed"} /\ sock \in 0..MaxMsg /\ sends \in 0..MaxMsg
  /\ written \in BOOLEAN /\ writer \in {"off", "poll", "sleep", "write", "ended"}
  /\ reader \in {"off", "read", "send", "ended"} /\ loop \in {"off", "poll", "exit"}
  /\ signal_ch \in Seq({"SIGTERM", "SIGCHLD"}) /\ Len(signal_ch) <= 1
  /\ closed \subseteq {"exit_ch", "recv_ch", "send_ch"} /\ termed \in BOOLEAN

\* Once connected, nothing but a SIGTERM ends the program: neither the server's end nor
\* a message or a signal that meets a channel Terminate closes.
StopsOnTermOnly == ~Running /\ conn # "none" => termed

\* HELLO gets written although writer may have polled before Run sends it, unless the
\* server closes or the program is stopped first.
HelloWritten == (main = "connected") ~> (written \/ conn = "closed" \/ ~Running)

\* A SIGTERM that got into signal_ch ends the program, even before there is a loop and
\* however many messages the server sends.
TermStops == (signal_ch = <<"SIGTERM">>) ~> ~Running

\* "Reconnect....." (connect): an attempt to connect again fails only when the controller
\* is not listening.
Reconnects == [][dials' > dials => Controller \notin listening]_vars
=============================================================================
