------------------------------ MODULE Rmanager ------------------------------
(***************************************************************************)
(* The resource manager daemon: how rmanager/rman.go executes resource     *)
(* operations (start, stop, monitor) as resource-agent (RA) processes.     *)
(*                                                                         *)
(* One goroutine, the channel loop of chhandler.ProcessRun, receives       *)
(* requests, queues them to itself on rscOpRecvMessage_ch, runs ExecRscOp  *)
(* and drains rscOp_ch.  Each ExecRscOp adds a goroutine that runs the RA, *)
(* and waitChildFunc runs in a goroutine of its own (async) or on the loop *)
(* itself (sync).  time.AfterFunc adds the RA timeout and the monitor      *)
(* timer, each of which runs its callback in yet another goroutine.  They  *)
(* share the map onRsc, whose lock is held for one method call at a time.  *)
(*                                                                         *)
(* An action is one critical section or channel operation of one goroutine *)
(* together with the steps around it that no other goroutine can observe.  *)
(* The loop polls its channels in turn, and a poll may always go to a      *)
(* SIGCHLD instead (the select of ProcessRun), so it may take the ready    *)
(* channels in any order: the poll index is not part of the state.         *)
(***************************************************************************)
EXTENDS Integers, Sequences, FiniteSets

CONSTANTS
  Rsc,       \* resource ids (rscid)
  Req,       \* the requests clients send, each at most once
  Job,       \* identities for executions of ExecRscOp and their timers
  None,      \* no request, no job (a nil pointer)
  InboxCap,  \* capacity of rscOpRecvMessage_ch, 128 in NewRmanager
  EventCap   \* capacity of rscOp_ch, 128 in NewRmanager

Op == {"start", "stop", "monitor"}

(* What ExecRscOp uses of a MessageResourceControllRequest; repeat is      *)
(* interval > 0 and seqno tells requests apart.                            *)
Request == [seqno : Nat, rsc : Rsc, op : Op, repeat : BOOLEAN, async : BOOLEAN]

ASSUME ReqAssumption == Req \subseteq Request
ASSUME NoneAssumption == None \notin Req \cup Job
ASSUME CapAssumption == InboxCap \in Nat \ {0} /\ EventCap \in Nat \ {0}

VARIABLES
  unsent,    \* requests no client has sent yet
  inbox,     \* rscOpRecvMessage_ch
  loop,      \* where the channel loop is: a pc and its current request or job
  onRsc,     \* ExecrscMap.onRsc: the last operation recorded for a resource
  job,       \* executions in progress: RA process, timeout, waitChildFunc
  timer,     \* monitor timers, each named after the job that armed it
  events,    \* rscOp_ch: results on their way to the controller
  answered,  \* history: requests whose result _processRscOpEvent has sent
  alive      \* FALSE once the daemon has crashed

vars == <<unsent, inbox, loop, onRsc, job, timer, events, answered, alive>>

NoRecord == [op |-> "none", count |-> 0, tm |-> None, terminate |-> FALSE]
NoJob    == [req |-> None, ra |-> "none", timeout |-> "off", count |-> 0,
             wait |-> "none", ret |-> "none"]
NoTimer  == [req |-> None, state |-> "none"]
Idle     == [pc |-> "poll", req |-> None, job |-> None]

Init ==
  /\ unsent = Req
  /\ inbox = <<>>
  /\ loop = Idle
  /\ onRsc = [r \in Rsc |-> NoRecord]
  /\ job = [j \in Job |-> NoJob]
  /\ timer = [j \in Job |-> NoTimer]
  /\ events = <<>>
  /\ answered = {}
  /\ alive = TRUE

-----------------------------------------------------------------------------
(* Helpers.                                                                *)

\* A new Execrsc for onRsc; terminate always starts FALSE.
NewExecrsc(op, count, tm) ==
  [op |-> op, count |-> count, tm |-> tm, terminate |-> FALSE]

\* Mutant: the existing map entry is updated in place, its terminate mark kept.
RecordInPlace(r, op, count, tm) ==
  onRsc' = [onRsc EXCEPT ![r].op = op, ![r].count = count, ![r].tm = tm]

RecordRscOp(r, op, count, tm) ==
  onRsc' = [onRsc EXCEPT ![r] = NewExecrsc(op, count, tm)]

isRscTerminate(r) == onRsc[r].terminate

getCount(r) == onRsc[r].count

\* The two goroutines of an ExecRscOp.
NewJob(q) == [NoJob EXCEPT !.req = q, !.ra = "new", !.wait = "select"]

\* An identity no goroutine, timer or map entry refers to any more.
Fresh(k) ==
  /\ job[k] = NoJob
  /\ timer[k].state = "none"
  /\ \A r \in Rsc : onRsc[r].tm # k

Reaped(s) == s \in {"reaped_ok", "reaped_fail"}

\* The job is forgotten once both of its goroutines have returned.
Settled(b) == IF b.wait = "done" /\ Reaped(b.ra) THEN NoJob ELSE b

\* waitChildFunc of job j moves to pc, with the result it took used up and what is
\* left in the timeout channel garbage; when it returns, a loop that ran it
\* synchronously goes back to polling.
WaitGoesTo(j, pc) ==
  /\ job' = [job EXCEPT ![j] = Settled([@ EXCEPT !.wait = pc, !.ret = "none",
                                                   !.timeout = "off", !.count = 0])]
  /\ loop' = IF pc = "done" /\ loop.pc = "wait" /\ loop.job = j THEN Idle ELSE loop

\* setRscTerminate does something for a stop only.
AfterRearm(q) == IF q.op = "stop" THEN "terminate" ELSE "done"

\* Mutants: a monitor is repeated after an error too; the interval is not looked at.
RepeatAfterError(q, ret) == IF q.repeat THEN "rearm" ELSE AfterRearm(q)
RepeatOneShots(q, ret) == IF ret = "ok" THEN "rearm" ELSE AfterRearm(q)

\* "Set of the repetition of the monitor."
AfterReport(q, ret) == IF ret = "ok" /\ q.repeat THEN "rearm" ELSE AfterRearm(q)

-----------------------------------------------------------------------------
(* The channel loop.                                                       *)

\* A client's MESSAGE_ID_RESOUCE arrives on ipcSrvRecv_ch; its handler is called ...
_processIpcSrvMessage(q) ==
  /\ alive /\ loop = Idle /\ q \in unsent
  /\ unsent' = unsent \ {q}
  /\ loop' = [pc |-> "push", req |-> q, job |-> None]
  /\ UNCHANGED <<inbox, onRsc, job, timer, events, answered, alive>>

\* Mutant: one request too many fits.
InboxOffByOne == Len(inbox) <= InboxCap

InboxHasRoom == Len(inbox) < InboxCap

\* ... and puts it on the channel that this same loop drains.
_messageResourceHandler ==
  /\ alive /\ loop.pc = "push" /\ InboxHasRoom
  /\ inbox' = Append(inbox, loop.req)
  /\ loop' = Idle
  /\ UNCHANGED <<unsent, onRsc, job, timer, events, answered, alive>>

\* The tail of ExecRscOp: start the goroutine that runs the RA and wait for
\* the result in a goroutine (async) or right here (sync).
Launch(q, k) ==
  /\ Fresh(k)
  /\ job' = [job EXCEPT ![k] = NewJob(q)]
  /\ loop' = IF q.async THEN Idle ELSE [pc |-> "wait", req |-> None, job |-> k]

\* Stop() on a timer: it will not fire, unless its callback is already running.
StoppedTimer(t) == IF t.state = "armed" THEN NoTimer ELSE t

\* ExecRscOp is entered: a repeating operation is launched at once, any other
\* first stops the recorded monitor timer (stopTimer, for a stop only).
_processRscOpMessage(q, k) ==
  /\ alive /\ loop = Idle /\ inbox # <<>> /\ q = Head(inbox)
  /\ inbox' = Tail(inbox)
  /\ \/ /\ q.repeat
        /\ Launch(q, k)
        /\ UNCHANGED timer
     \/ /\ ~q.repeat
        /\ loop' = [pc |-> "record", req |-> q, job |-> None]
        /\ timer' = [j \in Job |-> IF q.op = "stop" /\ onRsc[q.rsc].tm = j
                                   THEN StoppedTimer(timer[j]) ELSE timer[j]]
        /\ UNCHANGED job
  /\ UNCHANGED <<unsent, onRsc, events, answered, alive>>

\* RecordRscOp of ExecRscOp, the delay, and the launch.
RecordAndLaunch(k) ==
  /\ alive /\ loop.pc = "record"
  /\ RecordRscOp(loop.req.rsc, loop.req.op, 0, None)
  /\ Launch(loop.req, k)
  /\ UNCHANGED <<unsent, inbox, timer, events, answered, alive>>

\* A result is taken from rscOp_ch and sent to the controller.
_processRscOpEvent ==
  /\ alive /\ loop = Idle /\ events # <<>>
  /\ answered' = answered \cup {Head(events).req}
  /\ events' = Tail(events)
  /\ UNCHANGED <<unsent, inbox, loop, onRsc, job, timer, alive>>

-----------------------------------------------------------------------------
(* The goroutine of ExecRscOp that runs the RA process, and its timeout.   *)

\* Mutant: no timeout is armed.
StartRAUntimed(j) ==
  /\ alive /\ job[j].ra = "new"
  /\ job' = [job EXCEPT ![j].ra = "running"]
  /\ UNCHANGED <<unsent, inbox, loop, onRsc, timer, events, answered, alive>>

\* os.StartProcess succeeds; the timeout is armed.
StartRA(j) ==
  /\ alive /\ job[j].ra = "new"
  /\ job' = [job EXCEPT ![j].ra = "running", ![j].timeout = "armed"]
  /\ UNCHANGED <<unsent, inbox, loop, onRsc, timer, events, answered, alive>>

\* The RA exits by itself, or dies of the SIGKILL it was sent.
RAExits(j) ==
  /\ alive
  /\ \E status \in {"exit_ok", "exit_fail"} :
       /\ \/ job[j].ra = "running"
          \/ job[j].ra = "killed" /\ status = "exit_fail"
       /\ job' = [job EXCEPT ![j].ra = status]
  /\ UNCHANGED <<unsent, inbox, loop, onRsc, timer, events, answered, alive>>

\* The timeout callback puts CL_ERROR on _timeout_ch.
TimeoutFires(j) ==
  /\ alive /\ job[j].timeout = "armed"
  /\ job' = [job EXCEPT ![j].timeout = "fired"]
  /\ UNCHANGED <<unsent, inbox, loop, onRsc, timer, events, answered, alive>>

\* Mutant: _fin_ch has no buffer, a send on it needs the select of waitChildFunc.
FinChUnbuffered(b) == b.wait = "select"

\* _fin_ch has room for 12 results and gets one.
FinChHasRoom(b) == TRUE

\* Wait() returns: the timeout is stopped and the result, with the recorded
\* count read by getCount, goes to the buffered _fin_ch (where nobody looks any
\* more once the select has taken the timeout).
ReapRA(j) ==
  LET b == job[j] IN
  /\ alive /\ b.ra \in {"exit_ok", "exit_fail"} /\ FinChHasRoom(b)
  /\ job' = [job EXCEPT ![j] = Settled(
       [b EXCEPT !.ra = IF b.ra = "exit_ok" THEN "reaped_ok" ELSE "reaped_fail",
                 !.timeout = IF b.timeout = "armed" THEN "off" ELSE b.timeout,
                 !.count = IF b.wait = "select" THEN getCount(b.req.rsc) ELSE 0])]
  /\ UNCHANGED <<unsent, inbox, loop, onRsc, timer, events, answered, alive>>

-----------------------------------------------------------------------------
(* waitChildFunc.                                                          *)

\* The result of a repeated monitor is not sent while it keeps succeeding.
QuietMonitor(b) ==
  b.req.op = "monitor" /\ b.req.repeat /\ b.count > 0 /\ b.ra = "reaped_ok"

\* The select takes the result from _fin_ch.
SelectFin(j) ==
  LET b   == job[j]
      ret == IF b.ra = "reaped_ok" THEN "ok" ELSE "error"
  IN /\ alive /\ b.wait = "select" /\ Reaped(b.ra)
     /\ \/ /\ isRscTerminate(b.req.rsc) \/ QuietMonitor(b)
           /\ WaitGoesTo(j, AfterReport(b.req, ret))
        \/ /\ ~(isRscTerminate(b.req.rsc) \/ QuietMonitor(b))
           /\ job' = [job EXCEPT ![j].wait = "report", ![j].ret = ret,
                                 ![j].timeout = "off", ![j].count = 0]
           /\ UNCHANGED loop
     /\ UNCHANGED <<unsent, inbox, onRsc, timer, events, answered, alive>>

\* The select takes CL_ERROR from _timeout_ch and kills the RA; both channels
\* may be ready, and the RA may be gone already.
SelectTimeout(j) ==
  /\ alive /\ job[j].wait = "select" /\ job[j].timeout = "fired"
  /\ job' = [job EXCEPT ![j].wait = "report", ![j].ret = "error",
                        ![j].timeout = "off",
                        ![j].ra = IF @ = "running" THEN "killed" ELSE @]
  /\ UNCHANGED <<unsent, inbox, loop, onRsc, timer, events, answered, alive>>

\* The result is sent on rscOp_ch, which blocks while the channel is full.
Report(j) ==
  /\ alive /\ job[j].wait = "report" /\ Len(events) < EventCap
  /\ events' = Append(events, [req |-> job[j].req, ret |-> job[j].ret])
  /\ WaitGoesTo(j, AfterReport(job[j].req, job[j].ret))
  /\ UNCHANGED <<unsent, inbox, onRsc, timer, answered, alive>>

\* setMonitor: record without a timer and arm the timer, ...
SetMonitor(j) ==
  LET q == job[j].req IN
  /\ alive /\ job[j].wait = "rearm"
  /\ RecordRscOp(q.rsc, q.op, 1, None)
  /\ timer' = [timer EXCEPT ![j] = [req |-> q, state |-> "armed"]]
  /\ WaitGoesTo(j, "rearm2")
  /\ UNCHANGED <<unsent, inbox, events, answered, alive>>

\* ... then record again, with the timer.
SetMonitorTimer(j) ==
  LET q == job[j].req IN
  /\ alive /\ job[j].wait = "rearm2"
  /\ RecordRscOp(q.rsc, q.op, 1, j)
  /\ WaitGoesTo(j, AfterRearm(q))
  /\ UNCHANGED <<unsent, inbox, timer, events, answered, alive>>

\* setRscTerminate marks whatever is recorded for the resource by now.
SetRscTerminate(j) ==
  LET r == job[j].req.rsc IN
  /\ alive /\ job[j].wait = "terminate"
  /\ onRsc' = IF onRsc[r].op = "none" THEN onRsc
              ELSE [onRsc EXCEPT ![r].terminate = TRUE]
  /\ WaitGoesTo(j, "done")
  /\ UNCHANGED <<unsent, inbox, timer, events, answered, alive>>

-----------------------------------------------------------------------------
(* The monitor timer of time.AfterFunc.                                    *)

TimerFires(j) ==
  /\ alive /\ timer[j].state = "armed"
  /\ timer' = [timer EXCEPT ![j].state = "fired"]
  /\ UNCHANGED <<unsent, inbox, loop, onRsc, job, events, answered, alive>>

\* Mutant: the terminate mark is looked at, which is set when the stop is over.
TerminatedInstead(r) == onRsc[r].terminate

isRscStop(r) == onRsc[r].op = "stop"

\* The callback: nothing after a stop, else ExecRscOp again, asynchronously.
TimerCallback(j, k) ==
  /\ alive /\ timer[j].state = "fired"
  /\ timer' = [timer EXCEPT ![j] = NoTimer]
  /\ \/ /\ isRscStop(timer[j].req.rsc)
        /\ UNCHANGED job
     \/ /\ ~isRscStop(timer[j].req.rsc)
        /\ Fresh(k)
        /\ job' = [job EXCEPT ![k] = NewJob(timer[j].req)]
  /\ UNCHANGED <<unsent, inbox, loop, onRsc, events, answered, alive>>

-----------------------------------------------------------------------------
(* Crashes.  All that the daemon holds in memory is gone.                  *)

Dies ==
  /\ alive' = FALSE
  /\ inbox' = <<>> /\ events' = <<>> /\ loop' = Idle
  /\ onRsc' = [r \in Rsc |-> NoRecord]
  /\ job' = [j \in Job |-> NoJob]
  /\ timer' = [j \in Job |-> NoTimer]
  /\ UNCHANGED <<unsent, answered>>

\* os.StartProcess fails: the branch that should report CL_NOT_FORK reads
\* _p.Pid of a nil _p.
StartRAFails(j) == alive /\ job[j].ra = "new" /\ Dies

\* stopTimer and getCount read onRsc without its lock.  While another
\* goroutine is inside RecordRscOp the Go runtime may detect the concurrent
\* map read and map write and abort.
UnlockedReads == {j \in Job : job[j].ra \in {"exit_ok", "exit_fail"}}
LoopReadsUnlocked ==
  loop = Idle /\ inbox # <<>> /\ Head(inbox).op = "stop" /\ ~Head(inbox).repeat
WritesByJobs == {j \in Job : job[j].wait \in {"rearm", "rearm2"}}

ConcurrentMapFault ==
  /\ alive
  /\ \/ LoopReadsUnlocked /\ WritesByJobs # {}
     \/ UnlockedReads # {} /\ (loop.pc = "record" \/ WritesByJobs # {})
  /\ Dies

\* ParametersToString, called before ExecRscOp, reads as many parameters as the request
\* says it has: with fewer in its list the daemon panics.  Any request may be such a one.
ParametersFault == alive /\ loop = Idle /\ inbox # <<>> /\ Dies

Faults == ConcurrentMapFault \/ ParametersFault

-----------------------------------------------------------------------------
RAGoroutine(j) == StartRA(j) \/ ReapRA(j)

waitChildFunc(j) ==
  \/ SelectFin(j) \/ SelectTimeout(j) \/ Report(j)
  \/ SetMonitor(j) \/ SetMonitorTimer(j) \/ SetRscTerminate(j)

JobStep(j) ==
  \/ RAGoroutine(j) \/ waitChildFunc(j)
  \/ RAExits(j) \/ TimeoutFires(j) \/ TimerFires(j) \/ StartRAFails(j)
  \/ \E k \in Job : TimerCallback(j, k)

LoopStep ==
  \/ _messageResourceHandler \/ _processRscOpEvent
  \/ \E q \in Req, k \in Job : _processRscOpMessage(q, k)
  \/ \E k \in Job : RecordAndLaunch(k)

Next ==
  \/ \E q \in Req : _processIpcSrvMessage(q)
  \/ LoopStep
  \/ \E j \in Job : JobStep(j)
  \/ Faults

Spec == Init /\ [][Next]_vars

(* The Go scheduler runs every goroutine that can run, timers fire, a      *)
(* process that was sent SIGKILL dies, and the loop polls every channel    *)
(* again and again.  An RA need never exit, a client need never send.      *)
(* Fairness is strong where an action needs a Fresh identity: the program  *)
(* never runs out of those, so only the bound on Job can disable it.       *)
Fairness ==
  /\ WF_vars(_messageResourceHandler) /\ WF_vars(_processRscOpEvent)
  /\ SF_vars(\E q \in Req, k \in Job : _processRscOpMessage(q, k))
  /\ SF_vars(\E k \in Job : RecordAndLaunch(k))
  /\ \A j \in Job :
       /\ WF_vars(RAGoroutine(j)) /\ WF_vars(waitChildFunc(j))
       /\ WF_vars(job[j].ra = "killed" /\ RAExits(j))
       /\ WF_vars(TimeoutFires(j) \/ TimerFires(j))
       /\ WF_vars(\E k \in Job : TimerCallback(j, k))

FairSpec == Spec /\ Fairness

-----------------------------------------------------------------------------
(* Properties.                                                             *)

RecordType == [op : Op \cup {"none"}, count : {0, 1}, tm : Job \cup {None},
               terminate : BOOLEAN]
JobType == [req : Req \cup {None},
            ra : {"none", "new", "running", "killed", "exit_ok", "exit_fail",
                  "reaped_ok", "reaped_fail"},
            timeout : {"off", "armed", "fired"}, count : {0, 1},
            wait : {"none", "select", "report", "rearm", "rearm2", "terminate", "done"},
            ret : {"none", "ok", "error"}]
TimerType == [req : Req \cup {None}, state : {"none", "armed", "fired"}]
LoopType == [pc : {"poll", "push", "record", "wait"}, req : Req \cup {None},
             job : Job \cup {None}]
EventType == [req : Req, ret : {"ok", "error"}]

\* Every variable has the values its Go counterpart can take, and no channel
\* holds more than its capacity.
TypeOK ==
  /\ unsent \subseteq Req /\ answered \subseteq Req
  /\ inbox \in Seq(Req) /\ Len(inbox) <= InboxCap
  /\ events \in Seq(EventType) /\ Len(events) <= EventCap
  /\ loop \in LoopType
  /\ onRsc \in [Rsc -> RecordType]
  /\ job \in [Job -> JobType]
  /\ timer \in [Job -> TimerType]
  /\ alive \in BOOLEAN

\* The RA process of a job may be running.
HasRA(j) == job[j].ra \in {"new", "running", "killed", "exit_ok", "exit_fail"}

\* A request never has two RA processes at once: a recurring monitor does not
\* overlap its own previous run, whatever the order in which its timeout, its
\* exit, the re-arming of its timer and the timer callback happen.
NoOverlappingRuns ==
  \A j, k \in Job : HasRA(j) /\ HasRA(k) /\ job[j].req = job[k].req => j = k

\* A one-shot request (interval 0) is answered at most once: although its
\* timeout and its exit can both put a result on a channel, at most one result
\* reaches rscOp_ch, and none does after one was sent to the controller.
OneShotAnsweredOnce ==
  /\ \A m \in 1..Len(events) : ~events[m].req.repeat =>
       /\ events[m].req \notin answered
       /\ \A n \in 1..Len(events) : events[n].req = events[m].req => m = n
  /\ \A j \in Job : job[j].wait \in {"select", "report"} /\ ~job[j].req.repeat =>
       /\ job[j].req \notin answered
       /\ \A n \in 1..Len(events) : events[n].req # job[j].req

\* Clients ask for stops to be executed once and synchronously.
SyncStops == \A q \in Req : q.op = "stop" => ~q.async /\ ~q.repeat

\* While stops are synchronous, isRscTerminate never makes waitChildFunc drop
\* the result of a synchronous one-shot operation, although the terminate mark
\* of an earlier stop and re-arming monitors write the same map entry.
SyncAnswerKept ==
  SyncStops =>
    \A j \in Job : job[j].wait = "select" /\ ~job[j].req.repeat /\ ~job[j].req.async
                     => ~onRsc[job[j].req.rsc].terminate

\* Nothing but stops is in progress or queued for a stopped resource; monitor
\* timers may still be pending.
StopRecorded(r) ==
  /\ onRsc[r].op = "stop"
  /\ \A j \in Job : job[j] # NoJob /\ job[j].req.rsc = r => job[j].req.op = "stop"
  /\ \A n \in 1..Len(inbox) : inbox[n].rsc # r
  /\ loop.req # None => loop.req.rsc # r

\* A stop that was recorded while no other execution on the resource was in
\* flight is final: until the next request for that resource no RA but the stop
\* is run on it, even if start had replaced the record of an armed monitor timer
\* (so that stopTimer missed it) or the timer callback was already under way.
StopIsFinal ==
  [][\A r \in Rsc : StopRecorded(r) =>
       \/ StopRecorded(r)'
       \/ \E q \in unsent \ unsent' : q.rsc = r
       \/ ~alive']_vars

\* The loop waits for room on a channel that it alone drains, and will for ever:
\* waitChildFunc of a synchronous operation runs on the loop and sends on rscOp_ch, and
\* a request is queued by the loop that takes it.
LoopBlocked ==
  \/ loop.pc = "wait" /\ job[loop.job].wait = "report" /\ Len(events) >= EventCap
  \/ loop.pc = "push" /\ Len(inbox) >= InboxCap

\* Every synchronous one-shot request that was received is answered, unless the
\* daemon crashes or the loop blocks on a full channel of its own: an RA that hangs is
\* timed out and killed, and nothing but that room can keep the loop for ever.
SyncAnswered ==
  SyncStops =>
    \A q \in Req : ~q.repeat /\ ~q.async =>
      (q \notin unsent /\ alive) ~> (q \in answered \/ ~alive \/ LoopBlocked)

\* Both goroutines of every execution return, as long as the loop does not block on a
\* full channel of its own: whichever of exit and timeout the select takes, the other
\* one does not block for ever on its channel.
ExecutionsEnd == \A j \in Job : (job[j] # NoJob) ~> (job[j] = NoJob \/ LoopBlocked)
=============================================================================
