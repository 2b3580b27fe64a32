--------------------------- MODULE RmanagerProofs ---------------------------
(***************************************************************************)
(* The resource manager, for any requests, resources, executions and       *)
(* capacities:                                                             *)
(*   I.   its variables keep their types, and no nil is used;              *)
(*   II.  a stop is final, the answer of a synchronous operation is kept,  *)
(*        a one-shot request is answered once, and no request ever has two *)
(*        runs at once;                                                    *)
(*   III. it implements the abstract executor: every step of its           *)
(*        goroutines is a step of Executor or leaves place, ready,         *)
(*        answered and alive unchanged.                                    *)
(***************************************************************************)
EXTENDS RmanagerImplements, TLAPS

-----------------------------------------------------------------------------
(* I.   Types.                                                             *)

WaitPC == {"select", "report", "rearm", "rearm2", "terminate", "done"}

\* The wait for the RA has ended with its result.
Finished(b) ==
  \/ b.wait \in {"rearm", "rearm2"}
  \/ b.wait = "report" /\ b.ret = "ok"

AtWork(b) == b.req \in Req /\ b.ra # "none" /\ b.wait # "none"

\* What the code relies on when it uses a reference: a job, timer or loop at work has
\* a request, a result that is reported is there, and a monitor is only repeated after
\* its RA has been waited for.
RefsOK ==
  /\ \A j \in Job : job[j] = NoJob \/ AtWork(job[j])
  /\ \A j \in Job : job[j].wait = "report" => job[j].ret # "none"
  /\ \A j \in Job : Finished(job[j]) => Reaped(job[j].ra)
  /\ \A j \in Job : timer[j].state # "none" => timer[j].req \in Req
  /\ loop.pc \in {"push", "record"} => loop.req \in Req

TypeInv == TypeOK /\ RefsOK

\* A job that goes on, or is forgotten, is a job.
LEMMA SettledType ==
  ASSUME NEW b \in JobType
  PROVE  Settled(b) \in JobType
  <1>1. NoJob \in JobType
    BY DEF NoJob, JobType
  <1>. QED BY <1>1 DEF Settled

\* A job that was just launched has its request and waits in its select.
LEMMA NewJobType ==
  ASSUME NEW q \in Req
  PROVE  /\ NewJob(q) \in JobType
         /\ NewJob(q).req = q /\ NewJob(q).ra = "new" /\ NewJob(q).wait = "select"
         /\ NewJob(q) # NoJob
  BY NoneAssumption DEF NewJob, NoJob, JobType

\* waitChildFunc of job j moves on.
LEMMA WaitGoesToType ==
  ASSUME TypeOK, NEW j \in Job, NEW pc \in WaitPC, WaitGoesTo(j, pc)
  PROVE  /\ job' \in [Job -> JobType]
         /\ loop' \in {loop, Idle}
         /\ \A i \in Job \ {j} : job'[i] = job[i]
         /\ \/ job'[j] = NoJob
            \/ /\ job'[j].req = job[j].req /\ job'[j].ra = job[j].ra
               /\ job'[j].wait = pc /\ job'[j].ret = "none"
  <1>. DEFINE b == [job[j] EXCEPT !.wait = pc, !.ret = "none", !.timeout = "off", !.count = 0]
  <1>1. job[j] \in JobType
    BY DEF TypeOK
  <1>2. b \in JobType
    BY <1>1 DEF JobType, WaitPC
  <1>3. Settled(b) \in JobType
    BY <1>2, SettledType
  <1>4. job' = [job EXCEPT ![j] = Settled(b)]
    BY DEF WaitGoesTo
  <1>5. b.req = job[j].req /\ b.ra = job[j].ra /\ b.wait = pc /\ b.ret = "none"
    BY <1>1 DEF JobType
  <1>6. Settled(b) = NoJob \/ Settled(b) = b
    BY DEF Settled
  <1>. HIDE DEF b
  <1>. QED BY <1>3, <1>4, <1>5, <1>6 DEF TypeOK, WaitGoesTo
-----------------------------------------------------------------------------
(* Type correctness.                                                       *)

\* The daemon starts with the types it should have.
LEMMA TypeInit == Init => TypeInv
  <1>. SUFFICES ASSUME Init PROVE TypeInv
    OBVIOUS
  <1>1. NoJob \in JobType
    BY DEF NoJob, JobType
  <1>2. NoTimer \in TimerType
    BY DEF NoTimer, TimerType
  <1>3. Idle \in LoopType
    BY DEF Idle, LoopType
  <1>4. NoRecord \in RecordType
    BY DEF NoRecord, RecordType
  <1>5. TypeOK
    BY <1>1, <1>2, <1>3, <1>4, CapAssumption DEF Init, TypeOK
  <1>6. /\ \A j \in Job : job[j] = NoJob /\ timer[j] = NoTimer
        /\ loop = Idle
    BY DEF Init
  <1>7. RefsOK
    BY <1>6 DEF RefsOK, AtWork, Finished, NoJob, NoTimer, Idle
  <1>. QED BY <1>5, <1>7 DEF TypeInv

\* A step that changes one job only, and keeps what RefsOK says of it.
LEMMA JobStepType ==
  ASSUME TypeInv, NEW j \in Job, NEW b \in JobType,
         job' = [job EXCEPT ![j] = b],
         b = NoJob \/ AtWork(b),
         b.wait = "report" => b.ret # "none",
         Finished(b) => Reaped(b.ra),
         UNCHANGED <<unsent, inbox, loop, onRsc, timer, events, answered, alive>>
  PROVE  TypeInv'
  <1>1. job \in [Job -> JobType]
    BY DEF TypeInv, TypeOK
  <1>2. \A i \in Job : job'[i] = IF i = j THEN b ELSE job[i]
    BY <1>1
  <1>3. TypeOK'
    BY <1>1 DEF TypeInv, TypeOK
  <1>4. RefsOK'
    BY <1>2 DEF TypeInv, RefsOK
  <1>. QED BY <1>3, <1>4 DEF TypeInv

\* waitChildFunc of job j moves on to pc; the rest of the step is what keeps the
\* types of the shared variables.
LEMMA WaitStepType ==
  ASSUME TypeInv, NEW j \in Job, NEW pc \in WaitPC, WaitGoesTo(j, pc),
         job[j].req \in Req, job[j].ra # "none",
         pc # "report",
         pc \in {"rearm", "rearm2"} => Reaped(job[j].ra),
         onRsc' \in [Rsc -> RecordType],
         timer' \in [Job -> TimerType],
         \A i \in Job : timer'[i].state # "none" => timer'[i].req \in Req,
         events' \in Seq(EventType), Len(events') <= EventCap,
         UNCHANGED <<unsent, inbox, answered, alive>>
  PROVE  TypeInv'
  <1>1. /\ job' \in [Job -> JobType]
        /\ loop' \in {loop, Idle}
        /\ \A i \in Job \ {j} : job'[i] = job[i]
        /\ \/ job'[j] = NoJob
           \/ /\ job'[j].req = job[j].req /\ job'[j].ra = job[j].ra
              /\ job'[j].wait = pc /\ job'[j].ret = "none"
    BY WaitGoesToType, Zenon DEF TypeInv
  <1>2. Idle \in LoopType /\ Idle.pc = "poll"
    BY DEF Idle, LoopType
  <1>3. TypeOK'
    BY <1>1, <1>2 DEF TypeInv, TypeOK
  <1>4. NoJob.wait = "none"
    BY DEF NoJob
  <1>5. pc # "none"
    BY DEF WaitPC
  <1>6. RefsOK'
    BY <1>1, <1>2, <1>4, <1>5 DEF TypeInv, RefsOK, AtWork, Finished
  <1>. QED BY <1>3, <1>6 DEF TypeInv

\* A crashed daemon holds nothing.
LEMMA DiesType ==
  ASSUME TypeInv, Dies
  PROVE  TypeInv'
  <1>1. NoJob \in JobType
    BY DEF NoJob, JobType
  <1>2. NoTimer \in TimerType
    BY DEF NoTimer, TimerType
  <1>3. Idle \in LoopType
    BY DEF Idle, LoopType
  <1>4. NoRecord \in RecordType
    BY DEF NoRecord, RecordType
  <1>5. TypeOK'
    <2>1. /\ inbox' = <<>> /\ events' = <<>>
          /\ unsent' \subseteq Req /\ answered' \subseteq Req /\ alive' \in BOOLEAN
      BY DEF TypeInv, TypeOK, Dies
    <2>2. /\ onRsc' \in [Rsc -> RecordType]
          /\ job' \in [Job -> JobType]
          /\ timer' \in [Job -> TimerType]
          /\ loop' \in LoopType
      BY <1>1, <1>2, <1>3, <1>4 DEF Dies
    <2>3. /\ inbox' \in Seq(Req) /\ Len(inbox') <= InboxCap
          /\ events' \in Seq(EventType) /\ Len(events') <= EventCap
      BY <2>1, CapAssumption
    <2>. QED BY <2>1, <2>2, <2>3 DEF TypeOK
  <1>6. /\ \A j \in Job : job'[j] = NoJob /\ timer'[j] = NoTimer
        /\ loop' = Idle
    BY DEF Dies
  <1>7. RefsOK'
    BY <1>6 DEF RefsOK, AtWork, Finished, NoJob, NoTimer, Idle
  <1>. QED BY <1>5, <1>7 DEF TypeInv

\* A record that ExecRscOp or setMonitor makes is a record.
LEMMA RecordType1 ==
  ASSUME TypeOK, NEW r \in Rsc, NEW op \in Op, NEW c \in {0, 1},
         NEW tm \in Job \cup {None}, RecordRscOp(r, op, c, tm)
  PROVE  onRsc' \in [Rsc -> RecordType]
  <1>1. NewExecrsc(op, c, tm) \in RecordType
    BY DEF NewExecrsc, RecordType
  <1>. QED BY <1>1 DEF TypeOK, RecordRscOp

\* ExecRscOp starts its two goroutines.
LEMMA LaunchType ==
  ASSUME TypeInv, NEW q \in Req, NEW k \in Job, Launch(q, k),
         inbox' \in Seq(Req), Len(inbox') <= InboxCap, onRsc' \in [Rsc -> RecordType],
         UNCHANGED <<unsent, timer, events, answered, alive>>
  PROVE  TypeInv'
  <1>1. /\ NewJob(q) \in JobType /\ NewJob(q).req = q /\ NewJob(q).ra = "new"
        /\ NewJob(q).wait = "select"
    BY NewJobType
  <1>2. \A i \in Job : job'[i] = IF i = k THEN NewJob(q) ELSE job[i]
    BY DEF Launch, TypeInv, TypeOK
  <1>3. loop' \in LoopType /\ loop'.pc \in {"poll", "wait"}
    BY DEF Launch, Idle, LoopType
  <1>4. TypeOK'
    BY <1>1, <1>3 DEF TypeInv, TypeOK, Launch
  <1>5. RefsOK'
    BY <1>1, <1>2, <1>3 DEF TypeInv, RefsOK, AtWork, Finished
  <1>. QED BY <1>4, <1>5 DEF TypeInv

\* The steps of the channel loop keep the types.
LEMMA TypeLoopStep ==
  ASSUME TypeInv, LoopStep \/ \E q \in Req : _processIpcSrvMessage(q)
  PROVE  TypeInv'
  <1>. USE DEF TypeInv
  <1>1. ASSUME NEW q \in Req, _processIpcSrvMessage(q) PROVE TypeInv'
    <2>1. TypeOK'
      BY <1>1 DEF _processIpcSrvMessage, TypeOK, LoopType
    <2>2. RefsOK'
      BY <1>1 DEF _processIpcSrvMessage, RefsOK
    <2>. QED BY <2>1, <2>2
  <1>2. ASSUME _messageResourceHandler PROVE TypeInv'
    <2>1. loop.req \in Req
      BY <1>2 DEF _messageResourceHandler, RefsOK
    <2>2. Idle \in LoopType /\ Idle.pc = "poll"
      BY DEF Idle, LoopType
    <2>3. inbox' \in Seq(Req) /\ Len(inbox') <= InboxCap
      BY <1>2, <2>1, CapAssumption DEF _messageResourceHandler, InboxHasRoom, TypeOK
    <2>4. TypeOK'
      BY <1>2, <2>2, <2>3 DEF _messageResourceHandler, TypeOK
    <2>5. RefsOK'
      BY <1>2, <2>2 DEF _messageResourceHandler, RefsOK
    <2>. QED BY <2>4, <2>5
  <1>3. ASSUME _processRscOpEvent PROVE TypeInv'
    <2>1. events # <<>> /\ events \in Seq(EventType)
      BY <1>3 DEF _processRscOpEvent, TypeOK
    <2>2. Head(events) \in EventType /\ Tail(events) \in Seq(EventType)
          /\ Len(Tail(events)) <= Len(events)
      BY <2>1
    <2>3. Head(events).req \in Req
      BY <2>2 DEF EventType
    <2>4. TypeOK'
      BY <1>3, <2>2, <2>3, CapAssumption DEF _processRscOpEvent, TypeOK
    <2>5. RefsOK'
      BY <1>3 DEF _processRscOpEvent, RefsOK
    <2>. QED BY <2>4, <2>5
  <1>4. ASSUME NEW q \in Req, NEW k \in Job, _processRscOpMessage(q, k) PROVE TypeInv'
    <2>1. /\ inbox' \in Seq(Req) /\ Len(inbox') <= InboxCap
          /\ UNCHANGED <<unsent, onRsc, events, answered, alive>>
      BY <1>4, CapAssumption DEF _processRscOpMessage, TypeOK
    <2>2. CASE Launch(q, k) /\ UNCHANGED timer
      <3>1. onRsc' \in [Rsc -> RecordType]
        BY <2>1 DEF TypeOK
      <3>. QED BY <2>1, <2>2, <3>1, LaunchType
    <2>3. CASE /\ loop' = [pc |-> "record", req |-> q, job |-> None]
               /\ timer' = [j \in Job |-> IF q.op = "stop" /\ onRsc[q.rsc].tm = j
                                          THEN StoppedTimer(timer[j]) ELSE timer[j]]
               /\ UNCHANGED job
      <3>1. NoTimer \in TimerType /\ NoTimer.state = "none"
        BY DEF NoTimer, TimerType
      <3>2. \A j \in Job : timer'[j] \in {timer[j], NoTimer}
        BY <2>3 DEF StoppedTimer
      <3>3. timer' \in [Job -> TimerType]
        <4>1. \A j \in Job : timer'[j] \in TimerType
          BY <3>1, <3>2 DEF TypeOK
        <4>. QED BY <4>1, <2>3
      <3>4. TypeOK'
        BY <2>1, <2>3, <3>3 DEF TypeOK, LoopType
      <3>5. RefsOK'
        BY <2>3, <3>1, <3>2 DEF RefsOK
      <3>. QED BY <3>4, <3>5
    <2>. QED BY <1>4, <2>2, <2>3 DEF _processRscOpMessage
  <1>5. ASSUME NEW k \in Job, RecordAndLaunch(k) PROVE TypeInv'
    <2>1. PICK q \in Req : q = loop.req
      BY <1>5 DEF RecordAndLaunch, RefsOK
    <2>2. q.rsc \in Rsc /\ q.op \in Op
      BY ReqAssumption DEF Request
    <2>3. onRsc' \in [Rsc -> RecordType]
      BY <1>5, <2>1, <2>2 DEF RecordAndLaunch, RecordRscOp, NewExecrsc, RecordType, TypeOK
    <2>4. /\ Launch(q, k)
          /\ inbox' \in Seq(Req) /\ Len(inbox') <= InboxCap
          /\ UNCHANGED <<unsent, timer, events, answered, alive>>
      BY <1>5, <2>1 DEF RecordAndLaunch, Launch, TypeOK
    <2>. QED BY <2>3, <2>4, LaunchType
  <1>. QED BY <1>1, <1>2, <1>3, <1>4, <1>5 DEF LoopStep

\* A step of the RA process of job j, or of its timeout: waitChildFunc stays where it is.
LEMMA RAStepType ==
  ASSUME TypeInv, NEW j \in Job, job[j] # NoJob, NEW b \in JobType,
         b.req = job[j].req, b.wait = job[j].wait, b.ret = job[j].ret,
         b.ra # "none", Reaped(job[j].ra) => Reaped(b.ra),
         job' = [job EXCEPT ![j] = b] \/ job' = [job EXCEPT ![j] = Settled(b)],
         UNCHANGED <<unsent, inbox, loop, onRsc, timer, events, answered, alive>>
  PROVE  TypeInv'
  <1>1. /\ AtWork(job[j])
        /\ job[j].wait = "report" => job[j].ret # "none"
        /\ Finished(job[j]) => Reaped(job[j].ra)
    BY DEF TypeInv, RefsOK
  <1>2. /\ AtWork(b)
        /\ b.wait = "report" => b.ret # "none"
        /\ Finished(b) => Reaped(b.ra)
    BY <1>1 DEF AtWork, Finished
  <1>3. CASE job' = [job EXCEPT ![j] = b]
    BY <1>2, <1>3, JobStepType
  <1>4. CASE job' = [job EXCEPT ![j] = NoJob]
    <2>1. NoJob \in JobType
      BY DEF NoJob, JobType
    <2>2. NoJob.wait = "none"
      BY DEF NoJob
    <2>3. /\ NoJob.wait = "report" => NoJob.ret # "none"
          /\ Finished(NoJob) => Reaped(NoJob.ra)
      BY <2>2 DEF Finished
    <2>. QED BY <1>4, <2>1, <2>3, JobStepType
  <1>. QED BY <1>3, <1>4 DEF Settled

\* The steps of the goroutines and timers of an execution keep the types.
LEMMA TypeJobStep ==
  ASSUME TypeInv, NEW j \in Job, JobStep(j)
  PROVE  TypeInv'
  <1>1. job \in [Job -> JobType] /\ job[j] \in JobType
    BY DEF TypeInv, TypeOK
  <1>2. /\ job[j] = NoJob \/ AtWork(job[j])
        /\ job[j].wait = "report" => job[j].ret # "none"
        /\ Finished(job[j]) => Reaped(job[j].ra)
    BY DEF TypeInv, RefsOK
  <1>3. NoJob.ra = "none" /\ NoJob.wait = "none" /\ NoJob.timeout = "off"
    BY DEF NoJob
  <1>4. /\ onRsc \in [Rsc -> RecordType]
        /\ timer \in [Job -> TimerType]
        /\ \A i \in Job : timer[i].state # "none" => timer[i].req \in Req
        /\ events \in Seq(EventType) /\ Len(events) <= EventCap
    BY DEF TypeInv, TypeOK, RefsOK
  <1>5. \A q \in Req : q.rsc \in Rsc /\ q.op \in Op /\ q.repeat \in BOOLEAN
    BY ReqAssumption DEF Request
  <1>6. \A q \in Req, ret \in {"ok", "error"} :
          /\ AfterReport(q, ret) \in WaitPC \ {"report", "rearm2", "select"}
          /\ AfterRearm(q) \in WaitPC \ {"report", "rearm", "rearm2", "select"}
          /\ AfterReport(q, ret) = "rearm" => ret = "ok"
    BY DEF AfterReport, AfterRearm, WaitPC
  <1>7. ASSUME StartRA(j) PROVE TypeInv'
    <2>. DEFINE b == [job[j] EXCEPT !.ra = "running", !.timeout = "armed"]
    <2>1. job' = [job EXCEPT ![j] = b]
      BY <1>7 DEF StartRA
    <2>2. /\ b \in JobType /\ b.req = job[j].req /\ b.ra = "running"
          /\ b.wait = job[j].wait /\ b.ret = job[j].ret
      BY <1>1 DEF JobType
    <2>3. job[j] # NoJob /\ ~Reaped(job[j].ra)
      BY <1>7, <1>3 DEF StartRA, Reaped
    <2>4. UNCHANGED <<unsent, inbox, loop, onRsc, timer, events, answered, alive>>
      BY <1>7 DEF StartRA
    <2>. HIDE DEF b
    <2>. QED BY <2>1, <2>2, <2>3, <2>4, RAStepType
  <1>8. ASSUME RAExits(j) PROVE TypeInv'
    <2>1. PICK status \in {"exit_ok", "exit_fail"} : job' = [job EXCEPT ![j].ra = status]
      BY <1>8 DEF RAExits
    <2>. DEFINE b == [job[j] EXCEPT !.ra = status]
    <2>2. /\ b \in JobType /\ b.req = job[j].req /\ b.ra = status
          /\ b.wait = job[j].wait /\ b.ret = job[j].ret
      BY <1>1 DEF JobType
    <2>3. job[j] # NoJob /\ ~Reaped(job[j].ra)
      BY <1>8, <1>3 DEF RAExits, Reaped
    <2>4. UNCHANGED <<unsent, inbox, loop, onRsc, timer, events, answered, alive>>
      BY <1>8 DEF RAExits
    <2>5. job' = [job EXCEPT ![j] = b]
      BY <2>1
    <2>. HIDE DEF b
    <2>. QED BY <2>2, <2>3, <2>4, <2>5, RAStepType
  <1>9. ASSUME TimeoutFires(j) PROVE TypeInv'
    <2>. DEFINE b == [job[j] EXCEPT !.timeout = "fired"]
    <2>1. job' = [job EXCEPT ![j] = b]
      BY <1>9 DEF TimeoutFires
    <2>2. /\ b \in JobType /\ b.req = job[j].req /\ b.ra = job[j].ra
          /\ b.wait = job[j].wait /\ b.ret = job[j].ret
      BY <1>1 DEF JobType
    <2>3. job[j] # NoJob
      BY <1>9, <1>3 DEF TimeoutFires
    <2>4. b.ra # "none"
      BY <1>2, <2>2, <2>3 DEF AtWork
    <2>5. UNCHANGED <<unsent, inbox, loop, onRsc, timer, events, answered, alive>>
      BY <1>9 DEF TimeoutFires
    <2>. HIDE DEF b
    <2>. QED BY <2>1, <2>2, <2>3, <2>4, <2>5, RAStepType
  <1>10. ASSUME ReapRA(j) PROVE TypeInv'
    <2>. DEFINE ra == IF job[j].ra = "exit_ok" THEN "reaped_ok" ELSE "reaped_fail"
                timeout == IF job[j].timeout = "armed" THEN "off" ELSE job[j].timeout
                count == IF job[j].wait = "select" THEN getCount(job[j].req.rsc) ELSE 0
                b == [job[j] EXCEPT !.ra = ra, !.timeout = timeout, !.count = count]
    <2>1. job' = [job EXCEPT ![j] = Settled(b)]
      BY <1>10 DEF ReapRA, Settled
    <2>2. job[j] # NoJob
      BY <1>10, <1>3 DEF ReapRA
    <2>3. count \in {0, 1} /\ timeout \in {"off", "armed", "fired"}
      BY <1>1, <1>2, <1>4, <1>5, <2>2 DEF getCount, AtWork, RecordType, JobType
    <2>4. ra \in {"reaped_ok", "reaped_fail"}
      OBVIOUS
    <2>. HIDE DEF ra, timeout, count
    <2>5. /\ b \in JobType /\ b.req = job[j].req /\ b.ra # "none" /\ Reaped(b.ra)
          /\ b.wait = job[j].wait /\ b.ret = job[j].ret
      BY <1>1, <2>3, <2>4 DEF JobType, Reaped
    <2>6. UNCHANGED <<unsent, inbox, loop, onRsc, timer, events, answered, alive>>
      BY <1>10 DEF ReapRA
    <2>. HIDE DEF b
    <2>. QED BY <2>1, <2>2, <2>5, <2>6, RAStepType
  <1>11. ASSUME SelectFin(j) PROVE TypeInv'
    <2>1. job[j] # NoJob /\ job[j].req \in Req /\ job[j].ra # "none" /\ Reaped(job[j].ra)
      BY <1>11, <1>2, <1>3 DEF SelectFin, AtWork
    <2>. DEFINE ret == IF job[j].ra = "reaped_ok" THEN "ok" ELSE "error"
    <2>2. UNCHANGED <<unsent, inbox, onRsc, timer, events, answered, alive>>
      BY <1>11 DEF SelectFin
    <2>3. CASE WaitGoesTo(j, AfterReport(job[j].req, ret))
      <3>1. PICK pc \in WaitPC \ {"report", "rearm2", "select"} : pc = AfterReport(job[j].req, ret)
        BY <1>6, <2>1
      <3>2. WaitGoesTo(j, pc)
        BY <2>3, <3>1 DEF WaitGoesTo
      <3>3. /\ onRsc' \in [Rsc -> RecordType]
            /\ timer' \in [Job -> TimerType]
            /\ \A i \in Job : timer'[i].state # "none" => timer'[i].req \in Req
            /\ events' \in Seq(EventType) /\ Len(events') <= EventCap
            /\ UNCHANGED <<unsent, inbox, answered, alive>>
        BY <1>4, <2>2
      <3>. QED BY <2>1, <3>1, <3>2, <3>3, WaitStepType
    <2>4. CASE /\ job' = [job EXCEPT ![j].wait = "report", ![j].ret = ret,
                                     ![j].timeout = "off", ![j].count = 0]
               /\ UNCHANGED loop
      <3>. DEFINE b == [job[j] EXCEPT !.wait = "report", !.ret = ret,
                                      !.timeout = "off", !.count = 0]
      <3>1. job' = [job EXCEPT ![j] = b]
        BY <2>4
      <3>2. /\ b \in JobType /\ b.req = job[j].req /\ b.ra = job[j].ra
            /\ b.wait = "report" /\ b.ret \in {"ok", "error"}
        BY <1>1 DEF JobType
      <3>. HIDE DEF b
      <3>3. /\ AtWork(b)
            /\ b.wait = "report" => b.ret # "none"
            /\ Finished(b) => Reaped(b.ra)
        BY <2>1, <3>2 DEF AtWork
      <3>. QED BY <2>2, <2>4, <3>1, <3>2, <3>3, JobStepType
    <2>. QED BY <1>11, <2>3, <2>4 DEF SelectFin
  <1>12. ASSUME SelectTimeout(j) PROVE TypeInv'
    <2>. DEFINE ra == IF job[j].ra = "running" THEN "killed" ELSE job[j].ra
                b == [job[j] EXCEPT !.wait = "report", !.ret = "error", !.timeout = "off",
                                    !.ra = ra]
    <2>1. job[j].req \in Req /\ ra # "none"
      BY <1>12, <1>2, <1>3 DEF SelectTimeout, AtWork
    <2>2. job' = [job EXCEPT ![j] = b]
      BY <1>12 DEF SelectTimeout
    <2>3. ra \in {"none", "new", "running", "killed", "exit_ok", "exit_fail",
                  "reaped_ok", "reaped_fail"}
      BY <1>1 DEF JobType
    <2>. HIDE DEF ra
    <2>4. /\ b \in JobType /\ b.req = job[j].req /\ b.ra = ra
          /\ b.wait = "report" /\ b.ret = "error"
      BY <1>1, <2>3 DEF JobType
    <2>. HIDE DEF b
    <2>5. /\ AtWork(b)
          /\ b.wait = "report" => b.ret # "none"
          /\ Finished(b) => Reaped(b.ra)
      BY <2>1, <2>4 DEF AtWork, Finished
    <2>6. UNCHANGED <<unsent, inbox, loop, onRsc, timer, events, answered, alive>>
      BY <1>12 DEF SelectTimeout
    <2>. QED BY <2>2, <2>4, <2>5, <2>6, JobStepType
  <1>13. ASSUME Report(j) PROVE TypeInv'
    <2>1. /\ job[j].req \in Req /\ job[j].ra # "none" /\ job[j].ret \in {"ok", "error"}
          /\ job[j].ret = "ok" => Reaped(job[j].ra)
      BY <1>13, <1>1, <1>2, <1>3 DEF Report, AtWork, Finished, JobType
    <2>2. PICK pc \in WaitPC \ {"report", "rearm2", "select"} :
            pc = AfterReport(job[j].req, job[j].ret)
      BY <1>6, <2>1
    <2>3. pc = "rearm" => Reaped(job[j].ra)
      BY <1>6, <2>1, <2>2
    <2>4. WaitGoesTo(j, pc)
      BY <1>13, <2>2 DEF Report, WaitGoesTo
    <2>5. events' \in Seq(EventType) /\ Len(events') <= EventCap
      <3>1. [req |-> job[j].req, ret |-> job[j].ret] \in EventType
        BY <2>1 DEF EventType
      <3>2. events' = Append(events, [req |-> job[j].req, ret |-> job[j].ret])
            /\ Len(events) < EventCap
        BY <1>13 DEF Report
      <3>. QED BY <1>4, <3>1, <3>2, CapAssumption
    <2>6. /\ onRsc' \in [Rsc -> RecordType]
          /\ timer' \in [Job -> TimerType]
          /\ \A i \in Job : timer'[i].state # "none" => timer'[i].req \in Req
          /\ UNCHANGED <<unsent, inbox, answered, alive>>
      BY <1>13, <1>4 DEF Report
    <2>. QED BY <2>1, <2>2, <2>3, <2>4, <2>5, <2>6, WaitStepType
  <1>14. ASSUME SetMonitor(j) PROVE TypeInv'
    <2>1. job[j].req \in Req /\ job[j].ra # "none" /\ Reaped(job[j].ra)
      BY <1>14, <1>2, <1>3 DEF SetMonitor, AtWork, Finished
    <2>2. onRsc' \in [Rsc -> RecordType]
      BY <1>14, <1>4, <1>5, <2>1 DEF SetMonitor, RecordRscOp, NewExecrsc, RecordType
    <2>3. [req |-> job[j].req, state |-> "armed"] \in TimerType
      BY <2>1 DEF TimerType
    <2>4. timer' = [timer EXCEPT ![j] = [req |-> job[j].req, state |-> "armed"]]
      BY <1>14 DEF SetMonitor
    <2>5. /\ timer' \in [Job -> TimerType]
          /\ \A i \in Job : timer'[i].state # "none" => timer'[i].req \in Req
      BY <1>4, <2>1, <2>3, <2>4
    <2>6. WaitGoesTo(j, "rearm2") /\ UNCHANGED <<unsent, inbox, answered, alive>>
          /\ events' \in Seq(EventType) /\ Len(events') <= EventCap
      BY <1>14, <1>4 DEF SetMonitor
    <2>. QED BY <2>1, <2>2, <2>5, <2>6, WaitStepType DEF WaitPC
  <1>15. ASSUME SetMonitorTimer(j) PROVE TypeInv'
    <2>1. job[j].req \in Req /\ job[j].ra # "none"
      BY <1>15, <1>2, <1>3 DEF SetMonitorTimer, AtWork
    <2>2. onRsc' \in [Rsc -> RecordType]
      BY <1>15, <1>4, <1>5, <2>1 DEF SetMonitorTimer, RecordRscOp, NewExecrsc, RecordType
    <2>3. PICK pc \in WaitPC \ {"report", "rearm", "rearm2", "select"} :
            pc = AfterRearm(job[j].req)
      BY <1>6, <2>1
    <2>4. WaitGoesTo(j, pc)
      BY <1>15, <2>3 DEF SetMonitorTimer, WaitGoesTo
    <2>5. /\ timer' \in [Job -> TimerType]
          /\ \A i \in Job : timer'[i].state # "none" => timer'[i].req \in Req
          /\ events' \in Seq(EventType) /\ Len(events') <= EventCap
          /\ UNCHANGED <<unsent, inbox, answered, alive>>
      BY <1>15, <1>4 DEF SetMonitorTimer
    <2>. QED BY <2>1, <2>2, <2>3, <2>4, <2>5, WaitStepType
  <1>16. ASSUME SetRscTerminate(j) PROVE TypeInv'
    <2>1. job[j].req \in Req /\ job[j].ra # "none"
      BY <1>16, <1>2, <1>3 DEF SetRscTerminate, AtWork
    <2>2. onRsc' \in [Rsc -> RecordType]
      BY <1>16, <1>4, <1>5, <2>1 DEF SetRscTerminate, RecordType
    <2>3. WaitGoesTo(j, "done")
      BY <1>16 DEF SetRscTerminate
    <2>4. /\ timer' \in [Job -> TimerType]
          /\ \A i \in Job : timer'[i].state # "none" => timer'[i].req \in Req
          /\ events' \in Seq(EventType) /\ Len(events') <= EventCap
          /\ UNCHANGED <<unsent, inbox, answered, alive>>
      BY <1>16, <1>4 DEF SetRscTerminate
    <2>. QED BY <2>1, <2>2, <2>3, <2>4, WaitStepType DEF WaitPC
  <1>17. ASSUME TimerFires(j) PROVE TypeInv'
    <2>1. [timer[j] EXCEPT !.state = "fired"] \in TimerType
      BY <1>4 DEF TimerType
    <2>2. timer[j].req \in Req
      BY <1>17, <1>4 DEF TimerFires
    <2>3. /\ timer' \in [Job -> TimerType]
          /\ \A i \in Job : timer'[i].state # "none" => timer'[i].req \in Req
      BY <1>17, <1>4, <2>1, <2>2 DEF TimerFires, TimerType
    <2>4. UNCHANGED <<unsent, inbox, loop, onRsc, job, events, answered, alive>>
      BY <1>17 DEF TimerFires
    <2>5. TypeOK'
      BY <2>3, <2>4 DEF TypeInv, TypeOK
    <2>6. RefsOK'
      BY <2>3, <2>4 DEF TypeInv, RefsOK
    <2>. QED BY <2>5, <2>6 DEF TypeInv
  <1>18. ASSUME NEW k \in Job, TimerCallback(j, k) PROVE TypeInv'
    <2>1. PICK q \in Req : q = timer[j].req
      BY <1>18, <1>4 DEF TimerCallback
    <2>2. NoTimer \in TimerType /\ NoTimer.state = "none"
      BY DEF NoTimer, TimerType
    <2>3. /\ timer' \in [Job -> TimerType]
          /\ \A i \in Job : timer'[i].state # "none" => timer'[i].req \in Req
      BY <1>18, <1>4, <2>2 DEF TimerCallback
    <2>4. job' = job \/ job' = [job EXCEPT ![k] = NewJob(q)]
      BY <1>18, <2>1 DEF TimerCallback
    <2>5. /\ NewJob(q) \in JobType /\ NewJob(q).req = q /\ NewJob(q).ra = "new"
          /\ NewJob(q).wait = "select"
      BY NewJobType
    <2>6. job' \in [Job -> JobType] /\ \A i \in Job : job'[i] \in {job[i], NewJob(q)}
      BY <1>1, <2>4, <2>5
    <2>7. UNCHANGED <<unsent, inbox, loop, onRsc, events, answered, alive>>
      BY <1>18 DEF TimerCallback
    <2>8. TypeOK'
      BY <2>3, <2>6, <2>7 DEF TypeInv, TypeOK
    <2>9. RefsOK'
      BY <2>3, <2>5, <2>6, <2>7 DEF TypeInv, RefsOK, AtWork, Finished
    <2>. QED BY <2>8, <2>9 DEF TypeInv
  <1>19. ASSUME StartRAFails(j) PROVE TypeInv'
    BY <1>19, DiesType DEF StartRAFails
  <1>. QED BY <1>7, <1>8, <1>9, <1>10, <1>11, <1>12, <1>13, <1>14, <1>15, <1>16, <1>17,
              <1>18, <1>19 DEF JobStep, RAGoroutine, waitChildFunc

\* A step that changes nothing keeps the types.
LEMMA TypeStutter == TypeInv /\ UNCHANGED vars => TypeInv'
  <1>. SUFFICES ASSUME TypeInv, UNCHANGED vars PROVE TypeInv'
    OBVIOUS
  <1>1. TypeOK'
    BY DEF TypeInv, TypeOK, vars
  <1>2. RefsOK'
    BY DEF TypeInv, RefsOK, vars
  <1>. QED BY <1>1, <1>2 DEF TypeInv

\* Every step keeps the types.
LEMMA TypeStep == TypeInv /\ [Next]_vars => TypeInv'
  <1>. SUFFICES ASSUME TypeInv, [Next]_vars PROVE TypeInv'
    OBVIOUS
  <1>1. CASE LoopStep \/ \E q \in Req : _processIpcSrvMessage(q)
    BY <1>1, TypeLoopStep
  <1>2. CASE \E j \in Job : JobStep(j)
    BY <1>2, TypeJobStep
  <1>3. CASE Faults
    BY <1>3, DiesType DEF Faults, ConcurrentMapFault, ParametersFault
  <1>4. CASE UNCHANGED vars
    BY <1>4, TypeStutter
  <1>. QED BY <1>1, <1>2, <1>3, <1>4 DEF Next

\* The invariant that the type correctness of the daemon rests on.
LEMMA TypeInvHolds == Spec => []TypeInv
  BY TypeInit, TypeStep, PTL DEF Spec

\* The daemon never uses a reference that is not there and never holds a value its
\* Go counterpart cannot take; no channel holds more than its capacity.
THEOREM TypeCorrect == Spec => [](TypeOK /\ RefsOK)
  BY TypeInvHolds, PTL DEF TypeInv
-----------------------------------------------------------------------------
(* What a step of an execution, by its RA process, its timeout or its      *)
(* waitChildFunc, does to the state.                                       *)

HasRAIn(b) == b.ra \in {"new", "running", "killed", "exit_ok", "exit_fail"}

ExecStep(j) == RAGoroutine(j) \/ waitChildFunc(j) \/ RAExits(j) \/ TimeoutFires(j)

\* A job may move from one pc of waitChildFunc to another one.
MayGoTo(b, pc) ==
  \/ pc \in {b.wait, "none", "done"}
  \/ pc = "report" /\ b.wait = "select"
  \/ pc = "rearm" /\ b.wait \in {"select", "report"} /\ b.req.repeat
  \/ pc = "rearm2" /\ b.wait = "rearm"
  \/ pc = "terminate" /\ b.wait \notin {"none", "done"} /\ b.req.op = "stop"

JobEffect(j) ==
  /\ job[j] # NoJob
  /\ \A i \in Job : i # j => job'[i] = job[i]
  /\ \/ job'[j] = NoJob
     \/ job'[j].req = job[j].req /\ (HasRAIn(job'[j]) => HasRAIn(job[j]))
  /\ MayGoTo(job[j], job'[j].wait)

LoopEffect(j) ==
  \/ loop' = loop
  \/ /\ loop.pc = "wait" /\ loop.job = j
     /\ loop' = Idle /\ job'[j].wait \in {"none", "done"}

RecordEffect(j) ==
  \A r \in Rsc :
    /\ r # job[j].req.rsc => onRsc'[r] = onRsc[r]
    /\ onRsc'[r].op \in {onRsc[r].op, job[j].req.op}
    /\ onRsc'[r].terminate => onRsc[r].terminate \/ job[j].wait = "terminate"

TimerEffect(j) ==
  \/ timer' = timer
  \/ /\ job[j].wait = "rearm" /\ job'[j].wait \in {"none", "rearm2"} /\ ~HasRAIn(job'[j])
     /\ timer' = [timer EXCEPT ![j] = [req |-> job[j].req, state |-> "armed"]]

EventEffect(j) ==
  \/ events' = events
  \/ /\ job[j].wait = "report" /\ job'[j].wait \notin {"select", "report"}
     /\ \E ret \in {"ok", "error"} : events' = Append(events, [req |-> job[j].req, ret |-> ret])

Effect(j) ==
  /\ JobEffect(j) /\ LoopEffect(j) /\ RecordEffect(j) /\ TimerEffect(j) /\ EventEffect(j)
  /\ UNCHANGED <<unsent, inbox, answered, alive>>

\* A step of the RA process or the timeout of job j.
LEMMA RAEffect ==
  ASSUME TypeInv, NEW j \in Job, StartRA(j) \/ ReapRA(j) \/ RAExits(j) \/ TimeoutFires(j)
  PROVE  Effect(j)
  <1>1. job \in [Job -> JobType] /\ job[j] \in JobType
    BY DEF TypeInv, TypeOK
  <1>2. NoJob.ra = "none" /\ NoJob.timeout = "off" /\ NoJob.wait = "none"
    BY DEF NoJob
  <1>3. /\ job[j] # NoJob
        /\ UNCHANGED <<unsent, inbox, loop, onRsc, timer, events, answered, alive>>
    BY <1>2 DEF StartRA, ReapRA, RAExits, TimeoutFires
  <1>4. /\ \A i \in Job : i # j => job'[i] = job[i]
        /\ \/ job'[j] = NoJob
           \/ /\ job'[j].req = job[j].req /\ (HasRAIn(job'[j]) => HasRAIn(job[j]))
              /\ job'[j].wait = job[j].wait
    <2>1. CASE StartRA(j)
      BY <1>1, <2>1 DEF StartRA, JobType, HasRAIn
    <2>2. CASE RAExits(j)
      BY <1>1, <2>2 DEF RAExits, JobType, HasRAIn
    <2>3. CASE TimeoutFires(j)
      BY <1>1, <2>3 DEF TimeoutFires, JobType, HasRAIn
    <2>4. CASE ReapRA(j)
      <3>. DEFINE b == job[j]
                  ra == IF b.ra = "exit_ok" THEN "reaped_ok" ELSE "reaped_fail"
                  timeout == IF b.timeout = "armed" THEN "off" ELSE b.timeout
                  count == IF b.wait = "select" THEN getCount(b.req.rsc) ELSE 0
                  c == [b EXCEPT !.ra = ra, !.timeout = timeout, !.count = count]
      <3>1. job' = [job EXCEPT ![j] = Settled(c)]
        BY <2>4 DEF ReapRA
      <3>. HIDE DEF timeout, count
      <3>2. c.req = job[j].req /\ c.wait = job[j].wait /\ ~HasRAIn(c)
        BY <1>1 DEF JobType, HasRAIn
      <3>. HIDE DEF c
      <3>. QED BY <1>1, <3>1, <3>2 DEF Settled
    <2>. QED BY <2>1, <2>2, <2>3, <2>4
  <1>5. JobEffect(j)
    BY <1>2, <1>3, <1>4 DEF JobEffect, MayGoTo
  <1>6. LoopEffect(j) /\ RecordEffect(j) /\ TimerEffect(j) /\ EventEffect(j)
    BY <1>3 DEF LoopEffect, RecordEffect, TimerEffect, EventEffect
  <1>. QED BY <1>3, <1>5, <1>6 DEF Effect

\* A step of waitChildFunc that goes to pc, seen from its job and the loop.
LEMMA WaitJobEffect ==
  ASSUME TypeInv, NEW j \in Job, NEW pc \in WaitPC, WaitGoesTo(j, pc),
         job[j].wait # "none", MayGoTo(job[j], pc)
  PROVE  /\ JobEffect(j) /\ LoopEffect(j)
         /\ job'[j].wait \in {"none", pc}
         /\ job'[j] = NoJob \/ job'[j].ra = job[j].ra
  <1>1. /\ \A i \in Job \ {j} : job'[i] = job[i]
        /\ \/ job'[j] = NoJob
           \/ /\ job'[j].req = job[j].req /\ job'[j].ra = job[j].ra
              /\ job'[j].wait = pc /\ job'[j].ret = "none"
    BY WaitGoesToType, Zenon DEF TypeInv
  <1>2. NoJob.wait = "none"
    BY DEF NoJob
  <1>3. JobEffect(j)
    BY <1>1, <1>2 DEF JobEffect, MayGoTo, HasRAIn
  <1>4. LoopEffect(j)
    <2>1. \/ loop' = loop
          \/ pc = "done" /\ loop.pc = "wait" /\ loop.job = j /\ loop' = Idle
      BY DEF WaitGoesTo
    <2>. QED BY <1>1, <1>2, <2>1 DEF LoopEffect
  <1>. QED BY <1>1, <1>2, <1>3, <1>4

\* A step of waitChildFunc of job j.
LEMMA WaitEffect ==
  ASSUME TypeInv, NEW j \in Job, waitChildFunc(j)
  PROVE  Effect(j)
  <1>1. job \in [Job -> JobType] /\ job[j] \in JobType /\ onRsc \in [Rsc -> RecordType]
    BY DEF TypeInv, TypeOK
  <1>2. NoJob.ra = "none" /\ NoJob.wait = "none"
    BY DEF NoJob
  <1>3. job[j] # NoJob /\ job[j].wait \notin {"none", "done"}
    BY <1>2 DEF waitChildFunc, SelectFin, SelectTimeout, Report, SetMonitor, SetMonitorTimer,
                SetRscTerminate
  <1>4. /\ job[j].req \in Req
        /\ job[j].req.rsc \in Rsc /\ job[j].req.repeat \in BOOLEAN
        /\ job[j].wait = "report" => job[j].ret \in {"ok", "error"}
        /\ Finished(job[j]) => Reaped(job[j].ra)
    BY <1>1, <1>3, ReqAssumption DEF TypeInv, RefsOK, AtWork, Request, JobType
  <1>5. \A ret \in {"ok", "error"} :
          /\ AfterReport(job[j].req, ret) \in WaitPC \ {"report", "rearm2", "select"}
          /\ AfterRearm(job[j].req) \in WaitPC \ {"report", "rearm", "rearm2", "select"}
          /\ job[j].wait \in {"select", "report"}
               => MayGoTo(job[j], AfterReport(job[j].req, ret))
          /\ MayGoTo(job[j], AfterRearm(job[j].req))
    BY <1>3, <1>4 DEF AfterReport, AfterRearm, WaitPC, MayGoTo
  <1>6. ASSUME UNCHANGED <<onRsc, timer, events>>
        PROVE  RecordEffect(j) /\ TimerEffect(j) /\ EventEffect(j)
    BY <1>6 DEF RecordEffect, TimerEffect, EventEffect
  <1>7. CASE SelectFin(j)
    <2>. DEFINE ret == IF job[j].ra = "reaped_ok" THEN "ok" ELSE "error"
    <2>1. UNCHANGED <<unsent, inbox, onRsc, timer, events, answered, alive>>
      BY <1>7 DEF SelectFin
    <2>2. JobEffect(j) /\ LoopEffect(j)
      <3>1. CASE WaitGoesTo(j, AfterReport(job[j].req, ret))
        <4>1. PICK pc \in WaitPC : pc = AfterReport(job[j].req, ret) /\ MayGoTo(job[j], pc)
          BY <1>5, <1>7 DEF SelectFin
        <4>2. WaitGoesTo(j, pc)
          BY <3>1, <4>1 DEF WaitGoesTo
        <4>. QED BY <1>3, <4>1, <4>2, WaitJobEffect
      <3>2. CASE /\ job' = [job EXCEPT ![j].wait = "report", ![j].ret = ret,
                                       ![j].timeout = "off", ![j].count = 0]
                 /\ UNCHANGED loop
        <4>1. /\ \A i \in Job : i # j => job'[i] = job[i]
              /\ job'[j].req = job[j].req /\ job'[j].ra = job[j].ra /\ job'[j].wait = "report"
          BY <1>1, <3>2 DEF JobType
        <4>2. job[j].wait = "select"
          BY <1>7 DEF SelectFin
        <4>. QED BY <1>3, <3>2, <4>1, <4>2 DEF JobEffect, MayGoTo, HasRAIn, LoopEffect
      <3>. QED BY <1>7, <3>1, <3>2 DEF SelectFin
    <2>. QED BY <1>6, <2>1, <2>2 DEF Effect
  <1>8. CASE SelectTimeout(j)
    <2>1. UNCHANGED <<unsent, inbox, loop, onRsc, timer, events, answered, alive>>
      BY <1>8 DEF SelectTimeout
    <2>2. /\ \A i \in Job : i # j => job'[i] = job[i]
          /\ job'[j].req = job[j].req /\ job'[j].wait = "report" /\ job[j].wait = "select"
          /\ job'[j].ra = IF job[j].ra = "running" THEN "killed" ELSE job[j].ra
      BY <1>1, <1>8 DEF SelectTimeout, JobType
    <2>3. JobEffect(j) /\ LoopEffect(j)
      BY <1>3, <2>1, <2>2 DEF JobEffect, MayGoTo, HasRAIn, LoopEffect
    <2>. QED BY <1>6, <2>1, <2>3 DEF Effect
  <1>9. CASE Report(j)
    <2>1. /\ UNCHANGED <<unsent, inbox, onRsc, timer, answered, alive>>
          /\ job[j].wait = "report"
          /\ events' = Append(events, [req |-> job[j].req, ret |-> job[j].ret])
      BY <1>9 DEF Report
    <2>2. PICK pc \in WaitPC \ {"report", "select"} :
            pc = AfterReport(job[j].req, job[j].ret) /\ MayGoTo(job[j], pc)
      BY <1>4, <1>5, <2>1
    <2>3. WaitGoesTo(j, pc)
      BY <1>9, <2>2 DEF Report, WaitGoesTo
    <2>4. JobEffect(j) /\ LoopEffect(j) /\ job'[j].wait \in {"none", pc}
      BY <1>3, <2>2, <2>3, WaitJobEffect
    <2>5. EventEffect(j)
      BY <1>4, <2>1, <2>2, <2>4 DEF EventEffect
    <2>. QED BY <2>1, <2>4, <2>5 DEF Effect, RecordEffect, TimerEffect
  <1>10. CASE SetMonitor(j)
    <2>1. /\ UNCHANGED <<unsent, inbox, events, answered, alive>>
          /\ job[j].wait = "rearm" /\ WaitGoesTo(j, "rearm2")
          /\ timer' = [timer EXCEPT ![j] = [req |-> job[j].req, state |-> "armed"]]
      BY <1>10 DEF SetMonitor
    <2>2. /\ JobEffect(j) /\ LoopEffect(j) /\ job'[j].wait \in {"none", "rearm2"}
          /\ job'[j] = NoJob \/ job'[j].ra = job[j].ra
      BY <1>3, <2>1, WaitJobEffect DEF MayGoTo, WaitPC
    <2>3. ~HasRAIn(job'[j])
      BY <1>2, <1>4, <2>1, <2>2 DEF HasRAIn, Finished, Reaped
    <2>4. RecordEffect(j)
      BY <1>1, <1>10 DEF SetMonitor, RecordRscOp, NewExecrsc, RecordEffect
    <2>. QED BY <2>1, <2>2, <2>3, <2>4 DEF Effect, TimerEffect, EventEffect
  <1>11. CASE SetMonitorTimer(j)
    <2>1. /\ UNCHANGED <<unsent, inbox, timer, events, answered, alive>>
          /\ job[j].wait = "rearm2"
      BY <1>11 DEF SetMonitorTimer
    <2>2. PICK pc \in WaitPC : pc = AfterRearm(job[j].req) /\ MayGoTo(job[j], pc)
      BY <1>5
    <2>3. WaitGoesTo(j, pc)
      BY <1>11, <2>2 DEF SetMonitorTimer, WaitGoesTo
    <2>4. JobEffect(j) /\ LoopEffect(j)
      BY <1>3, <2>2, <2>3, WaitJobEffect
    <2>5. RecordEffect(j)
      BY <1>1, <1>11 DEF SetMonitorTimer, RecordRscOp, NewExecrsc, RecordEffect
    <2>. QED BY <2>1, <2>4, <2>5 DEF Effect, TimerEffect, EventEffect
  <1>12. CASE SetRscTerminate(j)
    <2>1. /\ UNCHANGED <<unsent, inbox, timer, events, answered, alive>>
          /\ job[j].wait = "terminate" /\ WaitGoesTo(j, "done")
      BY <1>12 DEF SetRscTerminate
    <2>2. JobEffect(j) /\ LoopEffect(j)
      BY <1>3, <2>1, WaitJobEffect DEF MayGoTo, WaitPC
    <2>3. RecordEffect(j)
      BY <1>1, <1>12 DEF SetRscTerminate, RecordType, RecordEffect
    <2>. QED BY <2>1, <2>2, <2>3 DEF Effect, TimerEffect, EventEffect
  <1>. QED BY <1>7, <1>8, <1>9, <1>10, <1>11, <1>12 DEF waitChildFunc

\* A step of an execution, whichever of its goroutines takes it.
LEMMA ExecEffect ==
  ASSUME TypeInv, NEW j \in Job, ExecStep(j)
  PROVE  Effect(j)
  BY RAEffect, WaitEffect DEF ExecStep, RAGoroutine

-----------------------------------------------------------------------------
(* II.  What it promises.                                                  *)

\* Requests and jobs that are there are not None.
LEMMA NotNone ==
  /\ None \notin Req /\ NoJob.req = None /\ NoJob.wait = "none" /\ ~HasRAIn(NoJob)
  /\ Idle.req = None /\ Idle.pc = "poll" /\ Idle.job = None
  /\ NoTimer.state = "none"
  /\ \A q \in Req : NewJob(q).req = q /\ NewJob(q).wait = "select" /\ NewJob(q) # NoJob
  BY NoneAssumption DEF NoJob, Idle, NoTimer, NewJob, HasRAIn

-----------------------------------------------------------------------------
(* A stop is final.                                                        *)

\* A stop stays recorded over a step, or something allows that it does not.
StopKept(r) ==
  \/ StopRecorded(r)'
  \/ \E q \in unsent \ unsent' : q.rsc = r
  \/ ~alive'

\* A step that launches an execution of a request for another resource.
LEMMA LaunchKeepsStop ==
  ASSUME TypeInv, NEW r \in Rsc, StopRecorded(r),
         NEW q \in Req, q.rsc # r, NEW k \in Job, job' = [job EXCEPT ![k] = NewJob(q)]
  PROVE  \A j \in Job : job'[j] # NoJob /\ job'[j].req.rsc = r => job'[j].req.op = "stop"
  <1>1. job \in [Job -> JobType]
    BY DEF TypeInv, TypeOK
  <1>2. \A j \in Job : job'[j] = IF j = k THEN NewJob(q) ELSE job[j]
    BY <1>1
  <1>. QED BY <1>2, NotNone DEF StopRecorded

\* While a stop is recorded, a step of the channel loop, or a request that arrives, keeps it.
LEMMA LoopKeepsStop ==
  ASSUME TypeInv, NEW r \in Rsc, StopRecorded(r),
         LoopStep \/ \E q \in Req : _processIpcSrvMessage(q)
  PROVE  StopKept(r)
  <1>1. /\ inbox \in Seq(Req) /\ job \in [Job -> JobType] /\ onRsc \in [Rsc -> RecordType]
        /\ loop.pc \in {"push", "record"} => loop.req \in Req
    BY DEF TypeInv, TypeOK, RefsOK
  <1>2. ASSUME NEW q \in Req, _processIpcSrvMessage(q) PROVE StopKept(r)
    <2>1. CASE q.rsc = r
      BY <1>2, <2>1 DEF _processIpcSrvMessage, StopKept
    <2>2. CASE q.rsc # r
      BY <1>2, <2>2 DEF _processIpcSrvMessage, StopKept, StopRecorded
    <2>. QED BY <2>1, <2>2
  <1>3. ASSUME _messageResourceHandler PROVE StopKept(r)
    <2>1. loop.req \in Req /\ loop.req.rsc # r
      BY <1>1, <1>3, NotNone DEF _messageResourceHandler, StopRecorded
    <2>2. \A n \in 1..Len(inbox') : inbox'[n].rsc # r
      BY <1>1, <1>3, <2>1 DEF _messageResourceHandler, StopRecorded
    <2>. QED BY <1>3, <2>2, NotNone DEF _messageResourceHandler, StopRecorded, StopKept
  <1>4. ASSUME _processRscOpEvent PROVE StopKept(r)
    BY <1>4 DEF _processRscOpEvent, StopRecorded, StopKept
  <1>5. ASSUME NEW q \in Req, NEW k \in Job, _processRscOpMessage(q, k) PROVE StopKept(r)
    <2>1. /\ inbox # <<>> /\ q = Head(inbox) /\ inbox' = Tail(inbox) /\ UNCHANGED onRsc
      BY <1>5 DEF _processRscOpMessage
    <2>2. q.rsc # r /\ \A n \in 1..Len(inbox') : inbox'[n].rsc # r
      BY <1>1, <2>1 DEF StopRecorded
    <2>3. loop' = Idle \/ loop'.req = None \/ loop'.req = q
      BY <1>5 DEF _processRscOpMessage, Launch
    <2>4. UNCHANGED job \/ job' = [job EXCEPT ![k] = NewJob(q)]
      BY <1>5 DEF _processRscOpMessage, Launch
    <2>5. \A j \in Job : job'[j] # NoJob /\ job'[j].req.rsc = r => job'[j].req.op = "stop"
      BY <2>2, <2>4, LaunchKeepsStop DEF StopRecorded
    <2>. QED BY <2>1, <2>2, <2>3, <2>5, NotNone DEF StopRecorded, StopKept
  <1>6. ASSUME NEW k \in Job, RecordAndLaunch(k) PROVE StopKept(r)
    <2>1. PICK q \in Req : q = loop.req
      BY <1>1, <1>6 DEF RecordAndLaunch
    <2>2. q.rsc # r
      BY <2>1, NotNone DEF StopRecorded
    <2>3. /\ onRsc'[r] = onRsc[r]
          /\ UNCHANGED inbox
          /\ loop' = Idle \/ loop'.req = None
          /\ job' = [job EXCEPT ![k] = NewJob(q)]
      BY <1>1, <1>6, <2>1, <2>2 DEF RecordAndLaunch, RecordRscOp, Launch
    <2>4. \A j \in Job : job'[j] # NoJob /\ job'[j].req.rsc = r => job'[j].req.op = "stop"
      BY <2>2, <2>3, LaunchKeepsStop
    <2>. QED BY <2>3, <2>4, NotNone DEF StopRecorded, StopKept
  <1>. QED BY <1>2, <1>3, <1>4, <1>5, <1>6 DEF LoopStep

\* While a stop is recorded, executions and timers keep it: the callback of a timer
\* armed before the stop looks at the record and runs nothing.
LEMMA JobKeepsStop ==
  ASSUME TypeInv, NEW r \in Rsc, StopRecorded(r), NEW j \in Job, JobStep(j)
  PROVE  StopKept(r)
  <1>1. CASE ExecStep(j)
    <2>1. Effect(j)
      BY <1>1, ExecEffect
    <2>2. onRsc'[r].op = "stop"
      BY <2>1 DEF Effect, RecordEffect, JobEffect, StopRecorded
    <2>3. \A i \in Job : job'[i] # NoJob /\ job'[i].req.rsc = r => job'[i].req.op = "stop"
      BY <2>1 DEF Effect, JobEffect, StopRecorded
    <2>4. loop'.req # None => loop'.req.rsc # r
      BY <2>1, NotNone DEF Effect, LoopEffect, StopRecorded
    <2>5. UNCHANGED inbox
      BY <2>1 DEF Effect
    <2>. QED BY <2>2, <2>3, <2>4, <2>5 DEF StopKept, StopRecorded
  <1>2. CASE TimerFires(j)
    BY <1>2 DEF TimerFires, StopRecorded, StopKept
  <1>3. CASE StartRAFails(j)
    BY <1>3 DEF StartRAFails, Dies, StopKept
  <1>4. ASSUME NEW k \in Job, TimerCallback(j, k) PROVE StopKept(r)
    <2>1. PICK q \in Req : q = timer[j].req
      BY <1>4 DEF TimerCallback, TypeInv, RefsOK
    <2>2. \/ UNCHANGED job
          \/ q.rsc # r /\ job' = [job EXCEPT ![k] = NewJob(q)]
      BY <1>4, <2>1 DEF TimerCallback, isRscStop, StopRecorded
    <2>3. \A i \in Job : job'[i] # NoJob /\ job'[i].req.rsc = r => job'[i].req.op = "stop"
      BY <2>2, LaunchKeepsStop DEF StopRecorded
    <2>4. UNCHANGED <<inbox, loop, onRsc>>
      BY <1>4 DEF TimerCallback
    <2>. QED BY <2>3, <2>4 DEF StopKept, StopRecorded
  <1>. QED BY <1>1, <1>2, <1>3, <1>4 DEF JobStep, ExecStep

\* A stop that was recorded while no other execution on the resource was in flight is
\* final until the next request for the resource: the promise of isRscStop, stopTimer
\* and the order in which ExecRscOp uses them.
THEOREM StopFinal == Spec => StopIsFinal
  <1>1. ASSUME TypeInv, [Next]_vars
        PROVE  [\A r \in Rsc : StopRecorded(r) =>
                 \/ StopRecorded(r)'
                 \/ \E q \in unsent \ unsent' : q.rsc = r
                 \/ ~alive']_vars
    <2>1. SUFFICES ASSUME Next, NEW r \in Rsc, StopRecorded(r) PROVE StopKept(r)
      BY <1>1 DEF StopKept
    <2>2. CASE LoopStep \/ \E q \in Req : _processIpcSrvMessage(q)
      BY <1>1, <2>1, <2>2, LoopKeepsStop
    <2>3. CASE \E j \in Job : JobStep(j)
      BY <1>1, <2>1, <2>3, JobKeepsStop
    <2>4. CASE Faults
      BY <2>4 DEF Faults, ConcurrentMapFault, ParametersFault, Dies, StopKept
    <2>. QED BY <2>1, <2>2, <2>3, <2>4 DEF Next
  <1>. QED BY <1>1, TypeInvHolds, PTL DEF Spec, StopIsFinal

-----------------------------------------------------------------------------
(* A request is in one place at a time: with its client, in the loop, in   *)
(* the inbox, in an execution that may still run its RA or re-arm its      *)
(* monitor, or in a monitor timer.                                         *)

Live(b) == HasRAIn(b) \/ b.wait \in {"select", "report", "rearm"}

LiveFor(j, q) == Live(job[j]) /\ job[j].req = q
TimerFor(j, q) == timer[j].state # "none" /\ timer[j].req = q

InInbox(q) == \E n \in 1..Len(inbox) : inbox[n] = q
OnceInInbox(q) == \A m, n \in 1..Len(inbox) : inbox[m] = q /\ inbox[n] = q => m = n

Waiting(q) == q \in unsent \/ loop.req = q \/ InInbox(q)

OnePlace(q) ==
  /\ q \in unsent => loop.req # q /\ ~InInbox(q)
  /\ loop.req = q => ~InInbox(q)
  /\ OnceInInbox(q)
  /\ \A j \in Job : Waiting(q) => ~LiveFor(j, q) /\ ~TimerFor(j, q)
  /\ \A j, k \in Job : LiveFor(j, q) /\ LiveFor(k, q) => j = k
  /\ \A j, k \in Job : LiveFor(j, q) => ~TimerFor(k, q)
  /\ \A j, k \in Job : TimerFor(j, q) /\ TimerFor(k, q) => j = k

PlaceInv == \A q \in Req : OnePlace(q)

\* The daemon starts with every request at its client.
LEMMA PlaceInit == Init => PlaceInv
  <1>. SUFFICES ASSUME Init, NEW q \in Req PROVE OnePlace(q)
    BY DEF PlaceInv
  <1>1. /\ loop.req # q /\ ~InInbox(q) /\ OnceInInbox(q)
        /\ \A j \in Job : job[j] = NoJob /\ timer[j] = NoTimer
    BY NotNone DEF Init, InInbox, OnceInInbox
  <1>2. \A j \in Job : ~LiveFor(j, q) /\ ~TimerFor(j, q)
    BY <1>1, NotNone DEF LiveFor, TimerFor
  <1>. QED BY <1>1, <1>2 DEF OnePlace

\* A step that brings q to no new place.
LEMMA PlaceLess ==
  ASSUME NEW q \in Req, OnePlace(q),
         q \in unsent' => q \in unsent,
         loop'.req = q => loop.req = q,
         inbox' = inbox,
         \A i \in Job : LiveFor(i, q)' => LiveFor(i, q),
         \A i \in Job : TimerFor(i, q)' => TimerFor(i, q)
  PROVE  OnePlace(q)'
  <1>1. InInbox(q)' = InInbox(q) /\ OnceInInbox(q)' = OnceInInbox(q)
    BY DEF InInbox, OnceInInbox
  <1>2. Waiting(q)' => Waiting(q)
    BY <1>1 DEF Waiting
  <1>. QED BY <1>1, <1>2 DEF OnePlace

\* What the inbox holds after a request was queued, and after one was taken.
LEMMA InboxAppend ==
  ASSUME inbox \in Seq(Req), NEW x \in Req, inbox' = Append(inbox, x), NEW q \in Req
  PROVE  /\ InInbox(q)' <=> InInbox(q) \/ x = q
         /\ OnceInInbox(q) /\ (x = q => ~InInbox(q)) => OnceInInbox(q)'
  <1>1. /\ Len(inbox') = Len(inbox) + 1 /\ Len(inbox) \in Nat
        /\ \A n \in 1..Len(inbox) : inbox'[n] = inbox[n]
        /\ inbox'[Len(inbox) + 1] = x
    OBVIOUS
  <1>2. InInbox(q)' <=> InInbox(q) \/ x = q
    BY <1>1 DEF InInbox
  <1>3. OnceInInbox(q) /\ (x = q => ~InInbox(q)) => OnceInInbox(q)'
    BY <1>1 DEF InInbox, OnceInInbox
  <1>. QED BY <1>2, <1>3

LEMMA InboxTail ==
  ASSUME inbox \in Seq(Req), inbox # <<>>, inbox' = Tail(inbox), NEW q \in Req
  PROVE  /\ Head(inbox) = q => InInbox(q)
         /\ InInbox(q)' => InInbox(q)
         /\ OnceInInbox(q) => OnceInInbox(q)'
         /\ OnceInInbox(q) /\ InInbox(q)' => Head(inbox) # q
  <1>1. /\ Len(inbox) \in Nat \ {0} /\ Len(inbox') = Len(inbox) - 1
        /\ \A n \in 1..Len(inbox') : inbox'[n] = inbox[n + 1]
        /\ Head(inbox) = inbox[1]
    OBVIOUS
  <1>2. Head(inbox) = q => InInbox(q)
    BY <1>1 DEF InInbox
  <1>3. InInbox(q)' => InInbox(q)
    BY <1>1 DEF InInbox
  <1>4. OnceInInbox(q) => OnceInInbox(q)'
    BY <1>1 DEF OnceInInbox
  <1>5. OnceInInbox(q) /\ InInbox(q)' => Head(inbox) # q
    BY <1>1 DEF InInbox, OnceInInbox
  <1>. QED BY <1>2, <1>3, <1>4, <1>5

\* An execution that is launched is in progress for its request only.
LEMMA LaunchLive ==
  ASSUME TypeInv, NEW p \in Req, NEW k \in Job, job' = [job EXCEPT ![k] = NewJob(p)],
         NEW q \in Req
  PROVE  \A i \in Job : LiveFor(i, q)' => IF i = k THEN p = q ELSE LiveFor(i, q)
  <1>1. \A i \in Job : job'[i] = IF i = k THEN NewJob(p) ELSE job[i]
    BY DEF TypeInv, TypeOK
  <1>. QED BY <1>1, NotNone DEF LiveFor

\* A crash leaves only the requests that no client has sent.
LEMMA PlaceDies ==
  ASSUME NEW q \in Req, OnePlace(q), Dies
  PROVE  OnePlace(q)'
  <1>1. /\ loop'.req # q /\ UNCHANGED unsent
        /\ \A i \in Job : job'[i] = NoJob /\ timer'[i] = NoTimer
    BY NotNone DEF Dies
  <1>2. ~InInbox(q)' /\ OnceInInbox(q)'
    BY DEF Dies, InInbox, OnceInInbox
  <1>3. \A i \in Job : ~LiveFor(i, q)' /\ ~TimerFor(i, q)'
    BY <1>1, NotNone DEF LiveFor, Live, TimerFor
  <1>. QED BY <1>1, <1>2, <1>3 DEF OnePlace

\* The channel loop, and a request that arrives, bring a request from place to place.
LEMMA PlaceLoopStep ==
  ASSUME TypeInv, PlaceInv, LoopStep \/ \E q \in Req : _processIpcSrvMessage(q)
  PROVE  PlaceInv'
  <1>. SUFFICES ASSUME NEW q \in Req PROVE OnePlace(q)'
    BY DEF PlaceInv
  <1>1. OnePlace(q)
    BY DEF PlaceInv
  <1>2. /\ inbox \in Seq(Req)
        /\ loop.pc \in {"push", "record"} => loop.req \in Req
    BY DEF TypeInv, TypeOK, RefsOK
  <1>3. ASSUME UNCHANGED job PROVE \A i \in Job : LiveFor(i, q)' = LiveFor(i, q)
    BY <1>3 DEF LiveFor
  <1>4. ASSUME UNCHANGED timer PROVE \A i \in Job : TimerFor(i, q)' = TimerFor(i, q)
    BY <1>4 DEF TimerFor
  <1>5. ASSUME UNCHANGED inbox
        PROVE  InInbox(q)' = InInbox(q) /\ OnceInInbox(q)' = OnceInInbox(q)
    BY <1>5 DEF InInbox, OnceInInbox
  <1>6. ASSUME NEW p \in Req, _processIpcSrvMessage(p) PROVE OnePlace(q)'
    <2>1. /\ p \in unsent /\ unsent' = unsent \ {p} /\ loop'.req = p /\ loop = Idle
          /\ UNCHANGED <<inbox, job, timer>>
      BY <1>6 DEF _processIpcSrvMessage
    <2>2. Waiting(q)' => Waiting(q)
      BY <1>5, <2>1 DEF Waiting
    <2>. QED BY <1>1, <1>3, <1>4, <1>5, <2>1, <2>2 DEF OnePlace
  <1>7. ASSUME _messageResourceHandler PROVE OnePlace(q)'
    <2>1. /\ loop.req \in Req /\ inbox' = Append(inbox, loop.req) /\ loop'.req # q
          /\ UNCHANGED <<unsent, job, timer>>
      BY <1>2, <1>7, NotNone DEF _messageResourceHandler
    <2>2. PICK x \in Req : x = loop.req
      BY <2>1
    <2>3. /\ InInbox(q)' <=> InInbox(q) \/ x = q
          /\ OnceInInbox(q) /\ (x = q => ~InInbox(q)) => OnceInInbox(q)'
      BY <1>2, <2>1, <2>2, InboxAppend
    <2>4. Waiting(q)' => Waiting(q)
      BY <2>1, <2>2, <2>3 DEF Waiting
    <2>. QED BY <1>1, <1>3, <1>4, <2>1, <2>2, <2>3, <2>4 DEF OnePlace
  <1>8. ASSUME _processRscOpEvent PROVE OnePlace(q)'
    <2>1. UNCHANGED <<unsent, inbox, loop, job, timer>>
      BY <1>8 DEF _processRscOpEvent
    <2>. QED BY <1>1, <1>3, <1>4, <2>1, PlaceLess
  <1>9. ASSUME NEW p \in Req, NEW k \in Job, _processRscOpMessage(p, k) PROVE OnePlace(q)'
    <2>1. /\ inbox # <<>> /\ p = Head(inbox) /\ inbox' = Tail(inbox) /\ loop = Idle
          /\ UNCHANGED unsent
      BY <1>9 DEF _processRscOpMessage
    <2>2. /\ p = q => InInbox(q)
          /\ InInbox(q)' => InInbox(q) /\ p # q
          /\ OnceInInbox(q)'
      BY <1>1, <1>2, <2>1, InboxTail DEF OnePlace
    <2>3. \A i \in Job : TimerFor(i, q)' => TimerFor(i, q)
      BY <1>9, NotNone DEF _processRscOpMessage, StoppedTimer, TimerFor
    <2>4. CASE Launch(p, k)
      <3>1. job' = [job EXCEPT ![k] = NewJob(p)] /\ loop'.req = None
        BY <2>4, NotNone DEF Launch
      <3>2. \A i \in Job : LiveFor(i, q)' => IF i = k THEN p = q ELSE LiveFor(i, q)
        BY <3>1, LaunchLive
      <3>3. Waiting(q)' => Waiting(q) /\ p # q
        BY <1>1, <2>1, <2>2, <3>1, NotNone DEF Waiting, OnePlace
      <3>4. p = q => Waiting(q)
        BY <2>2 DEF Waiting
      <3>. QED BY <1>1, <2>1, <2>2, <2>3, <3>1, <3>2, <3>3, <3>4, NotNone DEF OnePlace
    <2>5. CASE loop'.req = p /\ UNCHANGED job
      <3>1. Waiting(q)' => Waiting(q)
        BY <2>1, <2>2, <2>5 DEF Waiting
      <3>2. q \in unsent' => loop'.req # q /\ ~InInbox(q)'
        BY <1>1, <2>1, <2>2, <2>5 DEF OnePlace
      <3>. QED BY <1>1, <1>3, <2>2, <2>3, <2>5, <3>1, <3>2 DEF OnePlace
    <2>6. Launch(p, k) \/ (loop'.req = p /\ UNCHANGED job)
      BY <1>9 DEF _processRscOpMessage
    <2>. QED BY <2>4, <2>5, <2>6
  <1>10. ASSUME NEW k \in Job, RecordAndLaunch(k) PROVE OnePlace(q)'
    <2>1. PICK p \in Req : p = loop.req
      BY <1>2, <1>10 DEF RecordAndLaunch
    <2>2. /\ job' = [job EXCEPT ![k] = NewJob(p)] /\ loop'.req = None
          /\ UNCHANGED <<unsent, inbox, timer>>
      BY <1>10, <2>1, NotNone DEF RecordAndLaunch, Launch
    <2>3. \A i \in Job : LiveFor(i, q)' => IF i = k THEN p = q ELSE LiveFor(i, q)
      BY <2>2, LaunchLive
    <2>4. Waiting(q)' => Waiting(q) /\ p # q
      BY <1>1, <1>5, <2>1, <2>2, NotNone DEF Waiting, OnePlace
    <2>5. p = q => Waiting(q)
      BY <2>1 DEF Waiting
    <2>. QED BY <1>1, <1>4, <1>5, <2>1, <2>2, <2>3, <2>4, <2>5, NotNone DEF OnePlace
  <1>. QED BY <1>6, <1>7, <1>8, <1>9, <1>10 DEF LoopStep

\* Executions and timers do too: a job that arms its monitor timer is over, and the
\* callback of the timer gives it up.
LEMMA PlaceJobStep ==
  ASSUME TypeInv, PlaceInv, NEW j \in Job, JobStep(j)
  PROVE  PlaceInv'
  <1>. SUFFICES ASSUME NEW q \in Req PROVE OnePlace(q)'
    BY DEF PlaceInv
  <1>1. OnePlace(q)
    BY DEF PlaceInv
  <1>2. CASE ExecStep(j)
    <2>1. Effect(j)
      BY <1>2, ExecEffect
    <2>2. UNCHANGED <<unsent, inbox>> /\ (loop'.req = q => loop.req = q)
      BY <2>1, NotNone DEF Effect, LoopEffect
    <2>3. \A i \in Job : LiveFor(i, q)' => LiveFor(i, q)
      BY <2>1, NotNone DEF Effect, JobEffect, MayGoTo, LiveFor, Live
    <2>4. CASE UNCHANGED timer
      <3>1. \A i \in Job : TimerFor(i, q)' => TimerFor(i, q)
        BY <2>4 DEF TimerFor
      <3>. QED BY <1>1, <2>2, <2>3, <3>1, PlaceLess
    <2>5. CASE /\ job[j].wait = "rearm" /\ job'[j].wait \in {"none", "rearm2"} /\ ~HasRAIn(job'[j])
               /\ timer' = [timer EXCEPT ![j] = [req |-> job[j].req, state |-> "armed"]]
      <3>1. \A i \in Job : TimerFor(i, q)' =>
              IF i = j THEN LiveFor(j, q) ELSE TimerFor(i, q)
        BY <2>5 DEF TypeInv, TypeOK, TimerFor, LiveFor, Live
      <3>2. ~LiveFor(j, q)'
        BY <2>5 DEF LiveFor, Live
      <3>3. InInbox(q)' = InInbox(q) /\ OnceInInbox(q)' = OnceInInbox(q)
        BY <2>2 DEF InInbox, OnceInInbox
      <3>4. Waiting(q)' => Waiting(q)
        BY <2>2, <3>3 DEF Waiting
      <3>. QED BY <1>1, <2>2, <2>3, <3>1, <3>2, <3>3, <3>4 DEF OnePlace
    <2>. QED BY <2>1, <2>4, <2>5 DEF Effect, TimerEffect
  <1>3. CASE TimerFires(j)
    <2>1. UNCHANGED <<unsent, inbox, loop, job>>
      BY <1>3 DEF TimerFires
    <2>2. \A i \in Job : LiveFor(i, q)' => LiveFor(i, q)
      BY <2>1 DEF LiveFor
    <2>3. \A i \in Job : TimerFor(i, q)' => TimerFor(i, q)
      BY <1>3 DEF TimerFires, TypeInv, TypeOK, TimerType, TimerFor
    <2>. QED BY <1>1, <2>1, <2>2, <2>3, PlaceLess
  <1>4. CASE StartRAFails(j)
    BY <1>1, <1>4, PlaceDies DEF StartRAFails
  <1>5. ASSUME NEW k \in Job, TimerCallback(j, k) PROVE OnePlace(q)'
    <2>1. PICK p \in Req : p = timer[j].req
      BY <1>5 DEF TimerCallback, TypeInv, RefsOK
    <2>2. UNCHANGED <<unsent, inbox, loop>>
      BY <1>5 DEF TimerCallback
    <2>3. \A i \in Job : TimerFor(i, q)' => TimerFor(i, q) /\ i # j
      BY <1>5, NotNone DEF TimerCallback, TypeInv, TypeOK, TimerFor
    <2>4. CASE UNCHANGED job
      <3>1. \A i \in Job : LiveFor(i, q)' => LiveFor(i, q)
        BY <2>4 DEF LiveFor
      <3>. QED BY <1>1, <2>2, <2>3, <3>1, PlaceLess
    <2>5. CASE job' = [job EXCEPT ![k] = NewJob(p)]
      <3>1. \A i \in Job : LiveFor(i, q)' => IF i = k THEN p = q ELSE LiveFor(i, q)
        BY <2>5, LaunchLive
      <3>2. p = q => TimerFor(j, q)
        BY <1>5, <2>1 DEF TimerCallback, TimerFor
      <3>3. InInbox(q)' = InInbox(q) /\ OnceInInbox(q)' = OnceInInbox(q)
        BY <2>2 DEF InInbox, OnceInInbox
      <3>4. Waiting(q)' => Waiting(q)
        BY <2>2, <3>3 DEF Waiting
      <3>. QED BY <1>1, <2>2, <2>3, <3>1, <3>2, <3>3, <3>4 DEF OnePlace
    <2>. QED BY <1>5, <2>1, <2>4, <2>5 DEF TimerCallback
  <1>. QED BY <1>2, <1>3, <1>4, <1>5 DEF JobStep, ExecStep

\* Every step keeps every request in one place.
LEMMA PlaceStep == TypeInv /\ PlaceInv /\ [Next]_vars => PlaceInv'
  <1>. SUFFICES ASSUME TypeInv, PlaceInv, [Next]_vars PROVE PlaceInv'
    OBVIOUS
  <1>1. CASE LoopStep \/ \E q \in Req : _processIpcSrvMessage(q)
    BY <1>1, PlaceLoopStep
  <1>2. CASE \E j \in Job : JobStep(j)
    BY <1>2, PlaceJobStep
  <1>3. CASE Faults
    BY <1>3, PlaceDies DEF Faults, ConcurrentMapFault, ParametersFault, PlaceInv
  <1>4. CASE UNCHANGED vars
    <2>. SUFFICES ASSUME NEW q \in Req PROVE OnePlace(q)'
      BY DEF PlaceInv
    <2>1. UNCHANGED <<unsent, inbox, loop, job, timer>>
      BY <1>4 DEF vars
    <2>2. \A i \in Job : LiveFor(i, q)' = LiveFor(i, q) /\ TimerFor(i, q)' = TimerFor(i, q)
      BY <2>1 DEF LiveFor, TimerFor
    <2>. QED BY <2>1, <2>2, PlaceLess DEF PlaceInv
  <1>. QED BY <1>1, <1>2, <1>3, <1>4 DEF Next

\* The invariant under which requests never run twice at once.
LEMMA PlaceInvHolds == Spec => []PlaceInv
  BY PlaceInit, PlaceStep, TypeInvHolds, PTL DEF Spec

\* A request never has two RA processes at once, whatever the order in which the timeout
\* of a monitor, its exit, the re-arming of its timer and the timer callback happen.
THEOREM RunsDoNotOverlap == Spec => []NoOverlappingRuns
  <1>1. TypeInv /\ PlaceInv => NoOverlappingRuns
    <2>. SUFFICES ASSUME TypeInv, PlaceInv, NEW j \in Job, NEW k \in Job,
                         HasRA(j), HasRA(k), job[j].req = job[k].req
                  PROVE  j = k
      BY DEF NoOverlappingRuns
    <2>1. NoJob.ra = "none"
      BY DEF NoJob
    <2>2. PICK q \in Req : q = job[j].req
      BY <2>1 DEF HasRA, TypeInv, RefsOK, AtWork
    <2>3. LiveFor(j, q) /\ LiveFor(k, q)
      BY <2>2 DEF HasRA, HasRAIn, LiveFor, Live
    <2>. QED BY <2>3 DEF PlaceInv, OnePlace
  <1>. QED BY <1>1, TypeInvHolds, PlaceInvHolds, PTL

-----------------------------------------------------------------------------
(* Only repeated requests are re-armed.                                    *)

RepeatInv ==
  \A j \in Job : /\ timer[j].state # "none" => timer[j].req.repeat
                 /\ job[j].wait \in {"rearm", "rearm2"} => job[j].req.repeat

\* Nothing is armed at the start.
LEMMA RepeatInit == Init => RepeatInv
  BY NotNone DEF Init, RepeatInv

\* An execution or a timer re-arms only what is repeated.
LEMMA RepeatJobStep ==
  ASSUME TypeInv, RepeatInv, NEW j \in Job, JobStep(j)
  PROVE  RepeatInv'
  <1>1. CASE ExecStep(j)
    <2>1. Effect(j)
      BY <1>1, ExecEffect
    <2>2. \A i \in Job : job'[i].wait \in {"rearm", "rearm2"} => job'[i].req.repeat
      BY <2>1, NotNone DEF Effect, JobEffect, MayGoTo, RepeatInv
    <2>3. \A i \in Job : timer'[i].state # "none" => timer'[i].req.repeat
      BY <2>1 DEF Effect, TimerEffect, RepeatInv, TypeInv, TypeOK
    <2>. QED BY <2>2, <2>3 DEF RepeatInv
  <1>2. CASE TimerFires(j)
    BY <1>2 DEF TimerFires, RepeatInv, TypeInv, TypeOK, TimerType
  <1>3. CASE StartRAFails(j)
    BY <1>3, NotNone DEF StartRAFails, Dies, RepeatInv
  <1>4. ASSUME NEW k \in Job, TimerCallback(j, k) PROVE RepeatInv'
    <2>1. PICK p \in Req : p = timer[j].req
      BY <1>4 DEF TimerCallback, TypeInv, RefsOK
    <2>2. UNCHANGED job \/ job' = [job EXCEPT ![k] = NewJob(p)]
      BY <1>4, <2>1 DEF TimerCallback
    <2>3. \A i \in Job : job'[i].wait \in {"rearm", "rearm2"} => job'[i].req.repeat
      BY <2>2, NotNone DEF RepeatInv, TypeInv, TypeOK
    <2>4. \A i \in Job : timer'[i].state # "none" => timer'[i].req.repeat
      BY <1>4, NotNone DEF TimerCallback, RepeatInv, TypeInv, TypeOK
    <2>. QED BY <2>3, <2>4 DEF RepeatInv
  <1>. QED BY <1>1, <1>2, <1>3, <1>4 DEF JobStep, ExecStep

\* Every step keeps what is re-armed a repeated request.
LEMMA RepeatStep == TypeInv /\ RepeatInv /\ [Next]_vars => RepeatInv'
  <1>. SUFFICES ASSUME TypeInv, RepeatInv, [Next]_vars PROVE RepeatInv'
    OBVIOUS
  <1>1. CASE LoopStep \/ \E q \in Req : _processIpcSrvMessage(q)
    <2>1. \/ UNCHANGED job
          \/ \E p \in Req, k \in Job : job' = [job EXCEPT ![k] = NewJob(p)]
      <3>1. ASSUME NEW k \in Job, RecordAndLaunch(k)
            PROVE  \E p \in Req : job' = [job EXCEPT ![k] = NewJob(p)]
        <4>1. PICK p \in Req : p = loop.req
          BY <3>1 DEF RecordAndLaunch, TypeInv, RefsOK
        <4>. QED BY <3>1, <4>1 DEF RecordAndLaunch, Launch
      <3>. QED BY <1>1, <3>1 DEF LoopStep, _processIpcSrvMessage, _messageResourceHandler,
                   _processRscOpEvent, _processRscOpMessage, Launch
    <2>2. \A i \in Job : job'[i].wait \in {"rearm", "rearm2"} => job'[i].req.repeat
      BY <2>1, NotNone DEF RepeatInv, TypeInv, TypeOK
    <2>3. \A i \in Job : timer'[i] \in {timer[i], NoTimer}
      BY <1>1 DEF LoopStep, _processIpcSrvMessage, _messageResourceHandler, _processRscOpEvent,
                  _processRscOpMessage, RecordAndLaunch, StoppedTimer
    <2>4. \A i \in Job : timer'[i].state # "none" => timer'[i].req.repeat
      BY <2>3, NotNone DEF RepeatInv
    <2>. QED BY <2>2, <2>4 DEF RepeatInv
  <1>2. CASE \E j \in Job : JobStep(j)
    BY <1>2, RepeatJobStep
  <1>3. CASE Faults
    BY <1>3, NotNone DEF Faults, ConcurrentMapFault, ParametersFault, Dies, RepeatInv
  <1>4. CASE UNCHANGED vars
    BY <1>4 DEF vars, RepeatInv
  <1>. QED BY <1>1, <1>2, <1>3, <1>4 DEF Next

\* One-shot requests never reach a monitor timer.
LEMMA RepeatInvHolds == Spec => []RepeatInv
  BY RepeatInit, RepeatStep, TypeInvHolds, PTL DEF Spec

-----------------------------------------------------------------------------
(* The answer of a synchronous one-shot operation is kept.                 *)

IsSync(b) == ~b.req.repeat /\ ~b.req.async

\* The loop waits for the synchronous execution in progress, which is the only one; a
\* waitChildFunc that marks the record as terminated is one of a stop.
SyncInv ==
  /\ \A j \in Job : job[j].wait \notin {"none", "done"} /\ IsSync(job[j])
                    => loop.pc = "wait" /\ loop.job = j
  /\ \A j \in Job : job[j].wait = "terminate" => job[j].req.op = "stop"
  /\ \A j \in Job : job[j].wait = "select" /\ IsSync(job[j])
                    => ~onRsc[job[j].req.rsc].terminate

\* Nothing is in progress at the start.
LEMMA SyncInit == Init => SyncInv
  BY NotNone DEF Init, SyncInv

\* Only the waitChildFunc of a stop sets the mark, and the loop would have to be waiting
\* for that one instead.
LEMMA SyncExecStep ==
  ASSUME TypeInv, SyncInv, SyncStops, NEW j \in Job, ExecStep(j)
  PROVE  SyncInv'
  <1>1. Effect(j)
    BY ExecEffect
  <1>2. \A i \in Job : job'[i].wait \notin {"none", "done"}
                      => job'[i].req = job[i].req /\ job[i].wait \notin {"none", "done"}
    BY <1>1, NotNone DEF Effect, JobEffect, MayGoTo, TypeInv, RefsOK, AtWork
  <1>3. ASSUME NEW i \in Job, job'[i].wait \notin {"none", "done"}, IsSync(job'[i])
        PROVE  loop'.pc = "wait" /\ loop'.job = i
    <2>1. loop.pc = "wait" /\ loop.job = i
      BY <1>2, <1>3 DEF SyncInv, IsSync
    <2>. QED BY <1>1, <1>3, <2>1 DEF Effect, LoopEffect
  <1>4. \A i \in Job : job'[i].wait = "terminate" => job'[i].req.op = "stop"
    BY <1>1, <1>2 DEF Effect, JobEffect, MayGoTo, SyncInv
  <1>5. ASSUME NEW i \in Job, job'[i].wait = "select", IsSync(job'[i])
        PROVE  ~onRsc'[job'[i].req.rsc].terminate
    <2>1. job'[i].req = job[i].req /\ job[i].wait = "select" /\ IsSync(job[i])
      BY <1>1, <1>2, <1>5 DEF Effect, JobEffect, MayGoTo, IsSync
    <2>2. job[i].req.rsc \in Rsc /\ ~onRsc[job[i].req.rsc].terminate
      BY <2>1, NotNone, ReqAssumption DEF SyncInv, TypeInv, RefsOK, AtWork, Request
    <2>3. job[j].wait # "terminate"
      <3>. SUFFICES ASSUME job[j].wait = "terminate" PROVE FALSE
        OBVIOUS
      <3>1. job[j].req \in Req /\ job[j].req.op = "stop"
        BY NotNone DEF SyncInv, TypeInv, RefsOK, AtWork
      <3>2. IsSync(job[j])
        BY <3>1 DEF SyncStops, IsSync
      <3>. QED BY <2>1, <3>2 DEF SyncInv
    <2>. QED BY <1>1, <2>1, <2>2, <2>3 DEF Effect, RecordEffect
  <1>. QED BY <1>3, <1>4, <1>5 DEF SyncInv

\* The loop launches an execution after it recorded the operation anew, and only when it
\* waits for none.
LEMMA SyncLoopStep ==
  ASSUME TypeInv, SyncInv, LoopStep \/ \E q \in Req : _processIpcSrvMessage(q)
  PROVE  SyncInv'
  <1>1. /\ job \in [Job -> JobType] /\ onRsc \in [Rsc -> RecordType]
        /\ loop.pc \in {"push", "record"} => loop.req \in Req
    BY DEF TypeInv, TypeOK, RefsOK
  <1>2. /\ loop.pc # "wait" /\ UNCHANGED <<job, onRsc>> => SyncInv'
    BY DEF SyncInv, IsSync
  <1>3. ASSUME NEW p \in Req, NEW k \in Job, loop.pc # "wait", Launch(p, k),
               \/ p.repeat /\ UNCHANGED onRsc
               \/ RecordRscOp(p.rsc, p.op, 0, None)
        PROVE  SyncInv'
    <2>1. \A i \in Job : job'[i] = IF i = k THEN NewJob(p) ELSE job[i]
      BY <1>1, <1>3 DEF Launch
    <2>2. \A i \in Job : i # k => job'[i] = job[i] /\ ~(job[i].wait \notin {"none", "done"}
                                                        /\ IsSync(job[i]))
      BY <1>3, <2>1 DEF SyncInv
    <2>3. IsSync(job'[k]) => loop'.pc = "wait" /\ loop'.job = k
      BY <1>3, <2>1, NotNone DEF Launch, IsSync
    <2>4. IsSync(job'[k]) => ~onRsc'[job'[k].req.rsc].terminate
      <3>1. p.rsc \in Rsc
        BY ReqAssumption DEF Request
      <3>2. IsSync(job'[k]) => ~p.repeat /\ job'[k].req = p
        BY <2>1, NotNone DEF IsSync
      <3>. QED BY <1>1, <1>3, <3>1, <3>2 DEF RecordRscOp, NewExecrsc
    <2>5. job'[k].wait = "select"
      BY <2>1, NotNone
    <2>. QED BY <2>2, <2>3, <2>4, <2>5 DEF SyncInv, IsSync
  <1>4. ASSUME NEW q \in Req, _processIpcSrvMessage(q) PROVE SyncInv'
    BY <1>2, <1>4, NotNone DEF _processIpcSrvMessage
  <1>5. ASSUME _messageResourceHandler PROVE SyncInv'
    BY <1>2, <1>5 DEF _messageResourceHandler
  <1>6. ASSUME _processRscOpEvent PROVE SyncInv'
    BY <1>2, <1>6, NotNone DEF _processRscOpEvent
  <1>7. ASSUME NEW q \in Req, NEW k \in Job, _processRscOpMessage(q, k) PROVE SyncInv'
    <2>1. loop.pc # "wait" /\ UNCHANGED onRsc
      BY <1>7, NotNone DEF _processRscOpMessage
    <2>2. UNCHANGED job \/ (q.repeat /\ Launch(q, k))
      BY <1>7 DEF _processRscOpMessage
    <2>3. CASE UNCHANGED job
      BY <1>2, <2>1, <2>3
    <2>4. CASE q.repeat /\ Launch(q, k)
      BY <1>3, <2>1, <2>4
    <2>. QED BY <2>2, <2>3, <2>4
  <1>8. ASSUME NEW k \in Job, RecordAndLaunch(k) PROVE SyncInv'
    <2>1. PICK p \in Req : p = loop.req
      BY <1>1, <1>8 DEF RecordAndLaunch
    <2>2. loop.pc # "wait" /\ Launch(p, k) /\ RecordRscOp(p.rsc, p.op, 0, None)
      BY <1>8, <2>1 DEF RecordAndLaunch, Launch, RecordRscOp
    <2>. QED BY <1>3, <2>2
  <1>. QED BY <1>4, <1>5, <1>6, <1>7, <1>8 DEF LoopStep

\* Every step keeps it: timers launch repeated monitors only.
LEMMA SyncStep == SyncStops /\ TypeInv /\ RepeatInv /\ SyncInv /\ [Next]_vars => SyncInv'
  <1>. SUFFICES ASSUME SyncStops, TypeInv, RepeatInv, SyncInv, [Next]_vars PROVE SyncInv'
    OBVIOUS
  <1>1. CASE LoopStep \/ \E q \in Req : _processIpcSrvMessage(q)
    BY <1>1, SyncLoopStep
  <1>2. ASSUME Dies PROVE SyncInv'
    BY <1>2, NotNone DEF Dies, SyncInv
  <1>3. ASSUME UNCHANGED <<loop, job, onRsc>> PROVE SyncInv'
    BY <1>3 DEF SyncInv, IsSync
  <1>4. ASSUME NEW j \in Job, JobStep(j) PROVE SyncInv'
    <2>1. CASE ExecStep(j)
      BY <2>1, SyncExecStep
    <2>2. CASE TimerFires(j)
      BY <1>3, <2>2 DEF TimerFires
    <2>3. CASE StartRAFails(j)
      BY <1>2, <2>3 DEF StartRAFails
    <2>4. ASSUME NEW k \in Job, TimerCallback(j, k) PROVE SyncInv'
      <3>1. PICK p \in Req : p = timer[j].req /\ p.repeat
        BY <2>4 DEF TimerCallback, TypeInv, RefsOK, RepeatInv
      <3>2. UNCHANGED <<loop, onRsc>>
        BY <2>4 DEF TimerCallback
      <3>3. UNCHANGED job \/ job' = [job EXCEPT ![k] = NewJob(p)]
        BY <2>4, <3>1 DEF TimerCallback
      <3>4. ASSUME job' = [job EXCEPT ![k] = NewJob(p)] PROVE SyncInv'
        <4>1. \A i \in Job : job'[i] = IF i = k THEN NewJob(p) ELSE job[i]
          BY <3>4 DEF TypeInv, TypeOK
        <4>2. job'[k].wait = "select" /\ ~IsSync(job'[k])
          BY <3>1, <4>1, NotNone DEF IsSync
        <4>. QED BY <3>2, <4>1, <4>2 DEF SyncInv, IsSync
      <3>. QED BY <1>3, <3>2, <3>3, <3>4
    <2>. QED BY <1>4, <2>1, <2>2, <2>3, <2>4 DEF JobStep, ExecStep
  <1>5. CASE Faults
    BY <1>2, <1>5 DEF Faults, ConcurrentMapFault, ParametersFault
  <1>6. CASE UNCHANGED vars
    BY <1>3, <1>6 DEF vars
  <1>. QED BY <1>1, <1>4, <1>5, <1>6 DEF Next

\* While stops are one-shot and synchronous, isRscTerminate never makes waitChildFunc drop
\* the result of a synchronous one-shot operation.
THEOREM SyncAnswersKept == Spec => []SyncAnswerKept
  <1>1. Init => (SyncStops => SyncInv)
    BY SyncInit
  <1>2. TypeInv /\ RepeatInv /\ (SyncStops => SyncInv) /\ [Next]_vars => (SyncStops => SyncInv)'
    BY SyncStep DEF SyncStops
  <1>3. (SyncStops => SyncInv) => SyncAnswerKept
    BY DEF SyncInv, SyncAnswerKept, IsSync
  <1>. QED BY <1>1, <1>2, <1>3, TypeInvHolds, RepeatInvHolds, PTL DEF Spec

-----------------------------------------------------------------------------
(* A one-shot request is answered at most once.                            *)

InEvents(q) == \E n \in 1..Len(events) : events[n].req = q
OnceInEvents(q) ==
  \A m, n \in 1..Len(events) : events[m].req = q /\ events[n].req = q => m = n

Reported(q) == q \in answered \/ InEvents(q)

\* Job j may still report a result of q.
Asking(j, q) == job[j].req = q /\ job[j].wait \in {"select", "report"}

\* A request is reported after it was executed; a one-shot request is reported by its one
\* execution, and then in one place.
AnsweredOnce(q) ==
  /\ Waiting(q) => ~Reported(q)
  /\ ~q.repeat =>
       /\ \A j \in Job : Asking(j, q) => ~Reported(q)
       /\ InEvents(q) => q \notin answered
       /\ OnceInEvents(q)

AnswerInv == \A q \in Req : AnsweredOnce(q)

\* Nothing is reported at the start.
LEMMA AnswerInit == Init => AnswerInv
  <1>. SUFFICES ASSUME Init, NEW q \in Req PROVE AnsweredOnce(q)
    BY DEF AnswerInv
  <1>1. answered = {} /\ ~InEvents(q) /\ OnceInEvents(q)
    BY DEF Init, InEvents, OnceInEvents
  <1>2. \A j \in Job : ~Asking(j, q)
    BY NotNone DEF Init, Asking
  <1>. QED BY <1>1, <1>2 DEF AnsweredOnce, Reported

\* A step that reports nothing.
LEMMA AnswerSame ==
  ASSUME NEW q \in Req, AnsweredOnce(q), UNCHANGED <<events, answered>>,
         Waiting(q)' => Waiting(q),
         ~q.repeat =>
           \A i \in Job : Asking(i, q)' => Waiting(q) \/ \E k \in Job : Asking(k, q)
  PROVE  AnsweredOnce(q)'
  <1>1. /\ InEvents(q)' = InEvents(q) /\ OnceInEvents(q)' = OnceInEvents(q)
        /\ answered' = answered
    BY DEF InEvents, OnceInEvents
  <1>2. Reported(q)' = Reported(q)
    BY <1>1 DEF Reported
  <1>. QED BY <1>1, <1>2 DEF AnsweredOnce

\* The steps of the channel loop, and a request that arrives: what is launched was waiting,
\* and what is sent to the controller leaves the channel.
LEMMA AnswerLoopStep ==
  ASSUME TypeInv, PlaceInv, AnswerInv, LoopStep \/ \E q \in Req : _processIpcSrvMessage(q)
  PROVE  AnswerInv'
  <1>. SUFFICES ASSUME NEW q \in Req PROVE AnsweredOnce(q)'
    BY DEF AnswerInv
  <1>1. AnsweredOnce(q) /\ OnePlace(q)
    BY DEF AnswerInv, PlaceInv
  <1>2. /\ inbox \in Seq(Req) /\ events \in Seq(EventType) /\ job \in [Job -> JobType]
        /\ loop.pc \in {"push", "record"} => loop.req \in Req
    BY DEF TypeInv, TypeOK, RefsOK
  <1>3. ASSUME UNCHANGED job PROVE \A i \in Job : Asking(i, q)' => Asking(i, q)
    BY <1>3 DEF Asking
  <1>4. ASSUME UNCHANGED inbox PROVE InInbox(q)' = InInbox(q)
    BY <1>4 DEF InInbox
  <1>5. ASSUME NEW p \in Req, NEW k \in Job, job' = [job EXCEPT ![k] = NewJob(p)]
        PROVE  \A i \in Job : Asking(i, q)' => p = q \/ Asking(i, q)
    <2>1. \A i \in Job : job'[i] = IF i = k THEN NewJob(p) ELSE job[i]
      BY <1>2, <1>5
    <2>. QED BY <2>1, NotNone DEF Asking
  <1>6. ASSUME NEW p \in Req, _processIpcSrvMessage(p) PROVE AnsweredOnce(q)'
    <2>1. /\ p \in unsent /\ unsent' = unsent \ {p} /\ loop'.req = p
          /\ UNCHANGED <<inbox, job, events, answered>>
      BY <1>6 DEF _processIpcSrvMessage
    <2>2. Waiting(q)' => Waiting(q)
      BY <1>4, <2>1 DEF Waiting
    <2>. QED BY <1>1, <1>3, <2>1, <2>2, AnswerSame
  <1>7. ASSUME _messageResourceHandler PROVE AnsweredOnce(q)'
    <2>1. PICK x \in Req : x = loop.req
      BY <1>2, <1>7 DEF _messageResourceHandler
    <2>2. /\ inbox' = Append(inbox, x) /\ loop'.req # q
          /\ UNCHANGED <<unsent, job, events, answered>>
      BY <1>7, <2>1, NotNone DEF _messageResourceHandler
    <2>3. InInbox(q)' <=> InInbox(q) \/ x = q
      BY <1>2, <2>2, InboxAppend
    <2>4. Waiting(q)' => Waiting(q)
      BY <2>1, <2>2, <2>3 DEF Waiting
    <2>. QED BY <1>1, <1>3, <2>2, <2>4, AnswerSame
  <1>8. ASSUME _processRscOpEvent PROVE AnsweredOnce(q)'
    <2>1. /\ events # <<>> /\ events' = Tail(events)
          /\ answered' = answered \cup {Head(events).req}
          /\ UNCHANGED <<unsent, inbox, loop, job>>
      BY <1>8 DEF _processRscOpEvent
    <2>2. /\ Len(events) \in Nat \ {0} /\ Len(events') = Len(events) - 1
          /\ \A n \in 1..Len(events') : events'[n] = events[n + 1]
          /\ Head(events) = events[1]
      BY <1>2, <2>1
    <2>3. /\ Head(events).req = q => InEvents(q)
          /\ InEvents(q)' => InEvents(q)
          /\ OnceInEvents(q) => OnceInEvents(q)'
          /\ OnceInEvents(q) /\ InEvents(q)' => Head(events).req # q
      <3>1. Head(events).req = q => InEvents(q)
        BY <2>2 DEF InEvents
      <3>2. ASSUME InEvents(q)' PROVE InEvents(q)
        <4>1. PICK n \in 1..Len(events') : events'[n].req = q
          BY <3>2 DEF InEvents
        <4>2. n + 1 \in 1..Len(events) /\ events[n + 1].req = q
          BY <2>2, <4>1
        <4>. QED BY <4>2 DEF InEvents
      <3>3. ASSUME OnceInEvents(q) PROVE OnceInEvents(q)'
        <4>. SUFFICES ASSUME NEW m \in 1..Len(events'), NEW n \in 1..Len(events'),
                             events'[m].req = q, events'[n].req = q
                      PROVE  m = n
          BY DEF OnceInEvents
        <4>1. /\ m + 1 \in 1..Len(events) /\ events[m + 1].req = q
              /\ n + 1 \in 1..Len(events) /\ events[n + 1].req = q
          BY <2>2
        <4>2. m + 1 = n + 1
          BY <3>3, <4>1 DEF OnceInEvents
        <4>. QED BY <2>2, <4>2
      <3>4. OnceInEvents(q) /\ InEvents(q)' => Head(events).req # q
        BY <2>2 DEF InEvents, OnceInEvents
      <3>. QED BY <3>1, <3>2, <3>3, <3>4
    <2>4. Reported(q)' => Reported(q)
      BY <2>1, <2>3 DEF Reported
    <2>5. Waiting(q)' => Waiting(q)
      BY <1>4, <2>1 DEF Waiting
    <2>. QED BY <1>1, <1>3, <2>1, <2>3, <2>4, <2>5 DEF AnsweredOnce
  <1>9. ASSUME NEW p \in Req, NEW k \in Job, _processRscOpMessage(p, k) PROVE AnsweredOnce(q)'
    <2>1. /\ inbox # <<>> /\ p = Head(inbox) /\ inbox' = Tail(inbox)
          /\ UNCHANGED <<unsent, events, answered>>
      BY <1>9 DEF _processRscOpMessage
    <2>2. /\ p = q => InInbox(q)
          /\ InInbox(q)' => InInbox(q)
      BY <1>2, <2>1, InboxTail
    <2>3. loop'.req \in {None, p}
      BY <1>9, NotNone DEF _processRscOpMessage, Launch
    <2>4. Waiting(q)' => Waiting(q)
      BY <2>1, <2>2, <2>3, NotNone DEF Waiting
    <2>5. UNCHANGED job \/ job' = [job EXCEPT ![k] = NewJob(p)]
      BY <1>9 DEF _processRscOpMessage, Launch
    <2>6. \A i \in Job : Asking(i, q)' => Waiting(q) \/ Asking(i, q)
      BY <1>3, <1>5, <2>2, <2>5 DEF Waiting
    <2>. QED BY <1>1, <2>1, <2>4, <2>6, AnswerSame
  <1>10. ASSUME NEW k \in Job, RecordAndLaunch(k) PROVE AnsweredOnce(q)'
    <2>1. PICK p \in Req : p = loop.req
      BY <1>2, <1>10 DEF RecordAndLaunch
    <2>2. /\ job' = [job EXCEPT ![k] = NewJob(p)] /\ loop'.req = None
          /\ UNCHANGED <<unsent, inbox, events, answered>>
      BY <1>10, <2>1, NotNone DEF RecordAndLaunch, Launch
    <2>3. Waiting(q)' => Waiting(q)
      BY <1>4, <2>2, NotNone DEF Waiting
    <2>4. \A i \in Job : Asking(i, q)' => Waiting(q) \/ Asking(i, q)
      BY <1>5, <2>1, <2>2 DEF Waiting
    <2>. QED BY <1>1, <2>2, <2>3, <2>4, AnswerSame
  <1>. QED BY <1>6, <1>7, <1>8, <1>9, <1>10 DEF LoopStep

\* Only the execution of a one-shot request puts a result on the channel, and goes on to
\* where it puts no other one.
LEMMA AnswerExecStep ==
  ASSUME TypeInv, PlaceInv, AnswerInv, NEW j \in Job, ExecStep(j)
  PROVE  AnswerInv'
  <1>. SUFFICES ASSUME NEW q \in Req PROVE AnsweredOnce(q)'
    BY DEF AnswerInv
  <1>1. AnsweredOnce(q) /\ OnePlace(q)
    BY DEF AnswerInv, PlaceInv
  <1>2. Effect(j)
    BY ExecEffect
  <1>3. /\ UNCHANGED <<unsent, inbox, answered>>
        /\ loop'.req = q => loop.req = q
    BY <1>2, NotNone DEF Effect, LoopEffect
  <1>4. Waiting(q)' => Waiting(q)
    BY <1>3 DEF Waiting, InInbox
  <1>5. \A i \in Job : Asking(i, q)' => Asking(i, q)
    BY <1>2, NotNone DEF Effect, JobEffect, MayGoTo, Asking
  <1>6. CASE UNCHANGED events
    BY <1>1, <1>3, <1>4, <1>5, <1>6, AnswerSame
  <1>7. ASSUME NEW ret \in {"ok", "error"}, job[j].wait = "report",
               job'[j].wait \notin {"select", "report"},
               events' = Append(events, [req |-> job[j].req, ret |-> ret])
        PROVE  AnsweredOnce(q)'
    <2>1. /\ Len(events) \in Nat /\ Len(events') = Len(events) + 1
          /\ \A n \in 1..Len(events) : events'[n] = events[n]
          /\ events'[Len(events) + 1].req = job[j].req
      BY <1>7 DEF TypeInv, TypeOK
    <2>2. CASE job[j].req # q
      <3>1. InEvents(q)' => InEvents(q)
        BY <2>1, <2>2 DEF InEvents
      <3>2. OnceInEvents(q) => OnceInEvents(q)'
        BY <2>1, <2>2 DEF OnceInEvents
      <3>3. Reported(q)' => Reported(q)
        BY <1>3, <3>1 DEF Reported
      <3>. QED BY <1>1, <1>3, <1>4, <1>5, <3>1, <3>2, <3>3 DEF AnsweredOnce
    <2>3. CASE job[j].req = q
      <3>1. Asking(j, q) /\ LiveFor(j, q)
        BY <1>7, <2>3 DEF Asking, LiveFor, Live
      <3>2. ~Waiting(q)'
        BY <1>1, <1>4, <3>1 DEF OnePlace
      <3>3. \A i \in Job : ~Asking(i, q)'
        <4>1. ~Asking(j, q)'
          BY <1>7 DEF Asking
        <4>2. ASSUME NEW i \in Job, Asking(i, q) PROVE i = j
          BY <1>1, <3>1, <4>2 DEF OnePlace, Asking, LiveFor, Live
        <4>. QED BY <1>5, <4>1, <4>2
      <3>4. ~q.repeat => OnceInEvents(q)' /\ q \notin answered'
        <4>. SUFFICES ASSUME ~q.repeat PROVE OnceInEvents(q)' /\ q \notin answered'
          OBVIOUS
        <4>1. ~InEvents(q) /\ q \notin answered
          BY <1>1, <3>1 DEF AnsweredOnce, Reported
        <4>2. \A n \in 1..Len(events') : events'[n].req = q => n = Len(events) + 1
          BY <2>1, <4>1 DEF InEvents
        <4>. QED BY <1>3, <4>1, <4>2 DEF OnceInEvents
      <3>. QED BY <3>2, <3>3, <3>4 DEF AnsweredOnce
    <2>. QED BY <2>2, <2>3
  <1>. QED BY <1>2, <1>6, <1>7 DEF Effect, EventEffect

\* Every step keeps it.
LEMMA AnswerStep == TypeInv /\ PlaceInv /\ RepeatInv /\ AnswerInv /\ [Next]_vars => AnswerInv'
  <1>. SUFFICES ASSUME TypeInv, PlaceInv, RepeatInv, AnswerInv, [Next]_vars PROVE AnswerInv'
    OBVIOUS
  <1>1. CASE LoopStep \/ \E q \in Req : _processIpcSrvMessage(q)
    BY <1>1, AnswerLoopStep
  <1>2. ASSUME Dies PROVE AnswerInv'
    <2>. SUFFICES ASSUME NEW q \in Req PROVE AnsweredOnce(q)'
      BY DEF AnswerInv
    <2>1. ~InInbox(q)' /\ loop'.req # q /\ UNCHANGED <<unsent, answered>>
      BY <1>2, NotNone DEF Dies, InInbox
    <2>2. ~InEvents(q)' /\ OnceInEvents(q)'
      BY <1>2 DEF Dies, InEvents, OnceInEvents
    <2>3. \A i \in Job : ~Asking(i, q)'
      BY <1>2, NotNone DEF Dies, Asking
    <2>. QED BY <2>1, <2>2, <2>3 DEF AnswerInv, AnsweredOnce, Reported, Waiting
  <1>3. ASSUME UNCHANGED <<unsent, inbox, loop, events, answered>>,
               \A q \in Req, i \in Job : ~q.repeat /\ Asking(i, q)' => Asking(i, q)
        PROVE  AnswerInv'
    <2>. SUFFICES ASSUME NEW q \in Req PROVE AnsweredOnce(q)'
      BY DEF AnswerInv
    <2>1. Waiting(q)' => Waiting(q)
      BY <1>3 DEF Waiting, InInbox
    <2>. QED BY <1>3, <2>1, AnswerSame DEF AnswerInv
  <1>4. ASSUME NEW j \in Job, JobStep(j) PROVE AnswerInv'
    <2>1. CASE ExecStep(j)
      BY <2>1, AnswerExecStep
    <2>2. CASE TimerFires(j)
      BY <1>3, <2>2 DEF TimerFires, Asking
    <2>3. CASE StartRAFails(j)
      BY <1>2, <2>3 DEF StartRAFails
    <2>4. ASSUME NEW k \in Job, TimerCallback(j, k) PROVE AnswerInv'
      <3>1. PICK p \in Req : p = timer[j].req /\ p.repeat
        BY <2>4 DEF TimerCallback, TypeInv, RefsOK, RepeatInv
      <3>2. UNCHANGED <<unsent, inbox, loop, events, answered>>
        BY <2>4 DEF TimerCallback
      <3>3. UNCHANGED job \/ job' = [job EXCEPT ![k] = NewJob(p)]
        BY <2>4, <3>1 DEF TimerCallback
      <3>4. \A i \in Job : job'[i] = job[i] \/ job'[i].req = p
        BY <3>3, NotNone DEF TypeInv, TypeOK
      <3>5. \A q \in Req, i \in Job : ~q.repeat /\ Asking(i, q)' => Asking(i, q)
        BY <3>1, <3>4 DEF Asking
      <3>. QED BY <1>3, <3>2, <3>5
    <2>. QED BY <1>4, <2>1, <2>2, <2>3, <2>4 DEF JobStep, ExecStep
  <1>5. CASE Faults
    BY <1>2, <1>5 DEF Faults, ConcurrentMapFault, ParametersFault
  <1>6. CASE UNCHANGED vars
    BY <1>3, <1>6 DEF vars, Asking
  <1>. QED BY <1>1, <1>4, <1>5, <1>6 DEF Next

\* A one-shot request is answered at most once, although its timeout and its exit can both
\* put a result on a channel.
THEOREM OneShotsAnsweredOnce == Spec => []OneShotAnsweredOnce
  <1>1. TypeInv /\ AnswerInv => OneShotAnsweredOnce
    <2>. SUFFICES ASSUME TypeInv, AnswerInv PROVE OneShotAnsweredOnce
      OBVIOUS
    <2>1. ASSUME NEW m \in 1..Len(events), ~events[m].req.repeat
          PROVE  /\ events[m].req \notin answered
                 /\ \A n \in 1..Len(events) : events[n].req = events[m].req => m = n
      <3>1. PICK q \in Req : q = events[m].req
        <4>1. events[m] \in EventType
          BY DEF TypeInv, TypeOK
        <4>. QED BY <4>1 DEF EventType
      <3>2. InEvents(q)
        BY <3>1 DEF InEvents
      <3>. QED BY <2>1, <3>1, <3>2 DEF AnswerInv, AnsweredOnce, OnceInEvents
    <2>2. ASSUME NEW j \in Job, job[j].wait \in {"select", "report"}, ~job[j].req.repeat
          PROVE  /\ job[j].req \notin answered
                 /\ \A n \in 1..Len(events) : events[n].req # job[j].req
      <3>1. PICK q \in Req : q = job[j].req
        BY <2>2, NotNone DEF TypeInv, RefsOK, AtWork
      <3>2. ~Reported(q)
        BY <2>2, <3>1 DEF AnswerInv, AnsweredOnce, Asking
      <3>. QED BY <3>1, <3>2 DEF Reported, InEvents
    <2>. QED BY <2>1, <2>2 DEF OneShotAnsweredOnce
  <1>2. Spec => []AnswerInv
    BY AnswerInit, AnswerStep, TypeInvHolds, PlaceInvHolds, RepeatInvHolds, PTL DEF Spec
  <1>. QED BY <1>1, <1>2, TypeInvHolds, PTL

-----------------------------------------------------------------------------
(* III. The refinement.                                                    *)

Before == {"select", "report", "rearm"}

\* A timer belongs to the job it is named after: it is armed when the job re-arms its
\* monitor, and the record that refers to it is one of its resource.
TimerInv ==
  /\ \A j \in Job : job[j].wait \in Before => timer[j].state = "none"
  /\ \A j \in Job : job[j].wait = "rearm2" /\ timer[j].state # "none"
                    => timer[j].req = job[j].req
  /\ \A r \in Rsc, j \in Job : onRsc[r].tm = j =>
       /\ job[j].wait \notin Before \cup {"rearm2"}
       /\ timer[j].state # "none" => timer[j].req.rsc = r

\* A client has sent what is executed, and the stop that is recorded for a resource.
SentInv ==
  /\ \A j \in Job : job[j] # NoJob => job[j].req \notin unsent
  /\ \A r \in Rsc : onRsc[r].op = "stop" =>
       \E s \in Req : s.op = "stop" /\ s.rsc = r /\ s \notin unsent

\* Nothing is armed, executed or recorded at the start.
LEMMA TimerSentInit == Init => TimerInv /\ SentInv
  <1>. SUFFICES ASSUME Init PROVE TimerInv /\ SentInv
    OBVIOUS
  <1>1. /\ \A j \in Job : job[j] = NoJob /\ timer[j] = NoTimer
        /\ \A r \in Rsc : onRsc[r] = NoRecord
        /\ \A j \in Job : j # None
    BY NoneAssumption DEF Init
  <1>2. NoRecord.tm = None /\ NoRecord.op = "none" /\ NoJob.wait = "none" /\ NoTimer.state = "none"
    BY DEF NoRecord, NoJob, NoTimer
  <1>. QED BY <1>1, <1>2 DEF TimerInv, SentInv, Before

\* What a step of an execution does to the timer of a record.
TmEffect(j) ==
  \A r \in Rsc :
    \/ onRsc'[r].tm \in {onRsc[r].tm, None}
    \/ /\ job[j].wait = "rearm2" /\ r = job[j].req.rsc /\ onRsc'[r].tm = j
       /\ job'[j].wait \notin Before \cup {"rearm2"}

LEMMA ExecTm ==
  ASSUME TypeInv, NEW j \in Job, ExecStep(j)
  PROVE  TmEffect(j)
  <1>1. onRsc \in [Rsc -> RecordType] /\ job \in [Job -> JobType]
    BY DEF TypeInv, TypeOK
  <1>2. CASE UNCHANGED onRsc
    BY <1>2 DEF TmEffect
  <1>3. CASE SetMonitor(j)
    BY <1>1, <1>3 DEF SetMonitor, RecordRscOp, NewExecrsc, TmEffect
  <1>4. CASE SetMonitorTimer(j)
    <2>1. job[j].wait = "rearm2" /\ RecordRscOp(job[j].req.rsc, job[j].req.op, 1, j)
      BY <1>4 DEF SetMonitorTimer
    <2>2. \A r \in Rsc : r # job[j].req.rsc => onRsc'[r] = onRsc[r]
      BY <1>1, <2>1 DEF RecordRscOp
    <2>3. job[j].req.rsc \in Rsc => onRsc'[job[j].req.rsc].tm = j
      BY <1>1, <2>1 DEF RecordRscOp, NewExecrsc
    <2>4. PICK pc \in {"terminate", "done"} : WaitGoesTo(j, pc)
      BY <1>4 DEF SetMonitorTimer, AfterRearm
    <2>5. pc \in WaitPC
      BY <2>4 DEF WaitPC
    <2>6. job'[j] = NoJob \/ job'[j].wait = pc
      BY <2>4, <2>5, WaitGoesToType, Zenon DEF TypeInv
    <2>7. job'[j].wait \notin Before \cup {"rearm2"}
      BY <2>4, <2>6, NotNone DEF Before
    <2>. QED BY <2>1, <2>2, <2>3, <2>7 DEF TmEffect
  <1>5. CASE SetRscTerminate(j)
    BY <1>1, <1>5 DEF SetRscTerminate, RecordType, TmEffect
  <1>. QED BY <1>2, <1>3, <1>4, <1>5 DEF ExecStep, RAGoroutine, waitChildFunc, StartRA, ReapRA,
           RAExits, TimeoutFires, SelectFin, SelectTimeout, Report

\* A step of an execution keeps both.
LEMMA TimerSentExec ==
  ASSUME TypeInv, TimerInv, SentInv, NEW j \in Job, ExecStep(j)
  PROVE  TimerInv' /\ SentInv'
  <1>1. Effect(j) /\ TmEffect(j)
    BY ExecEffect, ExecTm
  <1>2. /\ \A i \in Job : i # j => job'[i] = job[i]
        /\ job'[j] = NoJob \/ job'[j].req = job[j].req
        /\ job[j] # NoJob /\ MayGoTo(job[j], job'[j].wait)
        /\ UNCHANGED unsent
    BY <1>1 DEF Effect, JobEffect
  <1>3. /\ \A i \in Job : i # j => timer'[i] = timer[i]
        /\ \/ timer'[j] = timer[j]
           \/ /\ job[j].wait = "rearm" /\ job'[j].wait \in {"none", "rearm2"}
              /\ timer'[j] = [req |-> job[j].req, state |-> "armed"]
    BY <1>1 DEF Effect, TimerEffect, TypeInv, TypeOK
  <1>4. job'[j].wait \in Before => job[j].wait \in Before
    BY <1>2, NotNone DEF MayGoTo, Before
  <1>5. ASSUME NEW i \in Job, job'[i].wait \in Before PROVE timer'[i].state = "none"
    BY <1>2, <1>3, <1>4, <1>5 DEF TimerInv, Before
  <1>6. ASSUME NEW i \in Job, job'[i].wait = "rearm2", timer'[i].state # "none"
        PROVE  timer'[i].req = job'[i].req
    <2>1. CASE i # j
      BY <1>2, <1>3, <1>6, <2>1 DEF TimerInv
    <2>2. CASE i = j
      <3>1. job'[j].req = job[j].req
        BY <1>2, <1>6, <2>2, NotNone
      <3>2. job[j].wait \in {"rearm", "rearm2"}
        BY <1>2, <1>6, <2>2 DEF MayGoTo
      <3>3. CASE timer'[j] = timer[j]
        BY <1>6, <2>2, <3>1, <3>2, <3>3 DEF TimerInv, Before
      <3>4. CASE timer'[j] = [req |-> job[j].req, state |-> "armed"]
        BY <2>2, <3>1, <3>4
      <3>. QED BY <1>3, <3>3, <3>4
    <2>. QED BY <2>1, <2>2
  <1>7. ASSUME NEW r \in Rsc, NEW i \in Job, onRsc'[r].tm = i
        PROVE  /\ job'[i].wait \notin Before \cup {"rearm2"}
               /\ timer'[i].state # "none" => timer'[i].req.rsc = r
    <2>1. i # None
      BY NoneAssumption
    <2>2. CASE onRsc[r].tm = i
      <3>1. job[i].wait \notin Before \cup {"rearm2"}
        BY <2>2 DEF TimerInv
      <3>2. job'[i].wait \notin Before \cup {"rearm2"}
        BY <1>2, <3>1, NotNone DEF MayGoTo, Before
      <3>3. timer'[i] = timer[i]
        BY <1>3, <3>1 DEF Before
      <3>. QED BY <2>2, <3>2, <3>3 DEF TimerInv
    <2>3. CASE /\ job[j].wait = "rearm2" /\ r = job[j].req.rsc /\ i = j
               /\ job'[j].wait \notin Before \cup {"rearm2"}
      BY <1>3, <2>3 DEF TimerInv
    <2>. QED BY <1>1, <1>7, <2>1, <2>2, <2>3 DEF TmEffect
  <1>8. TimerInv'
    BY <1>5, <1>6, <1>7 DEF TimerInv
  <1>9. \A i \in Job : job'[i] # NoJob => job'[i].req \notin unsent'
    BY <1>2 DEF SentInv
  <1>10. ASSUME NEW r \in Rsc, onRsc'[r].op = "stop"
         PROVE  \E s \in Req : s.op = "stop" /\ s.rsc = r /\ s \notin unsent'
    <2>1. CASE onRsc[r].op = "stop"
      BY <1>2, <2>1 DEF SentInv
    <2>2. CASE onRsc[r].op # "stop"
      <3>1. r = job[j].req.rsc /\ job[j].req.op = "stop"
        BY <1>1, <1>10, <2>2 DEF Effect, RecordEffect
      <3>2. job[j].req \in Req
        BY <1>2 DEF TypeInv, RefsOK, AtWork
      <3>. QED BY <1>2, <3>1, <3>2 DEF SentInv
    <2>. QED BY <2>1, <2>2
  <1>. QED BY <1>8, <1>9, <1>10 DEF SentInv

\* A job that is launched has an identity that no timer and no record refers to.
LEMMA TimerSentLaunch ==
  ASSUME TypeInv, TimerInv, SentInv, NEW p \in Req, NEW k \in Job, Fresh(k),
         job' = [job EXCEPT ![k] = NewJob(p)], p \notin unsent, UNCHANGED unsent,
         \A j \in Job : timer'[j] \in {timer[j], NoTimer},
         \/ UNCHANGED onRsc
         \/ RecordRscOp(p.rsc, p.op, 0, None)
  PROVE  TimerInv' /\ SentInv'
  <1>1. \A j \in Job : job'[j] = IF j = k THEN NewJob(p) ELSE job[j]
    BY DEF TypeInv, TypeOK
  <1>2. job[k] = NoJob /\ timer[k].state = "none" /\ \A r \in Rsc : onRsc[r].tm # k
    BY DEF Fresh
  <1>3. /\ \A r \in Rsc : onRsc'[r].tm \in {onRsc[r].tm, None}
        /\ \A r \in Rsc : onRsc'[r].op = onRsc[r].op \/ (r = p.rsc /\ onRsc'[r].op = p.op)
    BY DEF RecordRscOp, NewExecrsc, TypeInv, TypeOK
  <1>4. \A j \in Job : j # None
    BY NoneAssumption
  <1>5. \A j \in Job : timer'[j].state # "none" => timer'[j] = timer[j] /\ j # k
    BY <1>2, NotNone
  <1>6. \A j \in Job : job'[j].wait \in Before => timer'[j].state = "none"
    BY <1>1, <1>5 DEF TimerInv
  <1>7. \A j \in Job : job'[j].wait = "rearm2" /\ timer'[j].state # "none"
                       => timer'[j].req = job'[j].req
    BY <1>1, <1>5 DEF TimerInv
  <1>8. ASSUME NEW r \in Rsc, NEW j \in Job, onRsc'[r].tm = j
        PROVE  /\ job'[j].wait \notin Before \cup {"rearm2"}
               /\ timer'[j].state # "none" => timer'[j].req.rsc = r
    <2>1. onRsc[r].tm = j /\ j # k
      BY <1>2, <1>3, <1>4, <1>8
    <2>. QED BY <1>1, <1>5, <2>1 DEF TimerInv
  <1>9. TimerInv'
    BY <1>6, <1>7, <1>8 DEF TimerInv
  <1>10. \A j \in Job : job'[j] # NoJob => job'[j].req \notin unsent'
    BY <1>1, NotNone DEF SentInv
  <1>11. \A r \in Rsc : onRsc'[r].op = "stop" =>
           \E s \in Req : s.op = "stop" /\ s.rsc = r /\ s \notin unsent'
    BY <1>3 DEF SentInv
  <1>. QED BY <1>9, <1>10, <1>11 DEF SentInv

\* A step that launches nothing: requests may be sent, timers stopped.
LEMMA TimerSentSame ==
  ASSUME TimerInv, SentInv, UNCHANGED <<job, onRsc>>, unsent' \subseteq unsent,
         \A j \in Job : timer'[j].state # "none" =>
           timer[j].state # "none" /\ timer'[j].req = timer[j].req
  PROVE  TimerInv' /\ SentInv'
  <1>1. TimerInv'
    BY DEF TimerInv
  <1>. QED BY <1>1 DEF SentInv

\* A crash leaves nothing that could refer to a timer or a stop.
LEMMA TimerSentDies == Dies => TimerInv' /\ SentInv'
  <1>. SUFFICES ASSUME Dies PROVE TimerInv' /\ SentInv'
    OBVIOUS
  <1>1. /\ \A j \in Job : job'[j] = NoJob /\ timer'[j] = NoTimer
        /\ \A r \in Rsc : onRsc'[r] = NoRecord
        /\ \A j \in Job : j # None
    BY NoneAssumption DEF Dies
  <1>2. NoRecord.tm = None /\ NoRecord.op = "none" /\ NoJob.wait = "none" /\ NoTimer.state = "none"
    BY DEF NoRecord, NoJob, NoTimer
  <1>. QED BY <1>1, <1>2 DEF TimerInv, SentInv, Before

\* Every step keeps both: what the loop or a timer launches was sent before.
LEMMA TimerSentStep ==
  ASSUME TypeInv, PlaceInv, TimerInv, SentInv, [Next]_vars
  PROVE  TimerInv' /\ SentInv'
  <1>1. inbox \in Seq(Req) /\ (loop.pc \in {"push", "record"} => loop.req \in Req)
    BY DEF TypeInv, TypeOK, RefsOK
  <1>2. ASSUME NEW q \in Req, _processIpcSrvMessage(q) PROVE TimerInv' /\ SentInv'
    BY <1>2, TimerSentSame DEF _processIpcSrvMessage
  <1>3. ASSUME _messageResourceHandler \/ _processRscOpEvent PROVE TimerInv' /\ SentInv'
    BY <1>3, TimerSentSame DEF _messageResourceHandler, _processRscOpEvent
  <1>4. ASSUME NEW p \in Req, NEW k \in Job, _processRscOpMessage(p, k)
        PROVE  TimerInv' /\ SentInv'
    <2>1. p = Head(inbox) /\ inbox # <<>> /\ inbox' = Tail(inbox) /\ UNCHANGED <<unsent, onRsc>>
      BY <1>4 DEF _processRscOpMessage
    <2>2. InInbox(p)
      BY <1>1, <2>1, InboxTail
    <2>3. p \notin unsent
      BY <2>2 DEF PlaceInv, OnePlace
    <2>4. \A j \in Job : timer'[j] \in {timer[j], NoTimer}
      BY <1>4 DEF _processRscOpMessage, StoppedTimer
    <2>5. CASE UNCHANGED job
      BY <2>1, <2>4, <2>5, NotNone, TimerSentSame
    <2>6. CASE Launch(p, k)
      BY <2>1, <2>3, <2>4, <2>6, TimerSentLaunch DEF Launch
    <2>. QED BY <1>4, <2>5, <2>6 DEF _processRscOpMessage
  <1>5. ASSUME NEW k \in Job, RecordAndLaunch(k) PROVE TimerInv' /\ SentInv'
    <2>1. PICK p \in Req : p = loop.req
      BY <1>1, <1>5 DEF RecordAndLaunch
    <2>2. p \notin unsent
      BY <2>1 DEF PlaceInv, OnePlace
    <2>3. /\ Fresh(k) /\ job' = [job EXCEPT ![k] = NewJob(p)] /\ UNCHANGED <<unsent, timer>>
          /\ RecordRscOp(p.rsc, p.op, 0, None)
      BY <1>5, <2>1 DEF RecordAndLaunch, Launch
    <2>. QED BY <2>2, <2>3, TimerSentLaunch
  <1>6. ASSUME NEW j \in Job, JobStep(j) PROVE TimerInv' /\ SentInv'
    <2>1. CASE ExecStep(j)
      BY <2>1, TimerSentExec
    <2>2. CASE TimerFires(j)
      BY <2>2, TimerSentSame DEF TimerFires, TypeInv, TypeOK, TimerType
    <2>3. CASE StartRAFails(j)
      BY <2>3, TimerSentDies DEF StartRAFails
    <2>4. ASSUME NEW k \in Job, TimerCallback(j, k) PROVE TimerInv' /\ SentInv'
      <3>1. PICK p \in Req : p = timer[j].req /\ TimerFor(j, p)
        BY <2>4 DEF TimerCallback, TypeInv, RefsOK, TimerFor
      <3>2. p \notin unsent
        BY <3>1 DEF PlaceInv, OnePlace, Waiting
      <3>3. /\ UNCHANGED <<unsent, onRsc>>
            /\ \A i \in Job : timer'[i] \in {timer[i], NoTimer}
        BY <2>4 DEF TimerCallback, TypeInv, TypeOK
      <3>4. CASE UNCHANGED job
        BY <3>3, <3>4, NotNone, TimerSentSame
      <3>5. CASE Fresh(k) /\ job' = [job EXCEPT ![k] = NewJob(p)]
        BY <3>2, <3>3, <3>5, TimerSentLaunch
      <3>. QED BY <2>4, <3>1, <3>4, <3>5 DEF TimerCallback
    <2>. QED BY <1>6, <2>1, <2>2, <2>3, <2>4 DEF JobStep, ExecStep
  <1>7. CASE Faults
    BY <1>7, TimerSentDies DEF Faults, ConcurrentMapFault, ParametersFault
  <1>8. CASE UNCHANGED vars
    BY <1>8, TimerSentSame DEF vars
  <1>. QED BY <1>2, <1>3, <1>4, <1>5, <1>6, <1>7, <1>8 DEF Next, LoopStep

\* Timers belong to their jobs and what is executed was sent, always.
LEMMA TimerSentHolds == Spec => [](TimerInv /\ SentInv)
  <1>1. TypeInv /\ PlaceInv /\ TimerInv /\ SentInv /\ [Next]_vars => (TimerInv /\ SentInv)'
    BY TimerSentStep
  <1>. QED BY <1>1, TimerSentInit, TypeInvHolds, PlaceInvHolds, PTL DEF Spec

-----------------------------------------------------------------------------
(* No execution of a kept request is over before it reported.              *)

KeptInv == \A q \in Kept, j \in Job : job[j].req = q => Asking(j, q) \/ Reported(q)

\* The execution of a kept request asks for a report until it reports.
LEMMA KeptExec ==
  ASSUME TypeInv, SyncStops => SyncInv, NEW q \in Kept, NEW j \in Job, Asking(j, q), ExecStep(j)
  PROVE  \/ Asking(j, q)'
         \/ \E ret \in {"ok", "error"} : events' = Append(events, [req |-> q, ret |-> ret])
  <1>1. /\ q \in Req /\ ~q.repeat /\ ~q.async /\ SyncInv
        /\ job[j].req = q /\ job[j].wait \in {"select", "report"}
        /\ job \in [Job -> JobType] /\ job[j] \in JobType
    BY DEF Kept, Asking, TypeInv, TypeOK
  <1>2. CASE StartRA(j) \/ RAExits(j) \/ TimeoutFires(j)
    BY <1>1, <1>2 DEF StartRA, RAExits, TimeoutFires, JobType, Asking
  <1>3. CASE ReapRA(j)
    <2>. DEFINE b == job[j]
                ra == IF b.ra = "exit_ok" THEN "reaped_ok" ELSE "reaped_fail"
                timeout == IF b.timeout = "armed" THEN "off" ELSE b.timeout
                count == IF b.wait = "select" THEN getCount(b.req.rsc) ELSE 0
                c == [b EXCEPT !.ra = ra, !.timeout = timeout, !.count = count]
    <2>1. job' = [job EXCEPT ![j] = Settled(c)]
      BY <1>3 DEF ReapRA
    <2>. HIDE DEF timeout, count, ra
    <2>2. c.req = q /\ c.wait = job[j].wait
      BY <1>1 DEF JobType
    <2>. HIDE DEF c
    <2>3. Settled(c) = c
      BY <1>1, <2>2 DEF Settled
    <2>. QED BY <1>1, <2>1, <2>2, <2>3 DEF Asking
  <1>4. CASE SelectFin(j)
    <2>1. job[j].wait = "select"
      BY <1>4 DEF SelectFin
    <2>2. ~onRsc[job[j].req.rsc].terminate
      BY <1>1, <2>1 DEF SyncInv, IsSync
    <2>3. ~isRscTerminate(job[j].req.rsc) /\ ~QuietMonitor(job[j])
      BY <1>1, <2>2 DEF isRscTerminate, QuietMonitor
    <2>. DEFINE ret == IF job[j].ra = "reaped_ok" THEN "ok" ELSE "error"
    <2>4. job' = [job EXCEPT ![j].wait = "report", ![j].ret = ret,
                             ![j].timeout = "off", ![j].count = 0]
      BY <1>4, <2>3 DEF SelectFin
    <2>. QED BY <1>1, <2>4 DEF JobType, Asking
  <1>5. CASE SelectTimeout(j)
    BY <1>1, <1>5 DEF SelectTimeout, JobType, Asking
  <1>6. CASE Report(j)
    <2>1. job[j].wait = "report" /\ job[j].ret \in {"ok", "error"}
      BY <1>1, <1>6 DEF Report, TypeInv, RefsOK, JobType
    <2>. QED BY <1>1, <1>6, <2>1 DEF Report
  <1>7. CASE SetMonitor(j) \/ SetMonitorTimer(j) \/ SetRscTerminate(j)
    BY <1>1, <1>7 DEF SetMonitor, SetMonitorTimer, SetRscTerminate
  <1>. QED BY <1>2, <1>3, <1>4, <1>5, <1>6, <1>7 DEF ExecStep, RAGoroutine, waitChildFunc

\* What is reported stays so while the daemon lives.
LEMMA ReportedStays ==
  ASSUME TypeInv, NEW q \in Req, Reported(q),
         \/ UNCHANGED <<events, answered>>
         \/ \E x \in EventType : events' = Append(events, x) /\ UNCHANGED answered
         \/ /\ events # <<>> /\ events' = Tail(events)
            /\ answered' = answered \cup {Head(events).req}
  PROVE  Reported(q)'
  <1>1. events \in Seq(EventType) /\ Len(events) \in Nat
    BY DEF TypeInv, TypeOK
  <1>2. CASE UNCHANGED <<events, answered>>
    BY <1>2 DEF Reported, InEvents
  <1>3. ASSUME NEW x \in EventType, events' = Append(events, x), UNCHANGED answered
        PROVE  Reported(q)'
    <2>1. Len(events') = Len(events) + 1 /\ \A n \in 1..Len(events) : events'[n] = events[n]
      BY <1>1, <1>3
    <2>. QED BY <1>1, <1>3, <2>1 DEF Reported, InEvents
  <1>4. CASE /\ events # <<>> /\ events' = Tail(events)
             /\ answered' = answered \cup {Head(events).req}
    <2>1. /\ Len(events) \in Nat \ {0} /\ Len(events') = Len(events) - 1
          /\ \A n \in 1..Len(events') : events'[n] = events[n + 1]
          /\ Head(events) = events[1]
      BY <1>1, <1>4
    <2>2. ASSUME NEW n \in 1..Len(events), events[n].req = q, n # 1 PROVE InEvents(q)'
      <3>1. n - 1 \in 1..Len(events') /\ events'[n - 1].req = q
        BY <2>1, <2>2
      <3>. QED BY <3>1 DEF InEvents
    <2>. QED BY <1>4, <2>1, <2>2 DEF Reported, InEvents
  <1>. QED BY <1>2, <1>3, <1>4

LEMMA KeptInit == Init => KeptInv
  BY NotNone DEF Init, KeptInv, Kept

\* A job that is launched asks.
LEMMA KeptLaunch ==
  ASSUME TypeInv, KeptInv, UNCHANGED <<events, answered>>,
         \/ UNCHANGED job
         \/ \E p \in Req, k \in Job : job' = [job EXCEPT ![k] = NewJob(p)]
  PROVE  KeptInv'
  <1>1. \A q \in Kept : Reported(q) => Reported(q)'
    BY ReportedStays DEF Kept
  <1>2. Kept' = Kept
    BY DEF Kept
  <1>3. CASE UNCHANGED job
    BY <1>1, <1>2, <1>3 DEF KeptInv, Asking
  <1>4. ASSUME NEW p \in Req, NEW k \in Job, job' = [job EXCEPT ![k] = NewJob(p)]
        PROVE  KeptInv'
    <2>1. \A i \in Job : job'[i] = IF i = k THEN NewJob(p) ELSE job[i]
      BY <1>4 DEF TypeInv, TypeOK
    <2>2. job'[k].req = p /\ job'[k].wait = "select"
      BY <2>1, NotNone
    <2>. QED BY <1>1, <1>2, <2>1, <2>2 DEF KeptInv, Asking
  <1>. QED BY <1>3, <1>4

\* Every step keeps it.
LEMMA KeptStep ==
  ASSUME TypeInv, SyncStops => SyncInv, KeptInv, [Next]_vars
  PROVE  KeptInv'
  <1>1. Kept' = Kept /\ Kept \subseteq Req
    BY DEF Kept
  <1>2. loop.pc \in {"push", "record"} => loop.req \in Req
    BY DEF TypeInv, RefsOK
  <1>3. ASSUME Dies PROVE KeptInv'
    BY <1>1, <1>3, NotNone DEF Dies, KeptInv
  <1>4. ASSUME NEW k \in Job, RecordAndLaunch(k) PROVE KeptInv'
    <2>1. PICK p \in Req : p = loop.req
      BY <1>2, <1>4 DEF RecordAndLaunch
    <2>2. job' = [job EXCEPT ![k] = NewJob(p)] /\ UNCHANGED <<events, answered>>
      BY <1>4, <2>1 DEF RecordAndLaunch, Launch
    <2>. QED BY <2>2, KeptLaunch
  <1>5. ASSUME NEW j \in Job, ExecStep(j) PROVE KeptInv'
    <2>1. Effect(j)
      BY <1>5, ExecEffect
    <2>2. /\ \A i \in Job : i # j => job'[i] = job[i]
          /\ job'[j] = NoJob \/ job'[j].req = job[j].req
          /\ job[j] # NoJob /\ UNCHANGED answered
      BY <2>1 DEF Effect, JobEffect
    <2>3. job[j].req \in Req
      BY <2>2 DEF TypeInv, RefsOK, AtWork
    <2>4. \/ UNCHANGED <<events, answered>>
          \/ \E x \in EventType : events' = Append(events, x) /\ UNCHANGED answered
      BY <2>1, <2>2, <2>3 DEF Effect, EventEffect, EventType
    <2>5. \A q \in Kept : Reported(q) => Reported(q)'
      BY <1>1, <2>4, ReportedStays
    <2>6. ASSUME NEW q \in Kept, job'[j].req = q PROVE Asking(j, q)' \/ Reported(q)'
      <3>1. job[j].req = q
        BY <1>1, <2>2, <2>6, NotNone
      <3>2. CASE Reported(q)
        BY <2>5, <3>2
      <3>3. CASE Asking(j, q)
        <4>1. ASSUME NEW ret \in {"ok", "error"}, events' = Append(events, [req |-> q, ret |-> ret])
              PROVE  Reported(q)'
          <5>1. Len(events) \in Nat /\ Len(events') = Len(events) + 1
                /\ events'[Len(events) + 1].req = q
            BY <4>1 DEF TypeInv, TypeOK
          <5>. QED BY <5>1 DEF Reported, InEvents
        <4>. QED BY <1>5, <3>3, <4>1, KeptExec
      <3>. QED BY <3>1, <3>2, <3>3 DEF KeptInv
    <2>. QED BY <1>1, <2>2, <2>5, <2>6 DEF KeptInv, Asking
  <1>6. ASSUME _processRscOpEvent PROVE KeptInv'
    <2>1. /\ UNCHANGED job /\ events # <<>> /\ events' = Tail(events)
          /\ answered' = answered \cup {Head(events).req}
      BY <1>6 DEF _processRscOpEvent
    <2>2. \A q \in Kept : Reported(q) => Reported(q)'
      BY <1>1, <2>1, ReportedStays
    <2>. QED BY <1>1, <2>1, <2>2 DEF KeptInv, Asking
  <1>7. ASSUME NEW j \in Job, TimerFires(j) \/ \E k \in Job : TimerCallback(j, k)
        PROVE  KeptInv'
    BY <1>7, KeptLaunch DEF TimerFires, TimerCallback, TypeInv, RefsOK
  <1>8. ASSUME NEW q \in Req, _processIpcSrvMessage(q) \/ \E k \in Job : _processRscOpMessage(q, k)
        PROVE  KeptInv'
    BY <1>8, KeptLaunch DEF _processIpcSrvMessage, _processRscOpMessage, Launch
  <1>9. CASE _messageResourceHandler \/ UNCHANGED vars
    BY <1>9, KeptLaunch DEF _messageResourceHandler, vars
  <1>10. ASSUME NEW j \in Job, JobStep(j) PROVE KeptInv'
    BY <1>3, <1>5, <1>7, <1>10 DEF JobStep, ExecStep, StartRAFails
  <1>. QED BY <1>3, <1>4, <1>6, <1>8, <1>9, <1>10
           DEF Next, LoopStep, Faults, ConcurrentMapFault, ParametersFault

\* A kept request asks or has reported, always.
LEMMA KeptHolds == Spec => []KeptInv
  <1>1. TypeInv /\ (SyncStops => SyncInv) /\ KeptInv /\ [Next]_vars => KeptInv'
    BY KeptStep
  <1>2. Init => (SyncStops => SyncInv)
    BY SyncInit
  <1>3. TypeInv /\ RepeatInv /\ (SyncStops => SyncInv) /\ [Next]_vars => (SyncStops => SyncInv)'
    BY SyncStep DEF SyncStops
  <1>. QED BY <1>1, <1>2, <1>3, KeptInit, TypeInvHolds, RepeatInvHolds, PTL DEF Spec

-----------------------------------------------------------------------------
(* The refinement.                                                         *)

Stutters == UNCHANGED <<place, ready, answered, alive>>
Implements == E!Next \/ Stutters

\* The place of a request, from what RmanagerProofs says of it, before and after a step.
LEMMA PlaceFacts ==
  ASSUME NEW q \in Req, OnePlace(q)
  PROVE  /\ q \in unsent => place[q] = "client"
         /\ q \notin unsent /\ Waiting(q) => place[q] = "queued"
         /\ \A j \in Job : LiveFor(j, q) => place[q] = "running"
         /\ \A j \in Job : TimerFor(j, q) => place[q] = "timer"
         /\ place[q] = "client" => q \in unsent
  <1>1. Queued(q) <=> loop.req = q \/ InInbox(q)
    BY DEF Queued, InInbox
  <1>2. Runs(q) <=> \E j \in Job : LiveFor(j, q)
    BY DEF Runs, Executes, HasRA, LiveFor, Live, HasRAIn
  <1>3. Timed(q) <=> \E j \in Job : TimerFor(j, q)
    BY DEF Timed, TimerFor
  <1>. QED BY <1>1, <1>2, <1>3 DEF place, PlaceOf, OnePlace, Waiting

LEMMA PlaceFactsNext ==
  ASSUME NEW q \in Req, OnePlace(q)'
  PROVE  /\ q \notin unsent' /\ Waiting(q)' => place'[q] = "queued"
         /\ \A j \in Job : LiveFor(j, q)' => place'[q] = "running"
         /\ \A j \in Job : TimerFor(j, q)' => place'[q] = "timer"
         /\ /\ ~Waiting(q)'
            /\ \A j \in Job : ~LiveFor(j, q)' /\ ~TimerFor(j, q)'
            => place'[q] = "over"
  <1>1. Queued(q)' <=> loop'.req = q \/ InInbox(q)'
    BY DEF Queued, InInbox
  <1>2. Runs(q)' <=> \E j \in Job : LiveFor(j, q)'
    BY DEF Runs, Executes, HasRA, LiveFor, Live, HasRAIn
  <1>3. Timed(q)' <=> \E j \in Job : TimerFor(j, q)'
    BY DEF Timed, TimerFor
  <1>. QED BY <1>1, <1>2, <1>3 DEF place, PlaceOf, OnePlace, Waiting

\* A request stays where it is.
LEMMA PlaceStays ==
  ASSUME NEW q \in Req,
         q \in unsent' <=> q \in unsent,
         loop'.req = q \/ InInbox(q)' <=> loop.req = q \/ InInbox(q),
         (\E j \in Job : LiveFor(j, q)') <=> \E j \in Job : LiveFor(j, q),
         (\E j \in Job : TimerFor(j, q)') <=> \E j \in Job : TimerFor(j, q)
  PROVE  place'[q] = place[q]
  <1>1. Queued(q) <=> loop.req = q \/ InInbox(q)
    BY DEF Queued, InInbox
  <1>2. Runs(q) <=> \E j \in Job : LiveFor(j, q)
    BY DEF Runs, Executes, HasRA, LiveFor, Live, HasRAIn
  <1>3. Timed(q) <=> \E j \in Job : TimerFor(j, q)
    BY DEF Timed, TimerFor
  <1>4. Queued(q)' <=> loop'.req = q \/ InInbox(q)'
    BY DEF Queued, InInbox
  <1>5. Runs(q)' <=> \E j \in Job : LiveFor(j, q)'
    BY DEF Runs, Executes, HasRA, LiveFor, Live, HasRAIn
  <1>6. Timed(q)' <=> \E j \in Job : TimerFor(j, q)'
    BY DEF Timed, TimerFor
  <1>. QED BY <1>1, <1>2, <1>3, <1>4, <1>5, <1>6 DEF place, PlaceOf

\* One request moves, or none does.
LEMMA PlaceMoves ==
  ASSUME NEW q \in Req, \A p \in Req \ {q} : place'[p] = place[p]
  PROVE  place' = [place EXCEPT ![q] = place'[q]]
  BY DEF place

LEMMA PlaceSame ==
  ASSUME \A p \in Req : place'[p] = place[p]
  PROVE  place' = place
  BY DEF place

\* Without a new result the same requests have one on its way.
LEMMA ReadySame ==
  ASSUME UNCHANGED events
  PROVE  ready' = ready
  BY DEF ready

LEMMA ReadyIs == \A q \in Req : (q \in ready <=> InEvents(q)) /\ (q \in ready' <=> InEvents(q)')
  BY DEF ready, InEvents

\* The steps of the channel loop, and a request that arrives: a request is received, then
\* started or, if it is a stop that found a timer, the end of what the timer repeats.
LEMMA ReceiveImplements ==
  ASSUME PlaceInv, PlaceInv', NEW q \in Req, _processIpcSrvMessage(q)
  PROVE  E!Receive(q)
  <1>1. /\ alive /\ q \in unsent /\ unsent' = unsent \ {q} /\ loop = Idle /\ loop'.req = q
        /\ UNCHANGED <<inbox, job, timer, events, answered, alive>>
    BY DEF _processIpcSrvMessage
  <1>2. \A p \in Req : /\ InInbox(p)' = InInbox(p)
                       /\ \A j \in Job : LiveFor(j, p)' = LiveFor(j, p) /\ TimerFor(j, p)' = TimerFor(j, p)
    BY <1>1 DEF InInbox, LiveFor, TimerFor
  <1>3. \A p \in Req \ {q} : place'[p] = place[p]
    BY <1>1, <1>2, NotNone, PlaceStays
  <1>4. place[q] = "client"
    BY <1>1, PlaceFacts DEF PlaceInv
  <1>5. place'[q] = "queued"
    BY <1>1, PlaceFactsNext DEF PlaceInv, Waiting
  <1>6. place' = [place EXCEPT ![q] = "queued"]
    BY <1>3, <1>5, PlaceMoves
  <1>. QED BY <1>1, <1>4, <1>6, ReadySame DEF E!Receive, E!Moves

LEMMA QueueImplements ==
  ASSUME TypeInv, PlaceInv, _messageResourceHandler
  PROVE  Stutters
  <1>1. PICK x \in Req : x = loop.req
    BY DEF _messageResourceHandler, TypeInv, RefsOK
  <1>2. /\ inbox' = Append(inbox, x) /\ loop' = Idle /\ inbox \in Seq(Req)
        /\ UNCHANGED <<unsent, job, timer, events, answered, alive>>
    BY <1>1 DEF _messageResourceHandler, TypeInv, TypeOK
  <1>3. \A p \in Req : InInbox(p)' <=> InInbox(p) \/ x = p
    BY <1>2, InboxAppend
  <1>4. \A p \in Req, j \in Job : LiveFor(j, p)' = LiveFor(j, p) /\ TimerFor(j, p)' = TimerFor(j, p)
    BY <1>2 DEF LiveFor, TimerFor
  <1>5. \A p \in Req : place'[p] = place[p]
    BY <1>1, <1>2, <1>3, <1>4, NotNone, PlaceStays
  <1>. QED BY <1>2, <1>5, PlaceSame, ReadySame DEF Stutters

LEMMA AnswerImplements ==
  ASSUME TypeInv, AnswerInv, AnswerInv', _processRscOpEvent
  PROVE  \E q \in Req : E!Answer(q)
  <1>1. /\ alive /\ events # <<>> /\ events' = Tail(events) /\ events \in Seq(EventType)
        /\ answered' = answered \cup {Head(events).req}
        /\ UNCHANGED <<unsent, inbox, loop, job, timer, alive>>
    BY DEF _processRscOpEvent, TypeInv, TypeOK
  <1>2. /\ Len(events) \in Nat \ {0} /\ Len(events') = Len(events) - 1
        /\ \A n \in 1..Len(events') : events'[n] = events[n + 1]
        /\ Head(events) = events[1] /\ events[1] \in EventType
    BY <1>1
  <1>3. PICK q \in Req : q = Head(events).req
    BY <1>2 DEF EventType
  <1>4. InEvents(q)
    BY <1>2, <1>3 DEF InEvents
  <1>5. ASSUME NEW p \in Req, p # q PROVE InEvents(p)' <=> InEvents(p)
    <2>1. ASSUME NEW n \in 1..Len(events), events[n].req = p PROVE InEvents(p)'
      <3>1. n # 1
        BY <1>2, <1>3, <1>5, <2>1
      <3>2. n - 1 \in 1..Len(events') /\ events'[n - 1].req = p
        BY <1>2, <2>1, <3>1
      <3>. QED BY <3>2 DEF InEvents
    <2>2. ASSUME NEW n \in 1..Len(events'), events'[n].req = p PROVE InEvents(p)
      <3>1. n + 1 \in 1..Len(events) /\ events[n + 1].req = p
        BY <1>2, <2>2
      <3>. QED BY <3>1 DEF InEvents
    <2>. QED BY <2>1, <2>2 DEF InEvents
  <1>6. q \in answered'
    BY <1>1, <1>3
  <1>7. InEvents(q)' => q.repeat
    BY <1>6 DEF AnswerInv, AnsweredOnce
  <1>8. ready' = IF InEvents(q)' THEN ready ELSE ready \ {q}
    BY <1>4, <1>5, ReadyIs DEF ready
  <1>9. q \in ready /\ (ready' = ready => q.repeat)
    BY <1>4, <1>7, <1>8, ReadyIs
  <1>10. \A p \in Req : /\ InInbox(p)' = InInbox(p)
                        /\ \A j \in Job : LiveFor(j, p)' = LiveFor(j, p) /\ TimerFor(j, p)' = TimerFor(j, p)
    BY <1>1 DEF InInbox, LiveFor, TimerFor
  <1>11. place' = place
    BY <1>1, <1>10, PlaceStays, PlaceSame
  <1>. QED BY <1>1, <1>3, <1>8, <1>9, <1>11 DEF E!Answer

\* A request that is launched.
LEMMA StartImplements ==
  ASSUME TypeInv, PlaceInv, PlaceInv', NEW p \in Req, NEW k \in Job, Fresh(k),
         job' = [job EXCEPT ![k] = NewJob(p)], alive, p \notin unsent,
         loop.req = p \/ InInbox(p),
         \A q \in Req \ {p} : (loop'.req = q \/ InInbox(q)') <=> (loop.req = q \/ InInbox(q)),
         UNCHANGED <<unsent, timer, events, answered, alive>>
  PROVE  E!Start(p)
  <1>1. \A j \in Job : job'[j] = IF j = k THEN NewJob(p) ELSE job[j]
    BY DEF TypeInv, TypeOK
  <1>2. job[k] = NoJob
    BY DEF Fresh
  <1>3. \A q \in Req \ {p}, j \in Job : LiveFor(j, q)' = LiveFor(j, q)
    BY <1>1, <1>2, NotNone DEF LiveFor
  <1>4. \A q \in Req, j \in Job : TimerFor(j, q)' = TimerFor(j, q)
    BY DEF TimerFor
  <1>5. \A q \in Req \ {p} : place'[q] = place[q]
    BY <1>3, <1>4, PlaceStays
  <1>6. LiveFor(k, p)'
    BY <1>1, NotNone DEF LiveFor, Live
  <1>7. place'[p] = "running"
    BY <1>6, PlaceFactsNext DEF PlaceInv
  <1>8. place[p] = "queued"
    BY PlaceFacts DEF PlaceInv, Waiting
  <1>9. place' = [place EXCEPT ![p] = "running"]
    BY <1>5, <1>7, PlaceMoves
  <1>. QED BY <1>8, <1>9, ReadySame DEF E!Start, E!Moves

\* The loop holds a request only while it queues or records it.
LoopInv == loop.pc \in {"poll", "wait"} => loop.req = None

LEMMA LoopInvHolds == Spec => []LoopInv
  <1>1. Init => LoopInv
    BY NotNone DEF Init, LoopInv
  <1>2. TypeInv /\ LoopInv /\ [Next]_vars => LoopInv'
    <2>. SUFFICES ASSUME TypeInv, LoopInv, [Next]_vars PROVE LoopInv'
      OBVIOUS
    <2>1. ASSUME UNCHANGED loop \/ loop' = Idle PROVE LoopInv'
      BY <2>1, NotNone DEF LoopInv
    <2>2. CASE LoopStep \/ \E q \in Req : _processIpcSrvMessage(q)
      BY <2>1, <2>2, NotNone DEF LoopStep, _processIpcSrvMessage, _messageResourceHandler,
         _processRscOpEvent, _processRscOpMessage, RecordAndLaunch, Launch, LoopInv
    <2>3. ASSUME NEW j \in Job, JobStep(j) PROVE LoopInv'
      <3>1. CASE ExecStep(j)
        BY <2>1, <3>1, ExecEffect DEF Effect, LoopEffect
      <3>. QED BY <2>1, <2>3, <3>1 DEF JobStep, ExecStep, TimerFires, StartRAFails, Dies, TimerCallback
    <2>. QED BY <2>1, <2>2, <2>3 DEF Next, Faults, ConcurrentMapFault, ParametersFault, Dies, vars
  <1>. QED BY <1>1, <1>2, TypeInvHolds, PTL DEF Spec

\* A timer that is given up was all there was of its request.
LEMMA TimerDropped ==
  ASSUME TypeInv, PlaceInv, PlaceInv', NEW j \in Job, NEW q \in Req, TimerFor(j, q),
         timer' = [timer EXCEPT ![j] = NoTimer], UNCHANGED <<unsent, job>>,
         \A p \in Req : (loop'.req = p \/ InInbox(p)') <=> (loop.req = p \/ InInbox(p))
  PROVE  place[q] = "timer" /\ place' = [place EXCEPT ![q] = "over"]
  <1>1. \A i \in Job : timer'[i] = IF i = j THEN NoTimer ELSE timer[i]
    BY DEF TypeInv, TypeOK
  <1>2. \A p \in Req, i \in Job : LiveFor(i, p)' = LiveFor(i, p)
    BY DEF LiveFor
  <1>3. \A p \in Req \ {q}, i \in Job : TimerFor(i, p)' = TimerFor(i, p)
    BY <1>1, NotNone DEF TimerFor
  <1>4. \A p \in Req \ {q} : place'[p] = place[p]
    BY <1>2, <1>3, PlaceStays
  <1>5. place[q] = "timer"
    BY PlaceFacts DEF PlaceInv
  <1>6. ~Waiting(q)'
    BY DEF PlaceInv, OnePlace, Waiting
  <1>7. \A i \in Job : ~LiveFor(i, q)' /\ ~TimerFor(i, q)'
    BY <1>1, <1>2, NotNone DEF PlaceInv, OnePlace, TimerFor
  <1>8. place'[q] = "over"
    BY <1>6, <1>7, PlaceFactsNext DEF PlaceInv
  <1>. QED BY <1>4, <1>5, <1>8, PlaceMoves

\* ExecRscOp is entered: a repeating request is launched; a stop ends what the timer
\* recorded for its resource repeats.
LEMMA TakeImplements ==
  ASSUME TypeInv, PlaceInv, PlaceInv', TimerInv, NEW p \in Req, NEW k \in Job,
         _processRscOpMessage(p, k)
  PROVE  Implements
  <1>1. /\ alive /\ loop = Idle /\ inbox # <<>> /\ p = Head(inbox) /\ inbox' = Tail(inbox)
        /\ inbox \in Seq(Req) /\ UNCHANGED <<unsent, events, answered, alive>>
    BY DEF _processRscOpMessage, TypeInv, TypeOK
  <1>2. InInbox(p) /\ p \notin unsent
    BY <1>1, InboxTail DEF PlaceInv, OnePlace
  <1>3. ASSUME NEW q \in Req \ {p} PROVE InInbox(q)' <=> InInbox(q)
    <2>1. InInbox(q)' => InInbox(q)
      BY <1>1, InboxTail
    <2>2. /\ Len(inbox) \in Nat \ {0} /\ Len(inbox') = Len(inbox) - 1
          /\ \A n \in 1..Len(inbox') : inbox'[n] = inbox[n + 1]
          /\ Head(inbox) = inbox[1]
      BY <1>1
    <2>3. ASSUME NEW n \in 1..Len(inbox), inbox[n] = q PROVE InInbox(q)'
      <3>1. n # 1
        BY <1>1, <1>3, <2>2, <2>3
      <3>2. n - 1 \in 1..Len(inbox') /\ inbox'[n - 1] = q
        BY <2>2, <2>3, <3>1
      <3>. QED BY <3>2 DEF InInbox
    <2>. QED BY <2>1, <2>3 DEF InInbox
  <1>4. CASE Launch(p, k) /\ UNCHANGED timer
    <2>1. Fresh(k) /\ job' = [job EXCEPT ![k] = NewJob(p)] /\ loop'.req = None
      BY <1>4, NotNone DEF Launch
    <2>2. \A q \in Req \ {p} : (loop'.req = q \/ InInbox(q)') <=> (loop.req = q \/ InInbox(q))
      BY <1>1, <1>3, <2>1, NotNone
    <2>3. E!Start(p)
      BY <1>1, <1>2, <1>4, <2>1, <2>2, StartImplements
    <2>. QED BY <2>3 DEF Implements, E!Next
  <1>5. CASE /\ loop' = [pc |-> "record", req |-> p, job |-> None]
             /\ timer' = [j \in Job |-> IF p.op = "stop" /\ onRsc[p.rsc].tm = j
                                        THEN StoppedTimer(timer[j]) ELSE timer[j]]
             /\ UNCHANGED job
    <2>1. \A q \in Req : (loop'.req = q \/ InInbox(q)') <=> (loop.req = q \/ InInbox(q))
      BY <1>1, <1>2, <1>3, <1>5, NotNone
    <2>2. timer \in [Job -> TimerType]
      BY DEF TypeInv, TypeOK
    <2>3. ASSUME NEW j \in Job, p.op = "stop", onRsc[p.rsc].tm = j, timer[j].state = "armed"
          PROVE  Implements
      <3>1. PICK q \in Req : q = timer[j].req
        BY <2>3 DEF TypeInv, RefsOK
      <3>2. TimerFor(j, q)
        BY <2>3, <3>1 DEF TimerFor
      <3>3. timer' = [timer EXCEPT ![j] = NoTimer]
        BY <1>5, <2>2, <2>3 DEF StoppedTimer
      <3>4. place[q] = "timer" /\ place' = [place EXCEPT ![q] = "over"]
        BY <1>1, <1>5, <2>1, <3>2, <3>3, TimerDropped
      <3>5. p.rsc \in Rsc
        BY ReqAssumption DEF Request
      <3>6. q.rsc = p.rsc
        BY <2>3, <3>1, <3>5 DEF TimerInv
      <3>7. place[p] # "client"
        BY <1>2, PlaceFacts DEF PlaceInv
      <3>8. E!Stop(q)
        BY <1>1, <2>3, <3>4, <3>6, <3>7, ReadySame DEF E!Stop, E!Moves
      <3>. QED BY <3>8 DEF Implements, E!Next
    <2>4. CASE timer' = timer
      <3>1. \A q \in Req, j \in Job : LiveFor(j, q)' = LiveFor(j, q) /\ TimerFor(j, q)' = TimerFor(j, q)
        BY <1>5, <2>4 DEF LiveFor, TimerFor
      <3>2. place' = place
        BY <1>1, <2>1, <3>1, PlaceStays, PlaceSame
      <3>. QED BY <1>1, <3>2, ReadySame DEF Implements, Stutters
    <2>5. \/ timer' = timer
          \/ \E j \in Job : p.op = "stop" /\ onRsc[p.rsc].tm = j /\ timer[j].state = "armed"
      BY <1>5, <2>2 DEF StoppedTimer
    <2>. QED BY <2>3, <2>4, <2>5
  <1>. QED BY <1>4, <1>5 DEF _processRscOpMessage

\* The operation the loop recorded is launched.
LEMMA RecordImplements ==
  ASSUME TypeInv, PlaceInv, PlaceInv', NEW k \in Job, RecordAndLaunch(k)
  PROVE  Implements
  <1>1. PICK p \in Req : p = loop.req
    BY DEF RecordAndLaunch, TypeInv, RefsOK
  <1>2. /\ Fresh(k) /\ job' = [job EXCEPT ![k] = NewJob(p)] /\ loop'.req = None /\ alive
        /\ UNCHANGED <<unsent, inbox, timer, events, answered, alive>>
    BY <1>1, NotNone DEF RecordAndLaunch, Launch
  <1>3. p \notin unsent
    BY <1>1 DEF PlaceInv, OnePlace
  <1>4. \A q \in Req \ {p} : (loop'.req = q \/ InInbox(q)') <=> (loop.req = q \/ InInbox(q))
    BY <1>1, <1>2, NotNone DEF InInbox
  <1>5. E!Start(p)
    BY <1>1, <1>2, <1>3, <1>4, StartImplements
  <1>. QED BY <1>5 DEF Implements, E!Next

\* What a step of an execution leaves alone: the requests that others execute.
LEMMA OthersStay ==
  ASSUME TypeInv, TimerInv, LoopInv, NEW j \in Job, ExecStep(j), NEW p \in Req, job[j].req # p
  PROVE  /\ (loop'.req = p \/ InInbox(p)') <=> (loop.req = p \/ InInbox(p))
         /\ \A i \in Job : LiveFor(i, p)' = LiveFor(i, p) /\ TimerFor(i, p)' = TimerFor(i, p)
         /\ place'[p] = place[p]
  <1>1. Effect(j)
    BY ExecEffect
  <1>2. (loop'.req = p \/ InInbox(p)') <=> (loop.req = p \/ InInbox(p))
    BY <1>1, NotNone DEF Effect, LoopEffect, LoopInv, InInbox
  <1>3. ASSUME NEW i \in Job PROVE LiveFor(i, p)' = LiveFor(i, p)
    BY <1>1, NotNone DEF Effect, JobEffect, LiveFor
  <1>4. ASSUME NEW i \in Job PROVE TimerFor(i, p)' = TimerFor(i, p)
    <2>1. CASE timer' = timer
      BY <2>1 DEF TimerFor
    <2>2. CASE job[j].wait = "rearm" /\ timer' = [timer EXCEPT ![j] = [req |-> job[j].req, state |-> "armed"]]
      BY <2>2 DEF TimerFor, TimerInv, Before, TypeInv, TypeOK
    <2>. QED BY <1>1, <2>1, <2>2 DEF Effect, TimerEffect
  <1>5. place'[p] = place[p]
    BY <1>1, <1>2, <1>3, <1>4, PlaceStays DEF Effect
  <1>. QED BY <1>2, <1>3, <1>4, <1>5

\* A step of an execution that is live: it reports, arms its monitor timer, ends, or goes on.
LEMMA LiveImplements ==
  ASSUME TypeInv, PlaceInv, PlaceInv', TimerInv, RepeatInv, AnswerInv, LoopInv, KeptInv,
         SyncStops => SyncInv, alive,
         NEW j \in Job, ExecStep(j), NEW q \in Req, LiveFor(j, q)
  PROVE  Implements
  <1>1. Effect(j) /\ job[j].req = q
    BY ExecEffect DEF LiveFor
  <1>2. UNCHANGED <<unsent, inbox, answered, alive>>
    BY <1>1 DEF Effect
  <1>3. \A p \in Req \ {q} : place'[p] = place[p]
    BY <1>1, OthersStay
  <1>4. place' = [place EXCEPT ![q] = place'[q]]
    BY <1>3, PlaceMoves
  <1>5. place[q] = "running"
    BY PlaceFacts DEF PlaceInv
  <1>6. ~Waiting(q) /\ \A i \in Job : (LiveFor(i, q) => i = j) /\ ~TimerFor(i, q)
    BY DEF PlaceInv, OnePlace
  <1>7. ~Waiting(q)'
    BY <1>1, <1>2, <1>6, NotNone DEF Effect, LoopEffect, Waiting, InInbox
  <1>8. \A i \in Job : i # j => ~LiveFor(i, q)'
    BY <1>1, <1>6 DEF Effect, JobEffect, LiveFor
  <1>9. LiveFor(j, q)' => place'[q] = "running"
    BY PlaceFactsNext DEF PlaceInv
  <1>10. ASSUME timer' = timer, ~LiveFor(j, q)' PROVE place'[q] = "over"
    <2>1. \A i \in Job : ~TimerFor(i, q)'
      BY <1>6, <1>10 DEF TimerFor
    <2>. QED BY <1>7, <1>8, <1>10, <2>1, PlaceFactsNext DEF PlaceInv
  <1>11. CASE timer' # timer
    <2>1. /\ job[j].wait = "rearm" /\ events' = events
          /\ timer' = [timer EXCEPT ![j] = [req |-> q, state |-> "armed"]]
      BY <1>1, <1>11 DEF Effect, TimerEffect, EventEffect
    <2>2. TimerFor(j, q)'
      BY <2>1 DEF TimerFor, TypeInv, TypeOK
    <2>3. place'[q] = "timer"
      BY <2>2, PlaceFactsNext DEF PlaceInv
    <2>4. q.repeat
      BY <1>1, <2>1 DEF RepeatInv
    <2>5. E!Wait(q)
      BY <1>2, <1>4, <1>5, <2>1, <2>3, <2>4, ReadySame DEF E!Wait, E!Moves
    <2>. QED BY <2>5 DEF Implements, E!Next
  <1>12. CASE timer' = timer /\ events' # events
    <2>1. PICK ret \in {"ok", "error"} : events' = Append(events, [req |-> q, ret |-> ret])
      BY <1>1, <1>12 DEF Effect, EventEffect
    <2>2. job[j].wait = "report"
      BY <1>1, <1>12 DEF Effect, EventEffect
    <2>3. /\ Len(events) \in Nat /\ Len(events') = Len(events) + 1
          /\ \A n \in 1..Len(events) : events'[n] = events[n]
          /\ events'[Len(events) + 1].req = q
      BY <2>1 DEF TypeInv, TypeOK
    <2>4. \A p \in Req : InEvents(p)' <=> InEvents(p) \/ p = q
      BY <2>3 DEF InEvents
    <2>5. ready' = ready \cup {q}
      BY <2>4 DEF ready, InEvents
    <2>6. ~q.repeat => ~E!Reported(q)
      <3>1. Asking(j, q)
        BY <1>1, <2>2 DEF Asking
      <3>. QED BY <3>1, ReadyIs DEF AnswerInv, AnsweredOnce, Reported, E!Reported
    <2>7. place'[q] \in {"running", "over"}
      BY <1>9, <1>10, <1>12
    <2>8. E!Report(q)
      BY <1>2, <1>4, <1>5, <2>5, <2>6, <2>7 DEF E!Report, E!Moves
    <2>. QED BY <2>8 DEF Implements, E!Next
  <1>13. CASE timer' = timer /\ events' = events /\ ~LiveFor(j, q)'
    <2>1. ASSUME q \in Kept PROVE E!Reported(q)
      <3>1. ~Asking(j, q)'
        BY <1>13 DEF Asking, LiveFor, Live
      <3>2. \A ret \in {"ok", "error"} : events' # Append(events, [req |-> q, ret |-> ret])
        <4>. SUFFICES ASSUME NEW ret \in {"ok", "error"}
                      PROVE  events' # Append(events, [req |-> q, ret |-> ret])
          OBVIOUS
        <4>1. events \in Seq(EventType) /\ [req |-> q, ret |-> ret] \in EventType
          BY DEF TypeInv, TypeOK, EventType
        <4>2. Len(Append(events, [req |-> q, ret |-> ret])) # Len(events)
          BY <4>1
        <4>. QED BY <1>13, <4>2
      <3>3. ~Asking(j, q)
        BY <2>1, <3>1, <3>2, KeptExec
      <3>4. Reported(q)
        BY <1>1, <2>1, <3>3 DEF KeptInv
      <3>. QED BY <3>4, ReadyIs DEF Reported, E!Reported
    <2>2. E!Finish(q)
      BY <1>2, <1>4, <1>5, <1>10, <1>13, <2>1, ReadySame DEF E!Finish, E!Moves
    <2>. QED BY <2>2 DEF Implements, E!Next
  <1>14. CASE timer' = timer /\ events' = events /\ LiveFor(j, q)'
    <2>1. \A p \in Req : place'[p] = place[p]
      BY <1>3, <1>5, <1>9, <1>14
    <2>. QED BY <1>2, <1>14, <2>1, PlaceSame, ReadySame DEF Implements, Stutters
  <1>. QED BY <1>11, <1>12, <1>13, <1>14

\* The rest of an execution, after it re-armed its monitor or reported, is not seen.
LEMMA LeftImplements ==
  ASSUME TypeInv, TimerInv, LoopInv, PlaceInv, NEW j \in Job, ExecStep(j), ~Live(job[j])
  PROVE  Stutters
  <1>1. Effect(j)
    BY ExecEffect
  <1>2. /\ UNCHANGED <<unsent, inbox, answered, alive>>
        /\ job[j].wait \notin {"select", "report", "rearm"} /\ ~HasRAIn(job[j])
    BY <1>1 DEF Effect, Live
  <1>3. timer' = timer /\ events' = events
    BY <1>1, <1>2 DEF Effect, TimerEffect, EventEffect
  <1>4. ~Live(job'[j])
    BY <1>1, <1>2, NotNone DEF Effect, JobEffect, MayGoTo, Live
  <1>5. \A i \in Job, p \in Req : LiveFor(i, p)' = LiveFor(i, p) /\ TimerFor(i, p)' = TimerFor(i, p)
    BY <1>1, <1>3, <1>4 DEF Effect, JobEffect, LiveFor, TimerFor
  <1>6. \A p \in Req : (loop'.req = p \/ InInbox(p)') <=> (loop.req = p \/ InInbox(p))
    BY <1>1, <1>2, NotNone DEF Effect, LoopEffect, LoopInv, InInbox
  <1>7. \A p \in Req : place'[p] = place[p]
    BY <1>2, <1>5, <1>6, PlaceStays
  <1>. QED BY <1>2, <1>3, <1>7, PlaceSame, ReadySame DEF Stutters

\* The callback of a monitor timer: the next run, or the end if a stop is recorded.
LEMMA CallbackImplements ==
  ASSUME TypeInv, PlaceInv, PlaceInv', SentInv, NEW j \in Job, NEW k \in Job, TimerCallback(j, k)
  PROVE  Implements
  <1>1. PICK q \in Req : q = timer[j].req
    BY DEF TimerCallback, TypeInv, RefsOK
  <1>2. /\ TimerFor(j, q) /\ alive /\ timer' = [timer EXCEPT ![j] = NoTimer]
        /\ UNCHANGED <<unsent, inbox, loop, events, answered, alive>>
    BY <1>1 DEF TimerCallback, TimerFor
  <1>3. \A p \in Req : (loop'.req = p \/ InInbox(p)') <=> (loop.req = p \/ InInbox(p))
    BY <1>2 DEF InInbox
  <1>4. CASE UNCHANGED job /\ isRscStop(q.rsc)
    <2>1. place[q] = "timer" /\ place' = [place EXCEPT ![q] = "over"]
      BY <1>2, <1>3, <1>4, TimerDropped
    <2>2. q.rsc \in Rsc
      BY ReqAssumption DEF Request
    <2>3. PICK s \in Req : s.op = "stop" /\ s.rsc = q.rsc /\ s \notin unsent
      BY <1>4, <2>2 DEF SentInv, isRscStop
    <2>4. place[s] # "client"
      BY <2>3, PlaceFacts DEF PlaceInv
    <2>5. E!Stop(q)
      BY <1>2, <2>1, <2>3, <2>4, ReadySame DEF E!Stop, E!Moves
    <2>. QED BY <2>5 DEF Implements, E!Next
  <1>5. CASE Fresh(k) /\ job' = [job EXCEPT ![k] = NewJob(q)]
    <2>1. \A i \in Job : job'[i] = IF i = k THEN NewJob(q) ELSE job[i]
      BY <1>5 DEF TypeInv, TypeOK
    <2>2. \A p \in Req \ {q}, i \in Job : LiveFor(i, p)' = LiveFor(i, p)
      BY <1>5, <2>1, NotNone DEF LiveFor, Fresh
    <2>3. \A p \in Req \ {q}, i \in Job : TimerFor(i, p)' = TimerFor(i, p)
      BY <1>1, <1>2, NotNone DEF TimerFor, TypeInv, TypeOK
    <2>4. \A p \in Req \ {q} : place'[p] = place[p]
      BY <1>2, <1>3, <2>2, <2>3, PlaceStays
    <2>5. LiveFor(k, q)'
      BY <2>1, NotNone DEF LiveFor, Live
    <2>6. place'[q] = "running" /\ place[q] = "timer"
      BY <1>2, <2>5, PlaceFacts, PlaceFactsNext DEF PlaceInv
    <2>7. place' = [place EXCEPT ![q] = "running"]
      BY <2>4, <2>6, PlaceMoves
    <2>8. E!Repeat(q)
      BY <1>2, <2>6, <2>7, ReadySame DEF E!Repeat, E!Moves
    <2>. QED BY <2>8 DEF Implements, E!Next
  <1>. QED BY <1>1, <1>4, <1>5 DEF TimerCallback

\* A timer that fires is not seen before its callback has run.
LEMMA FiringImplements ==
  ASSUME TypeInv, NEW j \in Job, TimerFires(j)
  PROVE  Stutters
  <1>1. UNCHANGED <<unsent, inbox, loop, job, events, answered, alive>>
    BY DEF TimerFires
  <1>2. \A p \in Req, i \in Job : LiveFor(i, p)' = LiveFor(i, p)
    BY <1>1 DEF LiveFor
  <1>3. \A p \in Req, i \in Job : TimerFor(i, p)' = TimerFor(i, p)
    BY DEF TimerFires, TimerFor, TypeInv, TypeOK, TimerType
  <1>4. \A p \in Req : place'[p] = place[p]
    BY <1>1, <1>2, <1>3, PlaceStays DEF InInbox
  <1>. QED BY <1>1, <1>4, PlaceSame, ReadySame DEF Stutters

\* A crash ends everything but what clients have not sent.
LEMMA CrashImplements == alive /\ Dies => E!Crash
  <1>. SUFFICES ASSUME alive, Dies PROVE E!Crash
    OBVIOUS
  <1>1. /\ UNCHANGED <<unsent, answered>> /\ inbox' = <<>> /\ events' = <<>> /\ loop' = Idle
        /\ \A j \in Job : job'[j] = NoJob /\ timer'[j] = NoTimer
        /\ alive' = FALSE
    BY DEF Dies
  <1>2. \A q \in Req : ~Queued(q)'
    BY <1>1, NotNone DEF Queued
  <1>3. \A q \in Req : ~Runs(q)' /\ ~Timed(q)'
    BY <1>1, NotNone DEF Runs, Timed
  <1>4. \A q \in Req : /\ place'[q] = IF q \in unsent THEN "client" ELSE "over"
                       /\ place[q] = "client" <=> q \in unsent
    BY <1>1, <1>2, <1>3 DEF place, PlaceOf
  <1>5. place' = [q \in Req |-> IF place[q] = "client" THEN "client" ELSE "over"]
    BY <1>4 DEF place
  <1>6. ready' = {}
    BY <1>1 DEF ready
  <1>. QED BY <1>1, <1>5, <1>6 DEF E!Crash

\* Every step of the resource manager is one of the abstract executor.
LEMMA StepImplements ==
  ASSUME TypeInv, PlaceInv, PlaceInv', TimerInv, SentInv, RepeatInv, AnswerInv, AnswerInv',
         LoopInv, KeptInv, SyncStops => SyncInv, [Next]_vars
  PROVE  Implements
  <1>1. ASSUME NEW q \in Req, _processIpcSrvMessage(q) PROVE Implements
    BY <1>1, ReceiveImplements DEF Implements, E!Next
  <1>2. CASE _messageResourceHandler
    BY <1>2, QueueImplements DEF Implements
  <1>3. CASE _processRscOpEvent
    BY <1>3, AnswerImplements DEF Implements, E!Next
  <1>4. ASSUME NEW q \in Req, NEW k \in Job, _processRscOpMessage(q, k) PROVE Implements
    BY <1>4, TakeImplements
  <1>5. ASSUME NEW k \in Job, RecordAndLaunch(k) PROVE Implements
    BY <1>5, RecordImplements
  <1>6. ASSUME NEW j \in Job, JobStep(j) PROVE Implements
    <2>1. CASE ExecStep(j)
      <3>1. job[j] # NoJob /\ Effect(j)
        BY <2>1, ExecEffect DEF Effect, JobEffect
      <3>2. PICK q \in Req : q = job[j].req
        BY <3>1 DEF TypeInv, RefsOK, AtWork
      <3>3. alive
        BY <2>1 DEF ExecStep, RAGoroutine, waitChildFunc, StartRA, ReapRA, RAExits, TimeoutFires,
           SelectFin, SelectTimeout, Report, SetMonitor, SetMonitorTimer, SetRscTerminate
      <3>4. CASE Live(job[j])
        <4>1. LiveFor(j, q)
          BY <3>2, <3>4 DEF LiveFor
        <4>. QED BY <2>1, <3>3, <4>1, LiveImplements
      <3>5. CASE ~Live(job[j])
        BY <2>1, <3>5, LeftImplements DEF Implements
      <3>. QED BY <3>4, <3>5
    <2>2. CASE TimerFires(j)
      BY <2>2, FiringImplements DEF Implements
    <2>3. CASE StartRAFails(j)
      BY <2>3, CrashImplements DEF StartRAFails, Implements, E!Next
    <2>4. ASSUME NEW k \in Job, TimerCallback(j, k) PROVE Implements
      BY <2>4, CallbackImplements
    <2>. QED BY <1>6, <2>1, <2>2, <2>3, <2>4 DEF JobStep, ExecStep
  <1>7. CASE Faults
    BY <1>7, CrashImplements DEF Faults, ConcurrentMapFault, ParametersFault, Implements, E!Next
  <1>8. CASE UNCHANGED vars
    BY <1>8 DEF vars, Implements, Stutters, place, PlaceOf, Queued, Runs, Executes, HasRA, Timed, ready
  <1>. QED BY <1>1, <1>2, <1>3, <1>4, <1>5, <1>6, <1>7, <1>8 DEF Next, LoopStep

\* The daemon starts with every request at its client.
LEMMA InitImplements == Init => E!Init
  <1>. SUFFICES ASSUME Init PROVE E!Init
    OBVIOUS
  <1>1. place = [q \in Req |-> "client"]
    BY DEF Init, place, PlaceOf
  <1>2. ready = {}
    BY DEF Init, ready
  <1>. QED BY <1>1, <1>2 DEF Init, E!Init

\* Every behaviour of the resource manager is one of the abstract executor: each request is
\* in one place and has one run at a time, a one-shot request reports once, a synchronous
\* one always before it is over, and a monitor that waits for its next run ends only because
\* of a stop, in whatever order processes exit, timeouts fire, timers run and stops arrive.
THEOREM ExecutorImplemented == Spec => ImplementsExecutor
  <1>1. Spec => [](SyncStops => SyncInv)
    <2>1. Init => (SyncStops => SyncInv)
      BY SyncInit
    <2>2. TypeInv /\ RepeatInv /\ (SyncStops => SyncInv) /\ [Next]_vars => (SyncStops => SyncInv)'
      BY SyncStep DEF SyncStops
    <2>. QED BY <2>1, <2>2, TypeInvHolds, RepeatInvHolds, PTL DEF Spec
  <1>2. Spec => []AnswerInv
    BY AnswerInit, AnswerStep, TypeInvHolds, PlaceInvHolds, RepeatInvHolds, PTL DEF Spec
  <1>3. /\ TypeInv /\ PlaceInv /\ PlaceInv' /\ TimerInv /\ SentInv /\ RepeatInv /\ AnswerInv
        /\ AnswerInv' /\ LoopInv /\ KeptInv /\ (SyncStops => SyncInv) /\ [Next]_vars
        => [E!Next]_<<place, ready, answered, alive>>
    BY StepImplements DEF Implements, Stutters
  <1>. QED BY <1>1, <1>2, <1>3, InitImplements, TypeInvHolds, PlaceInvHolds, RepeatInvHolds,
           TimerSentHolds, LoopInvHolds, KeptHolds, PTL DEF Spec, ImplementsExecutor, E!Spec
=============================================================================
