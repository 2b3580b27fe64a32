# go-test-cluster in TLA+

go-test-cluster is a small cluster manager in Go. A **controller** daemon joins a
corosync process group, and tells a **resource manager** daemon over a unix socket which
resources to start, stop and monitor; the resource manager runs OCF resource agents (RAs)
as child processes. Both daemons are built on one channel loop (`chhandler.ProcessRun`)
whose handlers talk to goroutines, timers and each other through bounded channels. This
directory holds TLA+ models of that code, the TLC runs that check them, and proofs.

Line numbers below are those of the file named. `PROJECT.json` maps each definition to
the lines it models, and lists the hazards of the code with the properties about them.

## Inventory

| component | state | operations | talks to |
|---|---|---|---|
| executor of the resource manager (`rmanager/rman.go`, `rmanager/main.go`) | `onRsc` (last operation per resource, its monitor timer, terminate mark), `rscOpRecvMessage_ch`, `rscOp_ch`, running RAs | `ExecRscOp`, `waitChildFunc`, `setMonitor`, `RecordRscOp`, `stopTimer`, ... | RA processes, IPC server |
| IPC client (`ipcc/ipcc.go`) | `sync_map`, `seqno`, four channels of 12, the receive buffer | `SendRecv`, `SendRecvAsync`, `Run`, `receiver`, `sender` | a stream socket |
| controller (`controller/control.go`, `main.go`) | `status`, `step`, `nodeid`, `Status_ch` (2) | `_processStatus`, `_resourceControl`, `_processIpcClientMessage`, corosync handlers | IPC client, corosync |
| channel loop and base (`chhandler`, `base`) | `Signal_ch` (1), `Exit_ch`, `Status_ch` | `ProcessRun`, `InitBase`, `TerminateBase` | every handler, the OS |
| IPC server (`ipcs/ipcs.go`) | map of clients, one goroutine per connection | `clientReceive`, `SendIpcToClient` | a stream socket |
| corosync binding (`corosync/corosync.go`) | handles, four channels of 128 | `runs`, callbacks, `GetLocalId` | corosync |
| child processes (`controller/childs.go`) | pids | `_childStart`, `_childStop` | the OS |
| test client (`test_ipc_client/main.go`) | three channels without buffer, `signal_ch` (1) | `connect`, `Run`, `reader`, `writer`, `Terminate` | the controller's socket |
| messages, constants, recipe, configuration, debug, errors | none that changes | encode, read a file, print | |

What is hard: timers and process exits race with requests on the same resource; the map
they share is locked for one call at a time, and sometimes not at all; a loop pushes on
channels that only it drains, and blocks in synchronous calls; the stream socket and the
shared buffer can lose messages; `SendRecv` has no timeout; shutdown closes channels under
running goroutines; clients leave and come back under the same id; corosync dies, refuses
calls and drops members while `runs()` retries, backs off and starts over. What makes each component correct:

* executor: no two runs of one request at a time, one answer per one-shot request, the
  answer is not suppressed, a stop ends the monitor, every execution comes to an end while
  the loop has room on its channels;
* IPC client: an answer reaches the call it is for, and no other; no call is forgotten
  while nothing is lost;
* controller: it never blocks on its own channels; resources only after the node id, and
  then for certain;
* shutdown: by SIGTERM only, and then for certain;
* IPC server: answers go to the connection that said HELLO last, and a connection whose
  client left is closed;
* corosync binding: it never waits outside its group (unless its own leave stood further
  down in a list, which the code does not see), never leaves for somebody else's leave, and
  comes back once corosync stays up;
* child processes: the stop reaches every child, and no other process;
* test client: HELLO gets written, and SIGTERM ends it.

## Modules

| module | models | about |
|---|---|---|
| `Rmanager` | `rman.go`, handlers of `rmanager/main.go` | the core: requests, executions, timers, the map |
| `Executor` | | what the resource manager promises of a request: the abstract specification |
| `RmanagerImplements` | | the refinement mapping from `Rmanager` to `Executor` |
| `Ipcc` | `ipcc.go` | callers, `Run`, reader, writer, socket, server |
| `Call` | | what `SendRecv` promises to its callers: the abstract specification |
| `IpccImplements` | | the refinement mapping from `Ipcc` to `Call` |
| `Controll` | `control.go`, `controller/main.go`, Go side of `corosync.go` | bring-up of the resource |
| `Shutdown` | `chhandler.go`, `base.go`, `Terminate` | signals and closing channels |
| `Ipcs` | `ipcs.go` and the handlers that use the client map | connections, HELLO, answers |
| `Corosync` | `runs()` and its callbacks | joining, waiting, starting over |
| `Childs` | `childs.go`, `_initialize` and `_terminate` | children, pids, SIGTERM |
| `TestClient` | `test_ipc_client/main.go` | the test program |
| `MCRmanager`, `MCRmanagerExecutor`, `MCIpcc`, `MCControll`, `MCShutdown`, `MCIpcs`, `MCCorosync`, `MCChilds`, `MCTestClient` | | instances for TLC |
| `RmanagerProofs`, `IpccProofs`, `ControllProofs`, `ShutdownProofs`, `IpcsProofs`, `CorosyncProofs`, `ChildsProofs`, `TestClientProofs` | | proofs |

### Rmanager

A request goes `unsent` -> `loop` (`_messageResourceHandler` about to push) -> `inbox`
(`rscOpRecvMessage_ch`) -> `loop` again (`ExecRscOp`) -> a `job`. A job stands for one call
of `ExecRscOp`: its RA goroutine (`ra`), its timeout and its `waitChildFunc` (`wait`). The
`timer` of a job is the one its `setMonitor` armed. `onRsc` is the map, `events` is
`rscOp_ch`, `answered` is history.

An action is one channel operation or one locked section with what surrounds it and nobody
can observe. `ExecRscOp` is several actions: `stopTimer`, then `RecordRscOp` and the launch
of the two goroutines; `setMonitor` is two, because it records twice around
`time.AfterFunc`. The two unlocked map reads are not given an order with the writes: when
both happen at once the Go runtime may abort (`ConcurrentMapFault`). `StartRAFails` is the
nil dereference of a failed fork, `ParametersFault` the index out of range of a request
with fewer parameters than it says. After any of them the daemon is gone. `LoopBlocked`
characterizes the states in which the loop waits for room on a channel that it alone drains,
which it does for ever.

Abstractions: the order in which the loop polls its channels is left open, since any poll
may go to a SIGCHLD. Times are left out: a timeout or timer may fire as soon as it is armed.
The result left in a channel nobody reads is dropped. A delay is between two actions
already. `CL_NOT_FORK` never leaves the branch that crashes. Pids are not modelled, nor the
environment the parameters are put into.

### Executor

The abstract specification has four variables: where a request is (`client`, `queued`,
`running`, `timer`, `over`), which results are on their way, which were sent, and whether
the daemon is there. Its actions are what may happen to a request: it is received, started,
reports, finishes, waits for its next run, is repeated, is stopped while it waits, is
answered. `Finish` without a report is refused to the requests in `Kept`.

`RmanagerImplements` maps the detailed state: a request is `queued` in the loop or the
inbox, `running` while a job of it may still run the RA, report or re-arm, and in its
`timer` while one is armed or firing. `Kept` are the synchronous one-shot requests, as long
as stops are that themselves; `isRscTerminate` may drop the rest. Goroutines, channels, the
map, timeouts and pids all disappear: most steps of `Rmanager` change nothing of it.

### Ipcc

`run` is where the `Run` goroutine is between two operations that may block. A message is
its sequence number. `receiver` queues slices of one buffer: `rcv_read_ch` holds the content
each had when it was read, and `ParsedSeqnos` says what `json.Unmarshal` makes of it given
what is in the buffer by then, the zero header where it is not exactly one message. The
server (external, seen through `Answer`, `AnswerAgain`, `Disconnected`) answers in any order,
may report a monitor's failure later under the same number, and may die. `Consumer` is the
caller that drains `ipcrecv_ch`: in the controller the only caller, its channel loop.
The library locks its counter and map for several callers, so one run has two. A caller of
`SendRecvAsync` is "async" until there is room on `call_send_ch`. `DeliveryFindsCaller` says
also that nobody is registered under 0, the number of every message nobody waits for.
Messages longer than the buffer (1024) are not modelled.

### Call

The abstract specification of `SendRecv` has three variables: where each caller is (`idle`,
`called`, `answered`), the number of its call, and which numbers the server has answered. A
call has a number no open call has; the server answers only a call that is open; a caller
gets an answer only if its number was answered. If the numbers do not come round (`Fresh`)
a new call has a number nobody answered yet, so what it gets was sent after it called.
`IpccImplements` takes a caller as `called` from the moment it has its number until `Run`
delivers: queues, `sync_map`, `Run`, socket and buffer disappear. `SendRecvAsync` and the
messages nobody waits for are no step of `Call`.

### Controll

`loop` is in a handler that is about to push on `Status_ch`, or blocked in `SendRecv`, or
polling. `to_rman` and `from_rman` stand for `ipcc`, socket and `ipcs` without their losses;
the rule of `Run` (the awaited answer goes to `SendRecv`, anything else to `ipcClient_ch`)
is kept. `clients` is the resource manager's entry for the controller. Node ids are 0 or
not. `GetLocalId` may yield an uninitialized number, which is one that is not 0.

### Shutdown

One daemon: main goroutine, loop, `os/signal` and the `ipcs` readers. `closed` are the
closed channels; the loop receives nil from them, and a send on one panics, also one that
waits when the channel is closed: of a reader whose message nobody has taken, or of the loop
at `Exit_ch`. The handlers are one channel with one handler, which may take any time.

### Ipcs

A connection has two ends: `peer`, which the client closes when it leaves or dies, and
`con`, which `clientReceive` or a failed write closes. What a Read returns is handed to
the loop over a channel without buffer, so an action takes what one reader holds and runs
the handler. Several messages in one Read do not parse, and are lost. Nothing takes a
client out of the map but a write that fails. This is the resource manager's server; the
controller's has the HELLO handler alone. Answers are a count (`executing`) here: which
request they are for is in `Ipcc` and `Rmanager`.

### Corosync

`pc` is the place in `runs()`. `handle` holds the life of corosync in which it was
initialized and whether corosync has it as a member; `behind` is a joined handle that
`retrybackoff` left without `cpg_finalize`, after which corosync refuses to join the same
process again. The quorum handle and its descriptor are separate, because a failed
`connect_quorum` is only printed: `select_fd_quorum` then is uninitialized the first time,
or what it was before the restart, and `Select` chooses among what `FD_SET` and `select`
can make of it. Callbacks run in the dispatch calls and block on a full channel. corosync
(external) dies, starts, forms its ring, reports events and drops members. Members that
leave together come in one list, of which `ConfchgCallback` looks at the first entry only:
the event says whether this process is first (`left_self`) or further down (`left_below`),
or a process of the same pid elsewhere is first (`left_twin`). `overlooked` records that a
callback had our leave in its list and went on.

### Childs

The controller's main goroutine from `connect` to the stop of the children, and its channel
loop, which is alive while the children are stopped. The process table says who has a pid;
a child that has exited keeps its pid because nobody waits for it. A start may fail, which
panics and leaves the earlier children; a kill may be refused. A handler of the loop may
keep it for ever, as `SendRecv` does when its answer is lost (`ipcc.go`:160).

### TestClient

An older copy of the channel loop, with channels without buffer: a send is one step with
the receive it meets. `Run` blocks on the writer's poll before there is a loop; `Terminate`
closes channels under reader and loop, and a blocked sender panics.

## Runs

All run with deadlock checking off, because a daemon that has crashed, or whose clients
have said everything, really stops.

| run | shows | bounds |
|---|---|---|
| `rman_safety` | `TypeOK`, `NoOverlappingRuns`, `OneShotAnsweredOnce`, `SyncAnswerKept`, `StopIsFinal`, `ImplementsExecutor` | start, recurring monitor, stop on one resource in any order, 3 executions alive at a time, channels of 2; executions are interchangeable, so `JobSymmetry` |
| `rman_answered` | `SyncAnswered`, `ExecutionsEnd` | a monitor and a stop, 3 executions, an inbox of 1 and an event channel of 2 |
| `ipcc_callers` | `DeliveryFindsCaller`, `NoAnswerMissed`, `ImplementsCall` | 2 callers, 3 calls, numbers 1 to 3, 1 extra answer, channels of 1 and 2 |
| `ipcc_wrap` | `TypeOK`, `DeliveryFindsCaller`, `NoAnswerMissed`, `SendRecvReturns` | 1 caller, 4 calls, numbers 1 and 2 |
| `controll` | `TypeOK`, `NeverBlocksOnItself`, `NodeidBeforeResources`, `OneMessageUnderWay`, `ReachesOperational` | `Status_ch` of 2 as in the code, 4 corosync changes |
| `shutdown` | `TypeOK`, `StopsOnTermOnly`, `TermStops` | `Signal_ch` of 1 as in the code; signals and messages without end |
| `shutdown_status` | violation of `StatusNotUsed` | the resource manager |
| `ipcs` | `TypeOK`, `LatestHelloReachable`, `ResponsesToController`, `HelloAnswered`, `ConnectionsClosed` | 3 connections, 2 clients, 3 messages |
| `corosync` | `TypeOK`, `PollsAsMember`, `NoNeedlessLeave`, `Rejoins` | 3 lives of corosync, 3 events, 2 tries a call, channels of 1 |
| `childs` | `TypeOK`, `PidIsChild`, `StopReachesAll`, `TermReachesChildren` | 3 children on 4 pids; signals without end |
| `test_client` | `TypeOK`, `StopsOnTermOnly`, `HelloWritten`, `TermStops` | 3 further attempts as in the code, 2 messages of the server; signals without end |
| `test_client_dial` | violation of `Reconnects` | the same |

Why the bounds are enough: a request meets at most one other request, one monitor timer
and one run of the monitor on its resource, and resources share nothing but the loop and
the channels, so one resource and three executions show every pair of steps; a job's
identity is used again once nothing refers to it, so behaviours are not cut short. Channels
are full at 1 or 2. In `rman_answered` that blocks the loop for good on a channel that only
it drains, the inbox as well as the event channel: both disjuncts of `LoopBlocked` are
reached, and `SyncAnswered` and `ExecutionsEnd` except it. In the code it takes 128 waiting
requests or results; it is a hazard nothing prevents, not a property.

Two connections show a client that comes back while its entry is stale, a third one another
client; three messages fill one Read with two and leave one. In `Corosync` 2 tries stand for 30: what matters
is that a call may be retried or not. Three lives let corosync die in two bring-ups, or in
one that followed a wait. The fourth pid is the one another process can have while the
children hold three.

Fairness: every goroutine that can run does (weak fairness). A timer fires and a process
that was sent SIGKILL dies. An RA need not exit, a client need not send, corosync need not
report, the server need not stay. Go's `select` chooses at random among ready cases, and
the loop polls each channel again and again, so a case that is ready again and again is
taken (strong fairness of `TakeCall`, `TakeMessage`, `TakeSignal` and of the controller's
handlers). In `Rmanager` strong fairness is only needed where an execution needs an
identity, which the program never runs out of. `TermStops` of the daemons assumes that
handlers return (weak fairness of `HandlerReturns` in `Shutdown`), which the controller's do
not when an answer is lost. `Childs` does not assume it: `TermReachesChildren` has the
premise that the loop is outside of a handler again and again, and the only other
assumption is that its random `select` then takes a signal in the end (strong fairness of
`TakeSignal`). `runs()` goes on unless its callback is blocked, and the controller drains
its channels; corosync need not do anything, which is why `Rejoins` has the premise that it
stays up. Goroutines of connections run, and the loop takes what they hand over: that the
resource manager's handlers return is assumed in `Ipcs`, and holds as long as its channels
have room (`SyncAnswered`). The test
client's `select` is random, hence strong fairness of `TakeSignal` and `TakeMessage` there.

`Rejoins` has three exceptions, and all are faults of the code: without `overlooked` TLC
finds `runs()` polling a handle that is in no group for ever, because its own leave was not
the first of a list (`PollsAsMember` has that exception too); without `behind` it finds
`runs()` backing off for ever, because its joined handle was never finalized; and `crashed`
is `FD_SET` on an uninitialized descriptor.

## Findings

* `StatusNotUsed`: the resource manager closes the nil status channel it does not use, and
  panics on every SIGTERM.
* `Reconnects`: the test client's further attempts dial `/tmp/echo.sock`, where nobody
  listens, instead of the controller's socket.

Two comments are not kept by the code either, as the models show on reading: the
`terminate` field of a record, "Always false" (`rman.go`:50), is set by every stop
(`SetRscTerminate`), and "this means reconnet client" (`rmanager/main.go`:39) is also said of
the HELLO that the controller repeats on one connection (`NextStatus`).

## Proofs

### The executor

Every invariant and the action property that `rman_safety` checks on a small instance is
proved for any requests, resources, executions and capacities, from `ReqAssumption` (what a
request is), `NoneAssumption` (nil is not a request or an execution) and `CapAssumption`
(channels have room for at least one).

They are in `RmanagerProofs`, sections I and II.

| theorem | states | rests on |
|---|---|---|
| `TypeCorrect` | `TypeOK`, and that what is at work has its request (`RefsOK`) | `TypeInv` |
| `StopFinal` | `StopIsFinal` | `TypeInv` |
| `RunsDoNotOverlap` | `NoOverlappingRuns` | `TypeInv`, `PlaceInv` |
| `SyncAnswersKept` | `SyncAnswerKept` | `TypeInv`, `RepeatInv`, `SyncInv` |
| `OneShotsAnsweredOnce` | `OneShotAnsweredOnce` | all but `SyncInv`, and `AnswerInv` |

* `TypeOK` is not inductive: it says nothing about a job whose request is nil, so a record
  or a message made from it could have any type. `RefsOK` says where there is a request, and
  that a monitor is re-armed only after its RA was waited for.
* The lemma `ExecEffect` sums up what a step of an execution, whichever of its goroutines
  takes it, does to each variable (`Effect`). The proofs below cite it and look at the
  code's single steps only where the channel loop or a timer is concerned.
* `StopFinal` needs no more: each step either is for another resource, or is one of the
  stop itself, or is the timer callback, which looks at the record.
* `NoOverlappingRuns` is not inductive: the second run of a monitor is started by a timer,
  which is armed by the first run. `PlaceInv` says that a request is in one place at a time:
  with its client, in the loop, in the inbox, in one execution that may still run its RA or
  re-arm it, or in one timer. Every action hands it from one place to the next. The step
  that matters is `SetMonitor`, after which the execution is over by `RefsOK`.
* `SyncAnswerKept` is about a mark that another execution may set at any time. `SyncInv`
  adds that the loop waits for the synchronous execution in progress, and that only the
  waitChildFunc of a stop sets the mark; a stop is synchronous and one-shot (`SyncStops`,
  the premise), so the loop would have to wait for two at once. `RepeatInv` (timers hold
  repeated requests only) excludes synchronous executions that the loop does not know of.
* `OneShotAnsweredOnce` needs that a request that is still to be executed was never
  reported, which is in `AnswerInv`, and that one execution reports it, from `PlaceInv`.

`PlaceInv`, `RepeatInv`, `SyncInv` and `AnswerInv` were checked by TLC on the instance of
`rman_safety` before they were proved.

### The refinement of `Executor`

`ExecutorImplemented` (`RmanagerProofs`, section III): every initial state of `Rmanager` maps to one of
`Executor`, and every step to a step of it or to none. `PlaceInv` makes the mapping of a
step depend on one place only: a step of one request leaves the place of every other one as
it was (the lemmas on places do this once for executions, timers and the loop). Four facts
are added. `TimerInv`: a timer belongs to the job it is named after and to the resource
whose record refers to it, so what `stopTimer` stops is a monitor of the stop's resource.
`SentInv`: a stop that is recorded was sent, which is the premise of the abstract `Stop`.
`KeptInv`: a kept request that is in a job still has somebody to report it, or was
reported. `LoopInv`: the loop holds no request while it polls or waits.

### The refinement of `Call`

`CallImplemented` (`IpccProofs`), for any callers, calls and capacities. That a delivered
answer is for the call that gets it is `RunInv` of the safety proof; that there is one is
`RefInv`, checked by TLC on both instances of `Ipcc` before it was proved. `StreamInv`: what
is in the socket and in the buffer was answered, or is 0; slices need no invariant, since
`ParsedSeqnos` finds 0 or what the buffer holds by then, and nobody waits for 0
(`CalledInv`). `RequestInv`: what is on its way to the server is the number of a call that
waits, or was answered already (when numbers have come round), or is 0; it is kept because a
call waits until its number is answered (`AskedGrows`), which is what makes the server's
step one of `Call`. `FreshInv`: the server has answered no number above the counter, so the
next one is new.

### The other components

| theorem | states | rests on |
|---|---|---|
| `IpccProofs`: `TypeCorrect`, `DeliveryFound`, `NoneMissed` | `TypeOK`, `DeliveryFindsCaller`, `NoAnswerMissed` | `QueueInv`, `MapInv`, `RunInv`, `WaitInv`, `DistInv`, `LapInv`; `DeliveryFound` also on `CalledInv` |
| `ControllProofs`: `TypeCorrect`, `NodeidFirst`, `OneMessage`, `NoSelfBlock` | `TypeOK`, `NodeidBeforeResources`, `OneMessageUnderWay`, `NeverBlocksOnItself` | `TokenInv`, `StepInv`, `IdInv`, `CoroInv` |
| `IpcsProofs`: `TypeCorrect`, `LatestReachable`, `OnlyController` | `TypeOK`, `LatestHelloReachable`, `ResponsesToController` | `ConnInv`, `MapInv`, `CountInv` |
| `CorosyncProofs`: `TypeCorrect`, `MemberWhenPolling`, `LeavesWithReason` | `TypeOK`, `PollsAsMember`, `NoNeedlessLeave` | `LifeInv`, `MemberInv`, `FreshInv`, `RestartInv`, `JoinedInv` |
| `ChildsProofs`: `TypeCorrect`, `PidKept`, `AllReached` | `TypeOK`, `PidIsChild`, `StopReachesAll` | `KnownOrKilled`, `LoopInv` |
| `ShutdownProofs`: `TypeCorrect`, `TermOnly` | `TypeOK`, `StopsOnTermOnly` | `StopInv` |
| `TestClientProofs`: `TypeCorrect`, `TermOnly` | `TypeOK`, `StopsOnTermOnly` | `SentInv`, `StopInv` |

* `Ipcc`: a call that waits is in exactly one of `call_send_ch`, `sync_map` and `run`
  (`WaitInv`, and `QueueInv`, `MapInv`, `RunInv` for the converse). Two calls never have
  the same number (`DistInv`): either there is one caller, or the numbers have not come
  round yet (`LapInv`, from `LapAssumption` of the model). That nobody is registered under 0
  follows from `CalledInv`: who waits has a number, and the counter, which starts at 0, does
  not give out 0. `TypeOK` says no more of the counter than its width.
* `Controll`: HELLO, status values, requests and answers are one token that is handed on
  (`TokenInv`); a second one is made once, when the recurring monitor reports its failure.
  Two places on a channel are therefore enough, which `NoSelfBlock` assumes and the code
  has. `StepInv` ties the token to the number of operations done, `IdInv` says that it is
  HELLO while the node id is unknown.
* `Ipcs`: an entry that is there is the one of the last HELLO, and it is missing only when
  that client left (`MapInv`); the daemon closes its end only after the client did
  (`ConnInv`). `TypeOK` is not inductive, because `executing` is increased for each request
  taken out of a reader, and only the sum over all connections says that there are no more
  than were sent. `Pending` makes the sum a set, with one token for each message that waits in
  a socket or a reader; `CountInv` says that its cardinality and `executing` are at
  most `sends` together: a send adds one token, and what is executed was taken out.
* `Corosync`: `PollsAsMember` speaks of three places of `runs()` only. `JoinedInv` says the
  same of every place after the join, up to the next attempt; `MemberInv` says that the
  handle of a member is connected, and that no leave of this process is queued while it is
  one: the step to watch is the callback that takes such a leave off the queue, after which
  `restart` or `overlooked` is set. `FreshInv` says that a handle that has not joined has no
  events, so a leave of the former one cannot be mistaken for its own. `RestartInv` gives the
  reason for every leave, which is what `NoNeedlessLeave` asks for.
* `TestClient`: `Terminate` closes channels only after the loop took a SIGTERM (`StopInv`),
  and a process that ended without one had not connected.
* `Childs`: a process of the list is known by its pid or was signalled, and the two loops
  go up the list.
* `Shutdown`: every effect of a SIGTERM is traced back to it.

Only model-checked: liveness (`SyncAnswered`, `ExecutionsEnd`, `SendRecvReturns`,
`ReachesOperational`, `TermStops`, `HelloAnswered`, `ConnectionsClosed`, `Rejoins`,
`TermReachesChildren`, `HelloWritten`), because fairness and `ENABLED` are out of the
prover's reach. Every invariant and every action property that a run checks is a theorem, and
so are both refinements.

## Not modelled

Message encoding (but for what does not parse), constants, configuration, recipe, debug,
environment and error helpers have no state that changes. The environment variables an RA
inherits, and the pids of RAs, are not modelled. A failure of `connect_quorum` after
`quorum_initialize` succeeded is not, nor is of the member lists more than who left. One life of
each daemon: what a controller that was started again does to monitors and numbers of its
former life is listed under the hazards.

## Plan

1. Done: all components with state, their runs, the refinements of `Executor` and `Call`,
   and the proofs of every safety property and of both refinements.
2. `Controll` over `Call` instead of its queues, so that what `SendRecv` promises is all the
   controller relies on, and with the messages `ipcc` can lose.
3. A controller that is started again: numbers begin with 1 again while the resource manager
   still repeats the monitor of its former life.
