------------------------- MODULE RmanagerImplements -------------------------
(***************************************************************************)
(* The resource manager implements Executor: the refinement mapping.       *)
(***************************************************************************)
EXTENDS Rmanager

Queued(q) == loop.req = q \/ \E n \in 1..Len(inbox) : inbox[n] = q

\* A job that may still run the RA, report its result, or re-arm the monitor.
Executes(j) == HasRA(j) \/ job[j].wait \in {"select", "report", "rearm"}

Runs(q) == \E j \in Job : job[j].req = q /\ Executes(j)
Timed(q) == \E j \in Job : timer[j].req = q /\ timer[j].state # "none"

PlaceOf(q) ==
  IF q \in unsent THEN "client"
  ELSE IF Queued(q) THEN "queued"
  ELSE IF Runs(q) THEN "running"
  ELSE IF Timed(q) THEN "timer"
  ELSE "over"

place == [q \in Req |-> PlaceOf(q)]

ready == {q \in Req : \E n \in 1..Len(events) : events[n].req = q}

\* What isRscTerminate never drops: the results of synchronous one-shot operations, as
\* long as stops are that.
Kept == {q \in Req : SyncStops /\ ~q.repeat /\ ~q.async}

\* place, ready and Kept are computed from the goroutines, timers and channels; what was
\* answered and whether the program lives is the same in both.
E == INSTANCE Executor WITH
       Req <- Req, Kept <- Kept,
       place <- place, ready <- ready, answered <- answered, alive <- alive

\* Every behaviour of the resource manager is one the abstract executor allows: requests
\* are in one place and have one run at a time, one-shot requests report once, synchronous
\* ones always before they are over, and a monitor that waits for its next run ends only
\* because of a stop, in any order of exits, timeouts, timers and stops.
ImplementsExecutor == E!Spec
=============================================================================
