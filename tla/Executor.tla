------------------------------ MODULE Executor ------------------------------
(***************************************************************************)
(* What the resource manager promises of a request, without goroutines,    *)
(* channels, timers and the map they share: a request is in one place at a *)
(* time, it is run by one execution at a time, a one-shot request reports  *)
(* once, a recurring one stops being repeated because of a stop or of a    *)
(* run of its own, and a request in Kept is not over before it reported.   *)
(* Rmanager implements this (RmanagerImplements).                          *)
(***************************************************************************)
CONSTANTS
  Req,   \* the requests: records with rsc, op and repeat
  Kept   \* the requests whose result may not be dropped

VARIABLES
  place,     \* where a request is: client, queued, running, timer or over
  ready,     \* requests with a result on its way to the controller
  answered,  \* requests whose result was sent
  alive

Init ==
  /\ place = [q \in Req |-> "client"]
  /\ ready = {} /\ answered = {}
  /\ alive = TRUE

Moves(q, from, to) ==
  /\ alive /\ place[q] = from
  /\ place' = [place EXCEPT ![q] = to]
  /\ UNCHANGED alive

Reported(q) == q \in ready \cup answered

Receive(q) == Moves(q, "client", "queued") /\ UNCHANGED <<ready, answered>>

Start(q) == Moves(q, "queued", "running") /\ UNCHANGED <<ready, answered>>

\* A result, by the run's last step or an earlier one.
Report(q) ==
  /\ Moves(q, "running", "running") \/ Moves(q, "running", "over")
  /\ ~q.repeat => ~Reported(q)
  /\ ready' = ready \cup {q}
  /\ UNCHANGED answered

Finish(q) ==
  /\ Moves(q, "running", "over")
  /\ q \in Kept => Reported(q)
  /\ UNCHANGED <<ready, answered>>

Wait(q) == Moves(q, "running", "timer") /\ q.repeat /\ UNCHANGED <<ready, answered>>

Repeat(q) == Moves(q, "timer", "running") /\ UNCHANGED <<ready, answered>>

\* Only a stop of its resource, which is there, ends a repetition between two runs.
Stop(q) ==
  /\ Moves(q, "timer", "over")
  /\ \E s \in Req : s.op = "stop" /\ s.rsc = q.rsc /\ place[s] # "client"
  /\ UNCHANGED <<ready, answered>>

\* A recurring request may have a further result on its way.
Answer(q) ==
  /\ alive /\ q \in ready
  /\ ready' \in {ready, ready \ {q}}
  /\ ready' = ready => q.repeat
  /\ answered' = answered \cup {q}
  /\ UNCHANGED <<place, alive>>

Crash ==
  /\ alive /\ alive' = FALSE
  /\ place' = [q \in Req |-> IF place[q] = "client" THEN "client" ELSE "over"]
  /\ ready' = {}
  /\ UNCHANGED answered

Next ==
  \/ \E q \in Req : \/ Receive(q) \/ Start(q) \/ Report(q) \/ Finish(q)
                    \/ Wait(q) \/ Repeat(q) \/ Stop(q) \/ Answer(q)
  \/ Crash

Spec == Init /\ [][Next]_<<place, ready, answered, alive>>
=============================================================================
