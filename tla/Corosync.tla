------------------------------ MODULE Corosync ------------------------------
(***************************************************************************)
(* The goroutine of corosync/corosync.go: the C function runs() joins the  *)
(* process group, waits for events, and starts over when it is thrown out. *)
(*                                                                         *)
(* runs() retries each call while it is told to, backs off and begins      *)
(* again when a call fails otherwise, and after a failed dispatch or the   *)
(* report that this very process left the group it finalizes its handle    *)
(* and comes back.  Callbacks run inside cpg_dispatch and quorum_dispatch  *)
(* and push on bounded channels which the controller's loop drains.        *)
(*                                                                         *)
(* corosync is outside: it may die and be started again, refuse calls      *)
(* while it forms its ring, drop this process from the group, and it       *)
(* refuses a process that is in the group already.  What it keeps for a    *)
(* handle is part of the handle's record.  Sleeping times are left out.    *)
(***************************************************************************)
EXTENDS Integers, Sequences

CONSTANTS
  MaxRetries,  \* 30 in runs()
  CoroCap,     \* capacity of the channels, 128 in Init
  MaxLives,    \* bound: how often corosync is started
  MaxEvents    \* bound: events corosync reports

ASSUME CapAssumption == MaxRetries \in Nat \ {0} /\ CoroCap \in Nat \ {0}
ASSUME BoundAssumption == MaxLives \in Nat \ {0} /\ MaxEvents \in Nat

VARIABLES
  coro,      \* corosync: up, syncing or down
  life,      \* how often it was started
  left,      \* events it may still report
  pc,        \* where runs() is
  restart, retries,
  handle,    \* the cpg handle, with what corosync keeps for it
  behind,    \* TRUE: corosync keeps a member for a handle that was overwritten
  q_handle,  \* the quorum handle: the life it is connected to
  q_fd,      \* select_fd_quorum: the life of the handle it came from
  ready,     \* the descriptors select found readable
  cpg_q,     \* events waiting on the cpg handle
  q_q,       \* TRUE: a notification waits on the quorum handle
  coro_chan  \* how many events wait on each Go channel

vars == <<coro, life, left, pc, restart, retries, handle, behind, q_handle, q_fd, ready,
          cpg_q, q_q, coro_chan>>
service == <<coro, life, left>>
quorum == <<q_handle, q_fd, q_q>>

Coro == {"confchg", "deliver", "totemchg", "quorumchg"}

\* What corosync reports on a cpg handle.  Those who left together are one confchg
\* event with a list: "left_self" has this process first in it, "left_below" has it
\* further down, "left_twin" begins with one of the same pid on another node.
Event == {"confchg", "left_self", "left_below", "left_twin", "deliver", "totemchg"}

\* The events that say that corosync dropped this process.
OurLeave == {"left_self", "left_below"}

\* life 0: not initialized.  overlooked is history: a callback had this process in its
\* list and went on.
NoHandle == [life |-> 0, member |-> FALSE, overlooked |-> FALSE]

Init ==
  /\ coro \in {"down", "up"} /\ life = 1 /\ left = MaxEvents
  /\ pc = "top" /\ restart = TRUE /\ retries = 0
  /\ handle = NoHandle /\ behind = FALSE
  /\ q_handle = 0 /\ q_fd = 0 /\ q_q = FALSE
  /\ ready = {} /\ cpg_q = <<>>
  /\ coro_chan = [c \in Coro |-> 0]

\* A handle works in the life of corosync in which it was initialized.
Connected(n) == n = life /\ coro # "down"

-----------------------------------------------------------------------------
(* corosync.                                                               *)

Dies ==
  /\ coro # "down" /\ coro' = "down"
  /\ handle' = [handle EXCEPT !.member = FALSE]
  /\ behind' = FALSE /\ q_q' = FALSE
  /\ cpg_q' \in {cpg_q, <<>>}
  /\ UNCHANGED <<life, left, pc, restart, retries, q_handle, q_fd, ready, coro_chan>>

Starts ==
  /\ coro = "down" /\ life < MaxLives
  /\ coro' = "syncing" /\ life' = life + 1
  /\ UNCHANGED <<left, pc, restart, retries, handle, behind, quorum, ready, cpg_q, coro_chan>>

\* The ring is formed, or forms anew.
Syncs ==
  /\ coro # "down" /\ coro' = IF coro = "up" THEN "syncing" ELSE "up"
  /\ UNCHANGED <<life, left, pc, restart, retries, handle, behind, quorum, ready, cpg_q,
                 coro_chan>>

Reports(e) ==
  /\ left > 0 /\ handle.member
  /\ left' = left - 1
  /\ cpg_q' = Append(cpg_q, e)
  /\ handle' = [handle EXCEPT !.member = (e \notin OurLeave)]
  /\ UNCHANGED <<coro, life, pc, restart, retries, behind, quorum, ready, coro_chan>>

Notifies ==
  /\ left > 0 /\ Connected(q_fd) /\ ~q_q
  /\ left' = left - 1 /\ q_q' = TRUE
  /\ UNCHANGED <<coro, life, pc, restart, retries, handle, behind, q_handle, q_fd, ready,
                 cpg_q, coro_chan>>

\* The answers of corosync to a call on a handle of life n.
Results(n) ==
  IF ~Connected(n) THEN {"LIBRARY"}
  ELSE IF coro = "syncing" THEN {"OK", "TRY_AGAIN"} ELSE {"OK"}

-----------------------------------------------------------------------------
(* runs(): the way into the group.                                         *)

\* "if(restart)"
Top ==
  /\ pc = "top"
  /\ IF restart THEN pc' = "init" /\ retries' = 0 ELSE pc' = "select" /\ UNCHANGED retries
  /\ restart' = FALSE
  /\ UNCHANGED <<service, handle, behind, quorum, ready, cpg_q, coro_chan>>

\* Mutant: the flag is not raised, so that the loop goes on to select.
BackOffOnly == pc' = "top" /\ retries' = 0 /\ UNCHANGED restart

\* retrybackoff: sleep, and begin again; the handle is not finalized.
retrybackoff == pc' = "top" /\ retries' = 0 /\ restart' = TRUE

\* Mutant: the counter is compared before it is raised.
OnceMore == retries < MaxRetries

\* "while (counter < max)"
MayRetry == retries + 1 < MaxRetries

\* cs_repeat and cs_repeat_init: a call that is to be retried is, MaxRetries times;
\* what fails otherwise, or for too long, ends in retrybackoff.
cs_repeat(result, retried, next) ==
  \/ /\ result = "OK"
     /\ pc' = next /\ retries' = 0 /\ UNCHANGED restart
  \/ /\ result \in retried /\ MayRetry
     /\ retries' = retries + 1 /\ UNCHANGED <<pc, restart>>
  \/ /\ result # "OK" /\ (result \in retried => ~MayRetry)
     /\ retrybackoff

\* cpg_model_initialize overwrites the handle, whatever it was.
cpg_model_initialize ==
  /\ pc = "init"
  /\ \E result \in Results(life) :
       /\ cs_repeat(result, {"TRY_AGAIN", "QUEUE_FULL", "LIBRARY"}, "local")
       /\ IF result = "OK"
          THEN /\ handle' = [life |-> life, member |-> FALSE, overlooked |-> FALSE]
               /\ behind' = (behind \/ handle.member)
               /\ cpg_q' = <<>>
          ELSE UNCHANGED <<handle, behind, cpg_q>>
  /\ UNCHANGED <<service, quorum, ready, coro_chan>>

\* cpg_local_get finds the id that becomes nodeidStart, which is not 0.
cpg_local_get ==
  /\ pc = "local"
  /\ \E result \in Results(handle.life) : cs_repeat(result, {"TRY_AGAIN", "QUEUE_FULL"}, "join")
  /\ UNCHANGED <<service, handle, behind, quorum, ready, cpg_q, coro_chan>>

\* corosync refuses a second handle of a process that is a member.
cpg_join ==
  /\ pc = "join"
  /\ \E result \in IF behind THEN {"EXIST"} ELSE Results(handle.life) :
       /\ cs_repeat(result, {"TRY_AGAIN", "QUEUE_FULL"}, "membership")
       /\ handle' = [handle EXCEPT !.member = (result = "OK")]
  /\ UNCHANGED <<service, behind, quorum, ready, cpg_q, coro_chan>>

cpg_membership_get ==
  /\ pc = "membership"
  /\ \E result \in Results(handle.life) : cs_repeat(result, {"TRY_AGAIN", "QUEUE_FULL"}, "quorum")
  /\ UNCHANGED <<service, handle, behind, quorum, ready, cpg_q, coro_chan>>

\* connect_quorum; a failure is only printed.  Where quorum_initialize failed there is
\* no handle, and quorum_fd_get leaves the descriptor what it was, which is
\* uninitialized the first time.
connect_quorum ==
  /\ pc = "quorum" /\ pc' = "select"
  /\ \/ q_handle' = life /\ q_fd' = life /\ q_q' = FALSE
     \/ Results(life) # {"OK"} /\ q_handle' = 0 /\ UNCHANGED <<q_fd, q_q>>
  /\ UNCHANGED <<service, restart, retries, handle, behind, ready, cpg_q, coro_chan>>

-----------------------------------------------------------------------------
(* runs(): waiting for events.                                             *)

CpgReadable == ~Connected(handle.life) \/ cpg_q # <<>>
QuorumReadable == q_fd # 0 /\ (~Connected(q_fd) \/ q_q)

\* select returns what is readable; after an error both sets are taken as they
\* were.  An uninitialized descriptor may be anything: not open (an error), another
\* file's, or a number FD_SET writes out of bounds with.
Select ==
  /\ pc = "select"
  /\ \/ /\ ready' = {d \in {"cpg", "quorum"} : IF d = "cpg" THEN CpgReadable ELSE QuorumReadable}
        /\ ready' # {} /\ pc' = "cpg_dispatch"
     \/ ready' = {"cpg", "quorum"} /\ pc' = "cpg_dispatch"
     \/ q_fd = 0 /\ ready' = {"quorum"} /\ pc' = "cpg_dispatch"
     \/ q_fd = 0 /\ ready' = {} /\ pc' = "crashed"
  /\ UNCHANGED <<service, restart, retries, handle, behind, quorum, cpg_q, coro_chan>>

\* Mutant: whoever left, it was us.
AnyoneLeft(e) == e \in {"left_self", "left_twin"}

\* "We have left the building direct match": pid and node id of left_list[0] are both
\* ours.  The entries after the first one are not looked at.
LeftTheBuilding(e) == e = "left_self"

Channel(e) == IF e \in Coro THEN e ELSE "confchg"

\* A callback runs in cpg_dispatch, which blocks while its channel is full.
ConfchgCallback ==
  /\ pc = "cpg_dispatch" /\ "cpg" \in ready /\ cpg_q # <<>>
  /\ LET e == Head(cpg_q) IN
     /\ coro_chan[Channel(e)] < CoroCap
     /\ coro_chan' = [coro_chan EXCEPT ![Channel(e)] = @ + 1]
     /\ restart' = (restart \/ LeftTheBuilding(e))
     /\ handle' = [handle EXCEPT !.overlooked = @ \/ e = "left_below"]
  /\ cpg_q' = Tail(cpg_q)
  /\ UNCHANGED <<service, pc, retries, behind, quorum, ready>>

\* Mutant: the result of a dispatch is not looked at.
IgnoreFailure(ok) == UNCHANGED restart

\* A dispatch that fails makes runs() start over.
RestartUnless(ok) == restart' = (restart \/ ~ok)

\* cpg_dispatch returns when nothing is left, or its connection is gone.
cpg_dispatch ==
  /\ pc = "cpg_dispatch" /\ pc' = "quorum_dispatch"
  /\ \/ "cpg" \in ready /\ ~Connected(handle.life) /\ RestartUnless(FALSE)
     \/ /\ "cpg" \in ready => cpg_q = <<>> /\ Connected(handle.life)
        /\ RestartUnless(TRUE)
  /\ UNCHANGED <<service, retries, handle, behind, quorum, ready, cpg_q, coro_chan>>

quorum_notification ==
  /\ pc = "quorum_dispatch" /\ "quorum" \in ready /\ q_q /\ q_handle # 0
  /\ coro_chan["quorumchg"] < CoroCap
  /\ coro_chan' = [coro_chan EXCEPT !["quorumchg"] = @ + 1]
  /\ q_q' = FALSE
  /\ UNCHANGED <<service, pc, restart, retries, handle, behind, q_handle, q_fd, ready, cpg_q>>

quorum_dispatch ==
  /\ pc = "quorum_dispatch" /\ pc' = "check"
  /\ "quorum" \in ready /\ q_handle # 0 => ~q_q
  /\ RestartUnless("quorum" \in ready => Connected(q_handle))
  /\ UNCHANGED <<service, retries, handle, behind, quorum, ready, cpg_q, coro_chan>>

\* cpg_finalize takes the process out of the group; q_handle stays as it is.
cpg_finalize ==
  /\ pc = "check" /\ restart
  /\ pc' = "top" /\ ready' = {}
  /\ handle' = NoHandle /\ cpg_q' = <<>>
  /\ UNCHANGED <<service, restart, retries, behind, quorum, coro_chan>>

GoesOn ==
  /\ pc = "check" /\ ~restart
  /\ pc' = "top" /\ ready' = {}
  /\ UNCHANGED <<service, restart, retries, handle, behind, quorum, cpg_q, coro_chan>>

\* The controller's loop takes an event.
Drain(c) ==
  /\ coro_chan[c] > 0
  /\ coro_chan' = [coro_chan EXCEPT ![c] = @ - 1]
  /\ UNCHANGED <<service, pc, restart, retries, handle, behind, quorum, ready, cpg_q>>

-----------------------------------------------------------------------------
BringUp ==
  \/ cpg_model_initialize \/ cpg_local_get \/ cpg_join \/ cpg_membership_get
  \/ connect_quorum

Dispatch == ConfchgCallback \/ cpg_dispatch \/ quorum_notification \/ quorum_dispatch

runs == Top \/ BringUp \/ Select \/ Dispatch \/ cpg_finalize \/ GoesOn

Next ==
  \/ Dies \/ Starts \/ Syncs \/ Notifies
  \/ \E e \in Event : Reports(e)
  \/ runs
  \/ \E c \in Coro : Drain(c)

Spec == Init /\ [][Next]_vars

(* runs() goes on unless it is blocked, and the controller's loop drains   *)
(* its channels.  corosync need not do anything.                           *)
Fairness == WF_vars(runs) /\ \A c \in Coro : WF_vars(Drain(c))

FairSpec == Spec /\ Fairness

-----------------------------------------------------------------------------
(* Properties.                                                             *)

\* Every variable has the values its C counterpart can take, no call is tried more
\* often than it may be, and no channel holds more than its capacity.
TypeOK ==
  /\ coro \in {"up", "syncing", "down"} /\ life \in 1..MaxLives /\ left \in 0..MaxEvents
  /\ pc \in {"top", "init", "local", "join", "membership", "quorum", "select",
             "cpg_dispatch", "quorum_dispatch", "check", "crashed"}
  /\ restart \in BOOLEAN /\ retries \in 0..(MaxRetries - 1)
  /\ handle \in [life : 0..MaxLives, member : BOOLEAN, overlooked : BOOLEAN]
  /\ behind \in BOOLEAN
  /\ q_handle \in 0..MaxLives /\ q_fd \in 0..MaxLives
  /\ ready \subseteq {"cpg", "quorum"}
  /\ cpg_q \in Seq(Event) /\ q_q \in BOOLEAN
  /\ coro_chan \in [Coro -> 0..CoroCap]

Polling == pc \in {"select", "cpg_dispatch", "quorum_dispatch"}

LeaveWaits == \E n \in 1..Len(cpg_q) : cpg_q[n] \in OurLeave

\* runs() never waits on a handle that did not come up: when it polls, this handle
\* is in the group, or corosync died, or a leave of this process is queued or noticed,
\* whatever failed on the way and however often it backed off.  The exception is a
\* leave in a list that another process begins: the code does not see it, and runs()
\* goes on polling outside the group.
PollsAsMember ==
  Polling =>
    \/ handle.member
    \/ ~Connected(handle.life) /\ handle.life # 0
    \/ restart \/ LeaveWaits
    \/ handle.overlooked

\* A handle that works is never given up: runs() leaves the group only after it was
\* dropped from it, or when the connection to corosync or to its quorum service
\* failed, and never because another process has the same pid.
NoNeedlessLeave ==
  [][cpg_finalize => ~handle.member \/ ~Connected(q_handle)]_vars

\* Once corosync stays up, this process is in the group to stay and listens to it,
\* whatever happened before, but for three faults of the code: its leave was
\* overlooked because another process came first in the list, or a handle that had
\* joined was left behind by retrybackoff (cpg_join is then refused for good), or
\* FD_SET crashed.
InGroup == handle.member /\ (Polling \/ (pc \in {"top", "check"} /\ ~restart))
Rejoins ==
  <>[](coro = "up") => <>[](InGroup \/ handle.overlooked \/ behind \/ pc = "crashed")
=============================================================================
