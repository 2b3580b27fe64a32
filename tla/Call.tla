-------------------------------- MODULE Call --------------------------------
(***************************************************************************)
(* What SendRecv of the IPC client promises to its callers: a remote call. *)
(*                                                                         *)
(* A call has a number no other open call has.  The server answers only    *)
(* what was asked, a caller gets an answer only if the server has answered *)
(* its number, and only then the call returns.  Queues, the socket, the    *)
(* map of waiting calls and the buffer are not part of it.                 *)
(***************************************************************************)
EXTENDS Naturals

CONSTANTS
  Caller,  \* goroutines that call
  Number,  \* numbers of requests, without 0
  Fresh    \* TRUE if no number is given out twice

VARIABLES
  at,      \* where each caller is: "idle", "called" or "answered"
  number,  \* the number of its call, 0 when it is idle
  served   \* numbers the server has answered

Init ==
  /\ at = [c \in Caller |-> "idle"]
  /\ number = [c \in Caller |-> 0]
  /\ served = {}

\* A new call differs from the open ones, and if numbers are fresh no answer to it
\* exists: what the caller gets was sent after it called.
Request(c, n) ==
  /\ at[c] = "idle"
  /\ \A d \in Caller : number[d] # n
  /\ Fresh => n \notin served
  /\ at' = [at EXCEPT ![c] = "called"]
  /\ number' = [number EXCEPT ![c] = n]
  /\ UNCHANGED served

\* The server answers a call that is open.
Serve(c) ==
  /\ at[c] = "called"
  /\ served' = served \cup {number[c]}
  /\ UNCHANGED <<at, number>>

\* The answer reaches the caller.
Answer(c) ==
  /\ at[c] = "called" /\ number[c] \in served
  /\ at' = [at EXCEPT ![c] = "answered"]
  /\ UNCHANGED <<number, served>>

Return(c) ==
  /\ at[c] = "answered"
  /\ at' = [at EXCEPT ![c] = "idle"]
  /\ number' = [number EXCEPT ![c] = 0]
  /\ UNCHANGED served

Next ==
  \E c \in Caller :
    \/ \E n \in Number : Request(c, n)
    \/ Serve(c) \/ Answer(c) \/ Return(c)

Spec == Init /\ [][Next]_<<at, number, served>>
=============================================================================
