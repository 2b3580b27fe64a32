-------------------------------- MODULE Ipcs --------------------------------
(***************************************************************************)
(* The IPC server ipcs/ipcs.go and the map of clients that the handlers of *)
(* a daemon keep with it.                                                  *)
(*                                                                         *)
(* Clients connect to a unix stream socket, write messages, and leave when *)
(* they like: a daemon that crashes and is started again comes back under  *)
(* the same id on another connection.  A goroutine per connection reads,   *)
(* and hands what it read to the channel loop over a channel without       *)
(* buffer.  A HELLO puts its connection into the map; answers go to what   *)
(* the map has for an id by then.  Nothing is removed when a client leaves *)
(* ("exit" does not say which one did): an entry goes when a write fails.  *)
(*                                                                         *)
(* An action is one step of a client, one Read, or one message taken by    *)
(* the loop with the handler it runs, which nobody can observe half-way.   *)
(* This is the resource manager's server; the controller's is the same     *)
(* with the HELLO handler alone.                                           *)
(***************************************************************************)
EXTENDS Integers, Sequences

CONSTANTS
  Conn,        \* connections, each used once
  Client,      \* ids of clients (Source_id)
  Controller,  \* CONTROLLER_ID
  None,        \* no connection, no client (a missing map entry)
  MaxSend      \* bound: messages clients send in a behaviour

Types == {"HELLO", "RESOURCE"}

ASSUME ClientAssumption == Controller \in Client /\ None \notin Client \cup Conn
ASSUME BoundAssumption == MaxSend \in Nat

VARIABLES
  owner,      \* the client that made a connection
  peer,       \* the client's end of a connection
  con,        \* the daemon's end of it
  sock,       \* messages the client has written and clientReceive has not read
  sends,      \* messages sent so far
  reader,     \* clientReceive: what it is about to hand over, <<>> while in Read
  returned,   \* connections whose clientReceive has returned
  clients,    \* the map: Source_id -> connection
  executing,  \* requests whose results are still to come
  got,        \* the types of the messages that reached a client's end
  latest      \* history: the connection of the last HELLO handled for an id

vars == <<owner, peer, con, sock, sends, reader, returned, clients, executing, got, latest>>
clientSide == <<owner, peer, sends>>

Init ==
  /\ owner = [c \in Conn |-> None]
  /\ peer = [c \in Conn |-> "none"] /\ con = [c \in Conn |-> "none"]
  /\ sock = [c \in Conn |-> <<>>] /\ sends = 0
  /\ reader = [c \in Conn |-> <<>>] /\ returned = {}
  /\ clients = [i \in Client |-> None]
  /\ executing = 0
  /\ got = [c \in Conn |-> {}]
  /\ latest = [i \in Client |-> None]

-----------------------------------------------------------------------------
(* The clients.                                                            *)

\* Accept, and a clientReceive for the connection.
Connect(c, i) ==
  /\ peer[c] = "none"
  /\ owner' = [owner EXCEPT ![c] = i]
  /\ peer' = [peer EXCEPT ![c] = "open"]
  /\ con' = [con EXCEPT ![c] = "open"]
  /\ UNCHANGED <<sock, sends, reader, returned, clients, executing, got, latest>>

Send(c, type) ==
  /\ peer[c] = "open" /\ con[c] = "open" /\ sends < MaxSend
  /\ sends' = sends + 1
  /\ sock' = [sock EXCEPT ![c] = Append(@, type)]
  /\ UNCHANGED <<owner, peer, con, reader, returned, clients, executing, got, latest>>

\* The client closes, or dies; what it wrote can still be read.
Leave(c) ==
  /\ peer[c] = "open"
  /\ peer' = [peer EXCEPT ![c] = "closed"]
  /\ UNCHANGED <<owner, con, sock, sends, reader, returned, clients, executing, got, latest>>

-----------------------------------------------------------------------------
(* clientReceive.                                                          *)

InRead(c) == con[c] # "none" /\ reader[c] = <<>> /\ c \notin returned

\* Read returns all that has arrived, be it one message or several.
Read(c) ==
  /\ InRead(c) /\ con[c] = "open" /\ sock[c] # <<>>
  /\ reader' = [reader EXCEPT ![c] = sock[c]]
  /\ sock' = [sock EXCEPT ![c] = <<>>]
  /\ UNCHANGED <<clientSide, con, returned, clients, executing, got, latest>>

ReadFails(c) == con[c] = "closed" \/ (peer[c] = "closed" /\ sock[c] = <<>>)

\* The loop takes "exit", which it only logs, and clientReceive closes its end.
Exit(c) ==
  /\ InRead(c) /\ ReadFails(c)
  /\ con' = [con EXCEPT ![c] = "closed"]
  /\ returned' = returned \cup {c}
  /\ UNCHANGED <<clientSide, sock, reader, clients, executing, got, latest>>

-----------------------------------------------------------------------------
(* The channel loop.                                                       *)

Writable(c) == peer[c] = "open" /\ con[c] = "open"

\* SendIpcToClient with the map m: the message arrives, or the write fails and
\* the connection is closed and its entry deleted, or there is nobody to send to.
SendIpcToClient(m, dest, type) ==
  \/ /\ m[dest] # None /\ Writable(m[dest])
     /\ got' = [got EXCEPT ![m[dest]] = @ \cup {type}]
     /\ clients' = m
     /\ UNCHANGED con
  \/ /\ m[dest] # None /\ ~Writable(m[dest])
     /\ con' = [con EXCEPT ![m[dest]] = "closed"]
     /\ clients' = [m EXCEPT ![dest] = None]
     /\ UNCHANGED got
  \/ /\ m[dest] = None
     /\ clients' = m
     /\ UNCHANGED <<con, got>>

\* Mutant: a client that is found in the map is not replaced.
KeepFound(c) ==
  IF clients[owner[c]] = None THEN [clients EXCEPT ![owner[c]] = c] ELSE clients

\* A client that is found in the map is replaced.
AddClient(c) == [clients EXCEPT ![owner[c]] = c]

_messageHelloHandler(c) ==
  /\ latest' = [latest EXCEPT ![owner[c]] = c]
  /\ SendIpcToClient(AddClient(c), owner[c], "HELLO")
  /\ UNCHANGED executing

\* Mutant: the request is queued by the dispatcher as well.
QueuedTwice ==
  /\ executing' = executing + 2
  /\ UNCHANGED <<con, clients, got, latest>>

\* The request goes its way through the executor.
_messageResourceHandler ==
  /\ executing' = executing + 1
  /\ UNCHANGED <<con, clients, got, latest>>

\* What was read is one message.  Several at once do not parse: the zero header
\* names the HELLO handler, which returns when it cannot parse them either.
IsMessage(c, type) == reader[c] = <<type>>

\* Mutant: clientReceive returns after its first message.
ReadOnce(c) == returned \cup {c}

\* clientReceive goes on reading.
ReadOn(c) == returned

_processIpcSrvMessage(c) ==
  /\ reader[c] # <<>>
  /\ reader' = [reader EXCEPT ![c] = <<>>]
  /\ returned' = ReadOn(c)
  /\ \/ IsMessage(c, "HELLO") /\ _messageHelloHandler(c)
     \/ IsMessage(c, "RESOURCE") /\ _messageResourceHandler
     \/ /\ \A type \in Types : ~IsMessage(c, type)
        /\ UNCHANGED <<con, clients, executing, got, latest>>
  /\ UNCHANGED <<clientSide, sock>>

\* Mutant: results go to some other client.
OtherDestination == CHOOSE i \in Client : i # Controller

\* Destination_id of a result.
Destination == Controller

\* A result goes to the controller, whoever sent the request.
_processRscOpEvent ==
  /\ executing > 0 /\ executing' = executing - 1
  /\ SendIpcToClient(clients, Destination, "RESPONSE")
  /\ UNCHANGED <<clientSide, sock, reader, returned, latest>>

-----------------------------------------------------------------------------
ClientStep(c) ==
  \/ \E i \in Client : Connect(c, i)
  \/ \E type \in Types : Send(c, type)
  \/ Leave(c)

ServerStep(c) == Read(c) \/ Exit(c) \/ _processIpcSrvMessage(c)

Next ==
  \/ \E c \in Conn : ClientStep(c) \/ ServerStep(c)
  \/ _processRscOpEvent

Spec == Init /\ [][Next]_vars

(* The goroutine of each connection runs, and the loop takes what it is    *)
(* handed: that its handlers return, as they do while the channels of the  *)
(* resource manager have room (see SyncAnswered of Rmanager), is assumed.  *)
(* Clients may do anything or nothing.                                     *)
Fairness ==
  \A c \in Conn : WF_vars(Read(c)) /\ WF_vars(Exit(c)) /\ WF_vars(_processIpcSrvMessage(c))

FairSpec == Spec /\ Fairness

-----------------------------------------------------------------------------
(* Properties.                                                             *)

\* Every variable has the values its Go counterpart can take.
TypeOK ==
  /\ owner \in [Conn -> Client \cup {None}]
  /\ peer \in [Conn -> {"none", "open", "closed"}]
  /\ con \in [Conn -> {"none", "open", "closed"}]
  /\ sock \in [Conn -> Seq(Types)] /\ sends \in 0..MaxSend
  /\ reader \in [Conn -> Seq(Types)] /\ returned \subseteq Conn
  /\ clients \in [Client -> Conn \cup {None}]
  /\ executing \in 0..MaxSend
  /\ got \in [Conn -> SUBSET {"HELLO", "RESPONSE"}]
  /\ latest \in [Client -> Conn \cup {None}]

\* The connection whose HELLO was handled last is the one answers are written to,
\* for as long as its client is there: no failed write to an earlier connection of
\* the same client, no "exit" and no end of a clientReceive takes it out of the map
\* or closes it.
LatestHelloReachable ==
  \A i \in Client : latest[i] # None /\ peer[latest[i]] = "open" =>
    clients[i] = latest[i] /\ con[latest[i]] = "open"

\* An answer of the resource manager reaches nobody but a client that said HELLO
\* under the controller's id, though any client may have sent the request.
ResponsesToController ==
  \A c \in Conn : "RESPONSE" \in got[c] => owner[c] = Controller /\ "HELLO" \in got[c]

\* A HELLO that was read alone is answered on its own connection, unless the client
\* leaves: another connection of the same client may say HELLO in between.
HelloAnswered ==
  \A c \in Conn : (reader[c] = <<"HELLO">>) ~> ("HELLO" \in got[c] \/ peer[c] = "closed")

\* When a client has left, its goroutine ends and the daemon's end is closed, after
\* what it had written was handled and although its entry stays in the map.
ConnectionsClosed ==
  \A c \in Conn : (peer[c] = "closed") ~> (c \in returned /\ con[c] = "closed")
=============================================================================
