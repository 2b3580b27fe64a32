----------------------------- MODULE IpcsProofs -----------------------------
(***************************************************************************)
(* The map of clients, for any number of connections and clients: entries  *)
(* that nobody removed do not come between a client and its answers.       *)
(***************************************************************************)
EXTENDS Ipcs, FiniteSetTheorems, TLAPS

\* The variables a step must keep within their types for the map to be usable.
MapType ==
  /\ owner \in [Conn -> Client \cup {None}]
  /\ peer \in [Conn -> {"none", "open", "closed"}]
  /\ con \in [Conn -> {"none", "open", "closed"}]
  /\ sock \in [Conn -> Seq(Types)] /\ reader \in [Conn -> Seq(Types)]
  /\ clients \in [Client -> Conn \cup {None}]
  /\ got \in [Conn -> SUBSET {"HELLO", "RESPONSE"}]
  /\ latest \in [Client -> Conn \cup {None}]

\* A connection that was never made has nothing, and the daemon closes its end only
\* when the client has.
ConnInv ==
  \A c \in Conn :
    /\ peer[c] = "none" => con[c] = "none" /\ sock[c] = <<>> /\ reader[c] = <<>>
    /\ peer[c] = "none" <=> owner[c] = None
    /\ peer[c] = "none" => got[c] = {}
    /\ con[c] = "none" => peer[c] = "none"
    /\ con[c] = "closed" => peer[c] = "closed"

\* The map leads to the connection of the last HELLO or nowhere, and nowhere only when
\* the client has left that connection.
MapInv ==
  \A i \in Client :
    /\ clients[i] # None => clients[i] = latest[i] /\ "HELLO" \in got[clients[i]]
    /\ latest[i] # None => owner[latest[i]] = i
    /\ latest[i] # None /\ peer[latest[i]] = "open" => clients[i] = latest[i]

Inv == MapType /\ ConnInv /\ MapInv /\ ResponsesToController

-----------------------------------------------------------------------------
LEMMA InvInit == Init => Inv
  <1>. SUFFICES ASSUME Init PROVE Inv
    OBVIOUS
  <1>1. <<>> \in Seq(Types) /\ None \notin Conn
    BY ClientAssumption
  <1>2. MapType
    BY <1>1 DEF Init, MapType
  <1>3. ConnInv /\ MapInv /\ ResponsesToController
    BY DEF Init, ConnInv, MapInv, ResponsesToController
  <1>. QED BY <1>2, <1>3 DEF Inv

\* The clients.
LEMMA InvClientStep == ASSUME Inv, NEW c \in Conn, ClientStep(c) PROVE Inv'
  <1>1. None \notin Conn /\ None \notin Client
    BY ClientAssumption
  <1>2. ASSUME NEW i \in Client, Connect(c, i) PROVE Inv'
    <2>1. /\ peer[c] = "none"
          /\ owner' = [owner EXCEPT ![c] = i] /\ peer' = [peer EXCEPT ![c] = "open"]
          /\ con' = [con EXCEPT ![c] = "open"]
          /\ UNCHANGED <<sock, reader, clients, got, latest>>
      BY <1>2 DEF Connect
    <2>2. MapType'
      BY <2>1 DEF Inv, MapType
    <2>3. ConnInv'
      BY <1>1, <2>1 DEF Inv, MapType, ConnInv
    <2>4. \A j \in Client : latest[j] # None => latest[j] # c
      BY <1>1, <2>1 DEF Inv, MapType, ConnInv, MapInv
    <2>5. MapInv'
      BY <2>1, <2>4 DEF Inv, MapType, MapInv
    <2>6. ResponsesToController'
      BY <2>1 DEF Inv, MapType, ConnInv, ResponsesToController
    <2>. QED BY <2>2, <2>3, <2>5, <2>6 DEF Inv
  <1>3. ASSUME NEW type \in Types, Send(c, type) PROVE Inv'
    <2>1. /\ peer[c] = "open" /\ sock' = [sock EXCEPT ![c] = Append(sock[c], type)]
          /\ UNCHANGED <<owner, peer, con, reader, clients, got, latest>>
      BY <1>3 DEF Send
    <2>2. Append(sock[c], type) \in Seq(Types)
      <3>1. sock[c] \in Seq(Types)
        BY DEF Inv, MapType
      <3>. QED BY <3>1
    <2>3. MapType'
      BY <2>1, <2>2 DEF Inv, MapType
    <2>4. ConnInv'
      BY <2>1 DEF Inv, MapType, ConnInv
    <2>5. MapInv' /\ ResponsesToController'
      BY <2>1 DEF Inv, MapInv, ResponsesToController
    <2>. QED BY <2>3, <2>4, <2>5 DEF Inv
  <1>4. CASE Leave(c)
    <2>1. /\ peer[c] = "open" /\ peer' = [peer EXCEPT ![c] = "closed"]
          /\ UNCHANGED <<owner, con, sock, reader, clients, got, latest>>
      BY <1>4 DEF Leave
    <2>2. MapType'
      BY <2>1 DEF Inv, MapType
    <2>3. ConnInv'
      BY <2>1 DEF Inv, MapType, ConnInv
    <2>4. MapInv' /\ ResponsesToController'
      BY <2>1 DEF Inv, MapType, MapInv, ResponsesToController
    <2>. QED BY <2>2, <2>3, <2>4 DEF Inv
  <1>. QED BY <1>2, <1>3, <1>4 DEF ClientStep

\* clientReceive reads, or finds the end of the connection.
LEMMA InvReadStep == ASSUME Inv, NEW c \in Conn, Read(c) \/ Exit(c) PROVE Inv'
  <1>1. CASE Read(c)
    <2>1. /\ con[c] = "open" /\ reader' = [reader EXCEPT ![c] = sock[c]]
          /\ sock' = [sock EXCEPT ![c] = <<>>]
          /\ UNCHANGED <<owner, peer, con, clients, got, latest>>
      BY <1>1 DEF Read, clientSide
    <2>2. sock[c] \in Seq(Types) /\ <<>> \in Seq(Types)
      BY DEF Inv, MapType
    <2>3. MapType'
      BY <2>1, <2>2 DEF Inv, MapType
    <2>4. ConnInv'
      BY <2>1 DEF Inv, MapType, ConnInv
    <2>5. MapInv' /\ ResponsesToController'
      BY <2>1 DEF Inv, MapInv, ResponsesToController
    <2>. QED BY <2>3, <2>4, <2>5 DEF Inv
  <1>2. CASE Exit(c)
    <2>1. /\ con' = [con EXCEPT ![c] = "closed"]
          /\ UNCHANGED <<owner, peer, sock, reader, clients, got, latest>>
      BY <1>2 DEF Exit, clientSide
    <2>2. peer[c] = "closed"
      BY <1>2 DEF Exit, ReadFails, Inv, MapType, ConnInv
    <2>3. MapType'
      BY <2>1 DEF Inv, MapType
    <2>4. ConnInv'
      BY <2>1, <2>2 DEF Inv, MapType, ConnInv
    <2>5. MapInv' /\ ResponsesToController'
      BY <2>1 DEF Inv, MapInv, ResponsesToController
    <2>. QED BY <2>3, <2>4, <2>5 DEF Inv
  <1>. QED BY <1>1, <1>2

\* The loop takes what was read.
LEMMA InvMessageStep == ASSUME Inv, NEW c \in Conn, _processIpcSrvMessage(c) PROVE Inv'
  <1>1. /\ reader[c] # <<>> /\ reader' = [reader EXCEPT ![c] = <<>>]
        /\ UNCHANGED <<owner, peer, sock>>
    BY DEF _processIpcSrvMessage, clientSide
  <1>2. reader' \in [Conn -> Seq(Types)] /\ reader'[c] = <<>>
        /\ \A d \in Conn : d # c => reader'[d] = reader[d]
    <2>1. <<>> \in Seq(Types)
      OBVIOUS
    <2>. QED BY <1>1, <2>1 DEF Inv, MapType
  <1>3. None \notin Conn /\ None \notin Client
    BY ClientAssumption
  <1>4. peer[c] # "none" /\ con[c] # "none" /\ owner[c] \in Client
    BY <1>1 DEF Inv, ConnInv, MapType
  <1>5. CASE UNCHANGED <<con, clients, got, latest>>
    <2>1. MapType'
      BY <1>1, <1>2, <1>5 DEF Inv, MapType
    <2>2. ConnInv'
      BY <1>1, <1>2, <1>5 DEF Inv, ConnInv
    <2>3. MapInv' /\ ResponsesToController'
      BY <1>1, <1>5 DEF Inv, MapInv, ResponsesToController
    <2>. QED BY <2>1, <2>2, <2>3 DEF Inv
  <1>6. CASE _messageHelloHandler(c)
    <2>1. latest' = [latest EXCEPT ![owner[c]] = c]
      BY <1>6 DEF _messageHelloHandler
    <2>2. AddClient(c) = [clients EXCEPT ![owner[c]] = c] /\ AddClient(c)[owner[c]] = c
      BY <1>4 DEF AddClient, Inv, MapType
    <2>3. c # None
      BY <1>3
    <2>4. /\ latest' \in [Client -> Conn \cup {None}] /\ latest'[owner[c]] = c
          /\ \A i \in Client : i # owner[c] => latest'[i] = latest[i]
      BY <1>4, <2>1 DEF Inv, MapType
    <2>5. CASE Writable(c) /\ got' = [got EXCEPT ![c] = got[c] \cup {"HELLO"}]
               /\ clients' = AddClient(c) /\ UNCHANGED con
      <3>1. /\ got' \in [Conn -> SUBSET {"HELLO", "RESPONSE"}]
            /\ got'[c] = got[c] \cup {"HELLO"} /\ \A d \in Conn : d # c => got'[d] = got[d]
        BY <2>5 DEF Inv, MapType
      <3>2. /\ clients' \in [Client -> Conn \cup {None}] /\ clients'[owner[c]] = c
            /\ \A i \in Client : i # owner[c] => clients'[i] = clients[i]
        BY <1>4, <2>2, <2>5 DEF Inv, MapType
      <3>3. MapType'
        BY <1>1, <1>2, <2>4, <2>5, <3>1, <3>2 DEF Inv, MapType
      <3>4. ConnInv'
        BY <1>1, <1>2, <1>4, <2>5, <3>1 DEF Inv, ConnInv
      <3>5. MapInv'
        <4>. SUFFICES ASSUME NEW i \in Client
                      PROVE  /\ clients'[i] # None =>
                                  clients'[i] = latest'[i] /\ "HELLO" \in got'[clients'[i]]
                             /\ latest'[i] # None => owner'[latest'[i]] = i
                             /\ latest'[i] # None /\ peer'[latest'[i]] = "open" =>
                                  clients'[i] = latest'[i]
          BY DEF MapInv
        <4>1. CASE i = owner[c]
          BY <1>1, <2>4, <3>1, <3>2, <4>1
        <4>2. CASE i # owner[c]
          <5>1. clients[i] # None => clients[i] \in Conn
            BY DEF Inv, MapType
          <5>2. \A d \in Conn : "HELLO" \in got[d] => "HELLO" \in got'[d]
            BY <3>1
          <5>. QED BY <1>1, <2>4, <3>2, <4>2, <5>1, <5>2 DEF Inv, MapInv
        <4>. QED BY <4>1, <4>2
      <3>6. ResponsesToController'
        BY <1>1, <3>1 DEF Inv, ResponsesToController
      <3>. QED BY <3>3, <3>4, <3>5, <3>6 DEF Inv
    <2>6. CASE ~Writable(c) /\ con' = [con EXCEPT ![c] = "closed"]
               /\ clients' = [AddClient(c) EXCEPT ![owner[c]] = None] /\ UNCHANGED got
      <3>1. peer[c] = "closed"
        BY <1>4, <2>6 DEF Writable, Inv, MapType, ConnInv
      <3>2. /\ clients' \in [Client -> Conn \cup {None}] /\ clients'[owner[c]] = None
            /\ \A i \in Client : i # owner[c] => clients'[i] = clients[i]
        BY <1>4, <2>2, <2>6 DEF Inv, MapType
      <3>3. /\ con' \in [Conn -> {"none", "open", "closed"}] /\ con'[c] = "closed"
            /\ \A d \in Conn : d # c => con'[d] = con[d]
        BY <2>6 DEF Inv, MapType
      <3>4. MapType'
        BY <1>1, <1>2, <2>4, <2>6, <3>2, <3>3 DEF Inv, MapType
      <3>5. ConnInv'
        BY <1>1, <1>2, <2>6, <3>1, <3>3 DEF Inv, ConnInv
      <3>6. MapInv'
        BY <1>1, <2>4, <2>6, <3>1, <3>2 DEF Inv, MapInv
      <3>7. ResponsesToController'
        BY <1>1, <2>6 DEF Inv, ResponsesToController
      <3>. QED BY <3>4, <3>5, <3>6, <3>7 DEF Inv
    <2>. QED BY <1>6, <2>2, <2>3, <2>5, <2>6 DEF _messageHelloHandler, SendIpcToClient
  <1>. QED BY <1>5, <1>6 DEF _processIpcSrvMessage, _messageResourceHandler

\* The loop takes a result.
LEMMA InvEventStep == ASSUME Inv, _processRscOpEvent PROVE Inv'
  <1>1. UNCHANGED <<owner, peer, sock, reader, latest>>
    BY DEF _processRscOpEvent, clientSide
  <1>2. None \notin Conn /\ Controller \in Client
    BY ClientAssumption
  <1>3. CASE clients[Controller] = None
    <2>1. UNCHANGED <<con, clients, got>>
      BY <1>2, <1>3 DEF _processRscOpEvent, SendIpcToClient, Destination
    <2>. QED BY <1>1, <2>1 DEF Inv, MapType, ConnInv, MapInv, ResponsesToController
  <1>4. CASE clients[Controller] # None
    <2>1. /\ clients[Controller] \in Conn /\ owner[clients[Controller]] = Controller
          /\ "HELLO" \in got[clients[Controller]] /\ con[clients[Controller]] # "none"
          /\ clients[Controller] = latest[Controller]
      BY <1>2, <1>4 DEF Inv, MapType, MapInv, ConnInv
    <2>2. CASE /\ UNCHANGED <<con, clients>>
               /\ got' = [got EXCEPT ![clients[Controller]] = got[clients[Controller]] \cup {"RESPONSE"}]
      <3>1. /\ got' \in [Conn -> SUBSET {"HELLO", "RESPONSE"}]
            /\ got'[clients[Controller]] = got[clients[Controller]] \cup {"RESPONSE"}
            /\ \A d \in Conn : d # clients[Controller] => got'[d] = got[d]
        BY <2>1, <2>2 DEF Inv, MapType
      <3>2. MapType'
        BY <1>1, <2>2, <3>1 DEF Inv, MapType
      <3>3. peer[clients[Controller]] # "none"
        BY <2>1 DEF Inv, ConnInv
      <3>4. ConnInv'
        BY <1>1, <2>2, <3>1, <3>3 DEF Inv, ConnInv
      <3>5. \A d \in Conn : "HELLO" \in got[d] => "HELLO" \in got'[d]
        BY <3>1
      <3>6. \A i \in Client : clients[i] # None => clients[i] \in Conn
        BY DEF Inv, MapType
      <3>7. MapInv'
        BY <1>1, <2>2, <3>5, <3>6 DEF Inv, MapInv
      <3>8. ResponsesToController'
        BY <1>1, <2>1, <3>1 DEF Inv, ResponsesToController
      <3>. QED BY <3>2, <3>4, <3>7, <3>8 DEF Inv
    <2>3. CASE /\ ~Writable(clients[Controller]) /\ UNCHANGED got
               /\ con' = [con EXCEPT ![clients[Controller]] = "closed"]
               /\ clients' = [clients EXCEPT ![Controller] = None]
      <3>1. peer[clients[Controller]] = "closed"
        BY <2>1, <2>3 DEF Writable, Inv, MapType, ConnInv
      <3>2. /\ clients' \in [Client -> Conn \cup {None}] /\ clients'[Controller] = None
            /\ \A i \in Client : i # Controller => clients'[i] = clients[i]
        BY <1>2, <2>3 DEF Inv, MapType
      <3>3. /\ con' \in [Conn -> {"none", "open", "closed"}] /\ con'[clients[Controller]] = "closed"
            /\ \A d \in Conn : d # clients[Controller] => con'[d] = con[d]
        BY <2>1, <2>3 DEF Inv, MapType
      <3>4. MapType'
        BY <1>1, <2>3, <3>2, <3>3 DEF Inv, MapType
      <3>5. ConnInv'
        BY <1>1, <2>1, <2>3, <3>1, <3>3 DEF Inv, ConnInv
      <3>6. MapInv'
        BY <1>1, <2>1, <2>3, <3>1, <3>2 DEF Inv, MapInv
      <3>7. ResponsesToController'
        BY <1>1, <2>3 DEF Inv, ResponsesToController
      <3>. QED BY <3>4, <3>5, <3>6, <3>7 DEF Inv
    <2>. QED BY <1>4, <2>2, <2>3 DEF _processRscOpEvent, SendIpcToClient, Destination
  <1>. QED BY <1>3, <1>4

LEMMA InvHolds == Spec => []Inv
  <1>1. Inv /\ UNCHANGED vars => Inv'
    BY DEF vars, Inv, MapType, ConnInv, MapInv, ResponsesToController
  <1>2. Inv /\ [Next]_vars => Inv'
    BY <1>1, InvClientStep, InvReadStep, InvMessageStep, InvEventStep DEF Next, ServerStep
  <1>. QED BY <1>2, InvInit, PTL DEF Spec

-----------------------------------------------------------------------------
(* Requests under way.  How many there are over all connections is the     *)
(* cardinality of a set with a place for each message that waits.          *)

Load(c) == Len(sock[c]) + Len(reader[c])
Pending == {t \in Conn \X Nat : t[2] \in 1..Load(t[1])}

\* What is executed was sent, and is none of the messages that wait.
CountInv ==
  /\ sends \in 0..MaxSend /\ executing \in Nat /\ returned \subseteq Conn
  /\ IsFiniteSet(Pending) /\ Cardinality(Pending) + executing <= sends

\* Sums of two lengths.
LEMMA Sums ==
  ASSUME NEW a \in Nat, NEW b \in Nat
  PROVE  /\ a + b \in Nat /\ (a + 1) + b = (a + b) + 1
         /\ b # 0 => a + b \in 1..(a + b) /\ 1..a \subseteq 1..((a + b) - 1)
  OBVIOUS

LEMMA LoadIsNat == ASSUME MapType, NEW c \in Conn PROVE Load(c) \in Nat
  <1>1. sock[c] \in Seq(Types) /\ reader[c] \in Seq(Types)
    BY DEF MapType
  <1>2. Len(sock[c]) \in Nat /\ Len(reader[c]) \in Nat
    BY <1>1
  <1>3. Len(sock[c]) + Len(reader[c]) \in Nat
    BY <1>2, Sums, Zenon
  <1>. QED BY <1>3, Zenon DEF Load

LEMMA CountInit == Init => CountInv
  <1>. SUFFICES ASSUME Init PROVE CountInv
    OBVIOUS
  <1>1. ASSUME NEW c \in Conn PROVE Load(c) = 0
    <2>1. sock[c] = <<>> /\ reader[c] = <<>>
      BY DEF Init
    <2>2. Len(sock[c]) = 0 /\ Len(reader[c]) = 0
      BY <2>1
    <2>. QED BY <2>2 DEF Load
  <1>2. Pending = {}
    BY <1>1 DEF Pending
  <1>3. IsFiniteSet({}) /\ Cardinality({}) = 0
    BY FS_EmptySet
  <1>4. sends = 0 /\ executing = 0 /\ returned = {} /\ MaxSend \in Nat
    BY BoundAssumption DEF Init
  <1>. QED BY <1>2, <1>3, <1>4 DEF CountInv

\* The same messages wait where every load is what it was.
LEMMA SamePending ==
  ASSUME \A c \in Conn : Load(c)' = Load(c)
  PROVE  Pending' = Pending
  BY DEF Pending

\* A message more.
LEMMA CountSend ==
  ASSUME Inv, CountInv, NEW c \in Conn, NEW type \in Types, Send(c, type)
  PROVE  CountInv'
  <1>1. /\ sends < MaxSend /\ sends' = sends + 1
        /\ sock' = [sock EXCEPT ![c] = Append(sock[c], type)]
        /\ UNCHANGED <<reader, returned, executing>>
    BY DEF Send
  <1>2. sock[c] \in Seq(Types) /\ sock \in [Conn -> Seq(Types)]
    BY DEF Inv, MapType
  <1>3. Len(Append(sock[c], type)) = Len(sock[c]) + 1 /\ Len(sock[c]) \in Nat
    BY <1>2
  <1>4. Load(c) \in Nat /\ \A d \in Conn : Load(d) \in Nat
    BY LoadIsNat DEF Inv
  <1>5. /\ \A d \in Conn : d # c => Load(d)' = Load(d)
        /\ Load(c)' = Len(sock[c]) + 1 + Len(reader[c])
    BY <1>1, <1>2, <1>3 DEF Load
  <1>6. Load(c)' = Load(c) + 1
    <2>1. reader[c] \in Seq(Types)
      BY DEF Inv, MapType
    <2>2. Len(reader[c]) \in Nat
      BY <2>1
    <2>3. (Len(sock[c]) + 1) + Len(reader[c]) = (Len(sock[c]) + Len(reader[c])) + 1
      BY <1>3, <2>2, Sums, Zenon
    <2>. QED BY <1>5, <2>3, Zenon DEF Load
  <1>7. 1..(Load(c) + 1) = (1..Load(c)) \cup {Load(c) + 1} /\ Load(c) + 1 \in Nat
    BY <1>4
  <1>8. Pending' = Pending \cup {<<c, Load(c) + 1>>}
    <2>1. ASSUME NEW t \in Conn \X Nat
          PROVE  t \in Pending' <=> t \in Pending \/ t = <<c, Load(c) + 1>>
      <3>1. CASE t[1] = c
        BY <1>6, <1>7, <3>1 DEF Pending
      <3>2. CASE t[1] # c
        BY <1>5, <3>2 DEF Pending
      <3>. QED BY <3>1, <3>2
    <2>2. <<c, Load(c) + 1>> \in Conn \X Nat
      BY <1>7
    <2>3. Pending \subseteq Conn \X Nat /\ Pending' \subseteq Conn \X Nat
      BY DEF Pending
    <2>. QED BY <2>1, <2>2, <2>3
  <1>9. <<c, Load(c) + 1>> \notin Pending
    BY <1>4 DEF Pending
  <1>10. IsFiniteSet(Pending') /\ Cardinality(Pending') = Cardinality(Pending) + 1
    BY <1>8, <1>9, FS_AddElement DEF CountInv
  <1>11. Cardinality(Pending) \in Nat
    BY FS_CardinalityType DEF CountInv
  <1>12. Cardinality(Pending) + 1 + executing <= sends + 1 /\ sends + 1 \in 0..MaxSend
    BY <1>1, <1>11, BoundAssumption DEF CountInv
  <1>. QED BY <1>1, <1>10, <1>12 DEF CountInv

\* What a Read returns goes on waiting, in another place.
LEMMA CountRead == ASSUME Inv, CountInv, NEW c \in Conn, Read(c) PROVE CountInv'
  <1>1. /\ reader[c] = <<>> /\ UNCHANGED <<sends, returned, executing>>
        /\ reader' = [reader EXCEPT ![c] = sock[c]] /\ sock' = [sock EXCEPT ![c] = <<>>]
    BY DEF Read, InRead, clientSide
  <1>2. sock \in [Conn -> Seq(Types)] /\ reader \in [Conn -> Seq(Types)] /\ Len(<<>>) = 0
    BY DEF Inv, MapType
  <1>3. sock[c] \in Seq(Types)
    BY <1>2
  <1>4. Len(sock[c]) \in Nat
    BY <1>3
  <1>5. Load(c) = Len(sock[c]) + 0 /\ Load(c)' = 0 + Len(sock[c])
    BY <1>1, <1>2 DEF Load
  <1>6. \A d \in Conn : d # c => Load(d)' = Load(d)
    BY <1>1, <1>2 DEF Load
  <1>7. Pending' = Pending
    BY <1>4, <1>5, <1>6, SamePending
  <1>. QED BY <1>1, <1>7 DEF CountInv

\* The loop takes what waits, which is one message or more, for at most one request.
LEMMA CountMessage ==
  ASSUME Inv, CountInv, NEW c \in Conn, _processIpcSrvMessage(c)
  PROVE  CountInv'
  <1>1. /\ reader[c] # <<>> /\ UNCHANGED <<sends, sock, returned>>
        /\ reader' = [reader EXCEPT ![c] = <<>>]
        /\ executing' = executing \/ executing' = executing + 1
    BY DEF _processIpcSrvMessage, ReadOn, _messageHelloHandler, _messageResourceHandler, clientSide
  <1>2. reader \in [Conn -> Seq(Types)] /\ Len(<<>>) = 0
    BY DEF Inv, MapType
  <1>3. reader[c] \in Seq(Types) /\ sock[c] \in Seq(Types)
    BY <1>2 DEF Inv, MapType
  <1>4. Len(reader[c]) \in Nat /\ Len(reader[c]) # 0 /\ Len(sock[c]) \in Nat
    BY <1>1, <1>3
  <1>5. Load(c)' = Len(sock[c]) + 0 /\ \A d \in Conn : d # c => Load(d)' = Load(d)
    BY <1>1, <1>2 DEF Load
  <1>6. Load(c) \in 1..Load(c) /\ Load(c) \in Nat /\ 1..Len(sock[c]) \subseteq 1..(Load(c) - 1)
    BY <1>4, Sums, Zenon DEF Load
  <1>7. \A n \in 1..Load(c)' : n \in 1..Load(c) /\ n # Load(c)
    BY <1>4, <1>5, <1>6
  <1>8. <<c, Load(c)>> \in Pending
    BY <1>6 DEF Pending
  <1>9. Pending' \subseteq Pending \ {<<c, Load(c)>>}
    <2>1. ASSUME NEW t \in Pending' PROVE t \in Pending /\ t # <<c, Load(c)>>
      <3>1. t \in Conn \X Nat /\ t[2] \in 1..Load(t[1])'
        BY <2>1 DEF Pending
      <3>2. CASE t[1] = c
        BY <1>7, <3>1, <3>2 DEF Pending
      <3>3. CASE t[1] # c
        BY <1>5, <3>1, <3>3 DEF Pending
      <3>. QED BY <3>2, <3>3
    <2>. QED BY <2>1
  <1>10. /\ IsFiniteSet(Pending \ {<<c, Load(c)>>})
         /\ Cardinality(Pending \ {<<c, Load(c)>>}) = Cardinality(Pending) - 1
    BY <1>8, FS_RemoveElement DEF CountInv
  <1>11. IsFiniteSet(Pending') /\ Cardinality(Pending') <= Cardinality(Pending) - 1
    BY <1>9, <1>10, FS_Subset
  <1>12. Cardinality(Pending) \in Nat /\ Cardinality(Pending') \in Nat
    BY <1>11, FS_CardinalityType DEF CountInv
  <1>13. executing' \in Nat /\ Cardinality(Pending') + executing' <= sends
    <2>1. executing \in Nat /\ sends \in Nat /\ Cardinality(Pending) + executing <= sends
      BY BoundAssumption DEF CountInv
    <2>2. CASE executing' = executing
      BY <1>11, <1>12, <2>1, <2>2
    <2>3. CASE executing' = executing + 1
      BY <1>11, <1>12, <2>1, <2>3
    <2>. QED BY <1>1, <2>2, <2>3
  <1>. QED BY <1>1, <1>11, <1>13 DEF CountInv

LEMMA CountStep == ASSUME Inv, CountInv, [Next]_vars PROVE CountInv'
  <1>1. CASE UNCHANGED <<sock, reader, sends, executing>> /\ returned' \subseteq Conn
    <2>1. Pending' = Pending
      BY <1>1, SamePending DEF Load
    <2>. QED BY <1>1, <2>1 DEF CountInv
  <1>2. CASE UNCHANGED vars
    BY <1>1, <1>2 DEF vars, CountInv
  <1>3. ASSUME NEW c \in Conn, ClientStep(c) PROVE CountInv'
    <2>1. CASE Leave(c) \/ \E i \in Client : Connect(c, i)
      BY <1>1, <2>1 DEF Leave, Connect, CountInv
    <2>. QED BY <1>3, <2>1, CountSend DEF ClientStep
  <1>4. ASSUME NEW c \in Conn, ServerStep(c) PROVE CountInv'
    <2>1. CASE Exit(c)
      BY <1>1, <2>1 DEF Exit, clientSide, CountInv
    <2>. QED BY <1>4, <2>1, CountRead, CountMessage DEF ServerStep
  <1>5. CASE _processRscOpEvent
    <2>1. executing > 0 /\ executing' = executing - 1 /\ UNCHANGED <<sock, reader, sends, returned>>
      BY <1>5 DEF _processRscOpEvent, clientSide
    <2>2. Pending' = Pending
      BY <2>1, SamePending DEF Load
    <2>3. Cardinality(Pending) \in Nat
      BY FS_CardinalityType DEF CountInv
    <2>4. executing' \in Nat /\ Cardinality(Pending) + executing' <= sends
      BY <2>1, <2>3, BoundAssumption DEF CountInv
    <2>. QED BY <2>1, <2>2, <2>4 DEF CountInv
  <1>. QED BY <1>2, <1>3, <1>4, <1>5 DEF Next

\* Every variable has the values its Go counterpart can take, and no more requests are
\* executed than were sent, over however many connections.
THEOREM TypeCorrect == Spec => []TypeOK
  <1>1. Inv /\ CountInv => TypeOK
    <2>. SUFFICES ASSUME Inv, CountInv PROVE TypeOK
      OBVIOUS
    <2>1. Cardinality(Pending) \in Nat
      BY FS_CardinalityType DEF CountInv
    <2>2. executing \in 0..MaxSend
      BY <2>1, BoundAssumption DEF CountInv
    <2>. QED BY <2>2 DEF Inv, MapType, CountInv, TypeOK
  <1>. QED BY <1>1, InvHolds, CountInit, CountStep, PTL DEF Spec

\* Neither an entry left behind by an earlier connection of a client, nor a write to it
\* that fails, takes the connection of its last HELLO away while the client is there.
THEOREM LatestReachable == Spec => []LatestHelloReachable
  <1>1. Inv => LatestHelloReachable
    <2>. SUFFICES ASSUME Inv, NEW i \in Client, latest[i] # None, peer[latest[i]] = "open"
                  PROVE  clients[i] = latest[i] /\ con[latest[i]] = "open"
      BY DEF LatestHelloReachable
    <2>1. latest[i] \in Conn
      BY DEF Inv, MapType
    <2>2. con[latest[i]] \in {"none", "open", "closed"}
      BY <2>1 DEF Inv, MapType
    <2>. QED BY <2>1, <2>2 DEF Inv, MapInv, ConnInv
  <1>. QED BY <1>1, InvHolds, PTL

\* Results reach connections that said HELLO under the controller's id, and no other.
THEOREM OnlyController == Spec => []ResponsesToController
  <1>1. Inv => ResponsesToController
    BY DEF Inv
  <1>. QED BY <1>1, InvHolds, PTL
=============================================================================
