----------------------------- MODULE IpccProofs -----------------------------
(***************************************************************************)
(* The IPC client, for any callers, calls and capacities: a call that      *)
(* waits is in exactly one place, and nothing else is in those places,     *)
(* whatever the server sends and the buffer loses; and SendRecv is the     *)
(* remote call of Call.                                                    *)
(***************************************************************************)
EXTENDS IpccImplements, TLAPS

Waits(c, s) == caller[c].pc = "wait" /\ caller[c].seqno = s

\* A channel on its way to Run belongs to a call that waits, and is nowhere else.
QueueInv ==
  /\ \A n \in 1..Len(call_send_ch) : call_send_ch[n].sch # None =>
       /\ Waits(call_send_ch[n].sch, call_send_ch[n].seqno)
       /\ \A s \in Seqno : sync_map[s] # call_send_ch[n].sch
       /\ ~(run.pc = "deliver" /\ run.to = call_send_ch[n].sch)
  /\ \A m, n \in 1..Len(call_send_ch) :
       call_send_ch[m].sch # None /\ call_send_ch[m].sch = call_send_ch[n].sch => m = n

\* So does a registered one.
MapInv ==
  \A s \in Seqno : sync_map[s] # None =>
    Waits(sync_map[s], s) /\ ~(run.pc = "deliver" /\ run.to = sync_map[s])

RunInv == run.pc = "deliver" => run.to # None /\ Waits(run.to, run.seqno)

WaitInv ==
  \A c \in Caller : caller[c].pc = "wait" =>
    \/ \E n \in 1..Len(call_send_ch) : call_send_ch[n].sch = c
    \/ sync_map[caller[c].seqno] = c
    \/ run.pc = "deliver" /\ run.to = c

\* Calls of different callers have different numbers.
DistInv ==
  \A c, d \in Caller :
    /\ caller[c].pc \notin {"idle", "async"} /\ caller[d].pc \notin {"idle", "async"}
    /\ caller[c].seqno = caller[d].seqno
    => c = d

\* Unless there is one caller only, the numbers do not come round again.
LapInv ==
  Caller = {Consumer} \/ (seqno <= calls /\ \A c \in Caller : caller[c].seqno <= seqno)

\* There is something in the buffer when a slice of it waits.
BufInv == receiver # <<>> \/ rcv_read_ch # <<>> => buf # <<>>

CallInv == QueueInv /\ MapInv /\ RunInv /\ WaitInv /\ DistInv /\ LapInv
Inv == TypeOK /\ BufInv /\ CallInv

-----------------------------------------------------------------------------
(* Queues.                                                                 *)

LEMMA Appended ==
  ASSUME NEW S, NEW s \in Seq(S), NEW e \in S
  PROVE  /\ Append(s, e) \in Seq(S) /\ Len(Append(s, e)) = Len(s) + 1 /\ Len(s) \in Nat
         /\ \A n \in 1..Len(s) : Append(s, e)[n] = s[n]
         /\ Append(s, e)[Len(s) + 1] = e /\ Append(s, e) # <<>>
  OBVIOUS

LEMMA Taken ==
  ASSUME NEW S, NEW s \in Seq(S), s # <<>>
  PROVE  /\ Head(s) \in S /\ Head(s) = s[1] /\ Len(s) \in Nat /\ 1 \in 1..Len(s)
         /\ Tail(s) \in Seq(S) /\ Len(Tail(s)) = Len(s) - 1
         /\ \A n \in 1..Len(Tail(s)) : Tail(s)[n] = s[n + 1] /\ n + 1 \in 1..Len(s)
  OBVIOUS

LEMMA Room ==
  \A n, k \in Nat : (n < k => n + 1 <= k) /\ (n <= k => n - 1 <= k)
  OBVIOUS

LEMMA Cut ==
  ASSUME NEW S, NEW s \in Seq(S), NEW n \in 1..Len(s)
  PROVE  /\ SubSeq(s, 1, n) \in Seq(S) /\ SubSeq(s, 1, n) # <<>>
         /\ SubSeq(s, n + 1, Len(s)) \in Seq(S)
         /\ SubSeq(s, 1, n - 1) \o SubSeq(s, n + 1, Len(s)) \in Seq(S)
  <1>1. Len(s) \in Nat
    OBVIOUS
  <1>2. SubSeq(s, 1, n) \in Seq(S) /\ Len(SubSeq(s, 1, n)) = n
    BY <1>1
  <1>3. SubSeq(s, 1, n) # <<>>
    BY <1>1, <1>2
  <1>4. SubSeq(s, n + 1, Len(s)) \in Seq(S)
    BY <1>1
  <1>5. SubSeq(s, 1, n - 1) \in Seq(S)
    BY <1>1
  <1>. QED BY <1>2, <1>3, <1>4, <1>5

-----------------------------------------------------------------------------
(* Types.                                                                  *)

LEMMA Numbers ==
  /\ Seqno \subseteq Nat /\ 0 \in Seqno
  /\ \A s \in Seqno : NextSeqno(s) \in Seqno \ {0} /\ (s # MaxSeq => NextSeqno(s) = s + 1)
  BY BoundAssumption DEF Seqno, NextSeqno

LEMMA Capacities == {SendCap, WriteCap, ReadCap, RecvCap} \subseteq Nat
  BY CapAssumption

LEMMA InvInit == Init => Inv
  <1>. SUFFICES ASSUME Init PROVE Inv
    OBVIOUS
  <1>1. /\ <<>> \in Seq(Seqno) /\ <<>> \in Seq(Seq(Seqno)) /\ <<>> \in Seq(CallType)
        /\ Len(<<>>) = 0
    OBVIOUS
  <1>2. TypeOK
    <2>1. caller \in [Caller -> CallerType]
      BY Numbers DEF Init, CallerType
    <2>2. run \in RunType
      BY Numbers DEF Init, AtSelect, RunType
    <2>3. sync_map \in [Seqno -> Caller \cup {None}]
      BY DEF Init
    <2>4. seqno \in Seqno /\ calls \in 0..MaxCalls /\ extra \in 0..MaxExtra
      BY Numbers, BoundAssumption DEF Init
    <2>5. /\ Len(call_send_ch) <= SendCap /\ Len(snd_write_ch) <= WriteCap
          /\ Len(rcv_read_ch) <= ReadCap /\ Len(ipcrecv_ch) <= RecvCap
      BY <1>1, Capacities DEF Init
    <2>6. connected \in BOOLEAN
      BY Zenon DEF Init
    <2>7. /\ call_send_ch \in Seq(CallType) /\ snd_write_ch \in Seq(Seqno)
          /\ received \in Seq(Seqno) /\ served \subseteq Seqno /\ stream \in Seq(Seqno)
          /\ buf \in Seq(Seqno) /\ receiver \in Seq(Seqno)
          /\ rcv_read_ch \in Seq(Seq(Seqno)) /\ ipcrecv_ch \in Seq(Seqno)
      BY <1>1 DEF Init
    <2>. QED BY <2>1, <2>2, <2>3, <2>4, <2>5, <2>6, <2>7 DEF TypeOK
  <1>3. BufInv
    BY DEF Init, BufInv
  <1>4. /\ \A c \in Caller : caller[c].pc = "idle" /\ caller[c].seqno = 0
        /\ \A s \in Seqno : sync_map[s] = None
        /\ run.pc = "select" /\ Len(call_send_ch) = 0 /\ seqno = 0 /\ calls = 0
    BY <1>1 DEF Init, AtSelect
  <1>5. CallInv
    BY <1>4 DEF CallInv, QueueInv, MapInv, RunInv, WaitInv, DistInv, LapInv
  <1>. QED BY <1>2, <1>3, <1>5 DEF Inv

\* What Run may find in a slice.
LEMMA Parsed ==
  ASSUME TypeOK, BufInv, rcv_read_ch # <<>>, NEW s \in ParsedSeqnos(Head(rcv_read_ch))
  PROVE  s \in Seqno
  <1>1. buf # <<>> /\ buf \in Seq(Seqno)
    BY DEF TypeOK, BufInv
  <1>2. Head(buf) \in Seqno
    BY <1>1
  <1>. QED BY <1>2, Numbers DEF ParsedSeqnos

LEMMA CallerTypes == ASSUME TypeOK, NEW c \in Caller, CallerStep(c) PROVE TypeOK'
  <1>1. caller[c] \in CallerType /\ caller[c].seqno \in Seqno
    BY DEF TypeOK, CallerType
  <1>2. /\ Len(call_send_ch) \in Nat /\ Len(ipcrecv_ch) \in Nat /\ SendCap \in Nat /\ RecvCap \in Nat
    BY Capacities DEF TypeOK
  <1>3. CASE SendRecv(c)
    <2>1. NextSeqno(seqno) \in Seqno
      BY Numbers DEF TypeOK
    <2>2. [pc |-> "send", seqno |-> NextSeqno(seqno)] \in CallerType
      BY <2>1 DEF CallerType
    <2>3. caller' \in [Caller -> CallerType]
      BY <1>3, <2>2 DEF SendRecv, TypeOK
    <2>4. calls' \in 0..MaxCalls
      BY <1>3, BoundAssumption DEF SendRecv, TypeOK
    <2>. QED BY <1>3, <2>1, <2>3, <2>4 DEF SendRecv, TypeOK, socketVars, readerVars
  <1>4. CASE PushCall(c)
    <2>1. [seqno |-> caller[c].seqno, sch |-> c] \in CallType
      BY <1>1 DEF CallType
    <2>2. call_send_ch' \in Seq(CallType) /\ Len(call_send_ch') = Len(call_send_ch) + 1
      BY <1>4, <2>1, Appended DEF PushCall, TypeOK
    <2>3. Len(call_send_ch') <= SendCap
      BY <1>2, <1>4, <2>2, Room DEF PushCall
    <2>4. caller' \in [Caller -> CallerType]
      <3>1. [caller[c] EXCEPT !.pc = "wait"] \in CallerType
        BY <1>1 DEF CallerType
      <3>2. caller' = [caller EXCEPT ![c] = [caller[c] EXCEPT !.pc = "wait"]]
        BY <1>4 DEF PushCall
      <3>. QED BY <3>1, <3>2 DEF TypeOK
    <2>. QED BY <1>4, <2>2, <2>3, <2>4 DEF PushCall, TypeOK, socketVars, readerVars
  <1>5. CASE SendRecvAsync(c)
    <2>1. [pc |-> "async", seqno |-> 0] \in CallerType
      BY Numbers DEF CallerType
    <2>2. caller' \in [Caller -> CallerType]
      BY <1>5, <2>1 DEF SendRecvAsync, TypeOK
    <2>3. calls' \in 0..MaxCalls
      BY <1>5, BoundAssumption DEF SendRecvAsync, TypeOK
    <2>. QED BY <1>5, <2>2, <2>3 DEF SendRecvAsync, TypeOK, socketVars, readerVars
  <1>7. CASE PushAsync(c)
    <2>1. [seqno |-> 0, sch |-> None] \in CallType /\ [pc |-> "idle", seqno |-> 0] \in CallerType
      BY Numbers DEF CallType, CallerType
    <2>2. call_send_ch' \in Seq(CallType) /\ Len(call_send_ch') = Len(call_send_ch) + 1
      BY <1>7, <2>1, Appended DEF PushAsync, TypeOK
    <2>3. Len(call_send_ch') <= SendCap
      BY <1>2, <1>7, <2>2, Room DEF PushAsync
    <2>4. caller' \in [Caller -> CallerType]
      BY <1>7, <2>1 DEF PushAsync, TypeOK
    <2>. QED BY <1>7, <2>2, <2>3, <2>4 DEF PushAsync, TypeOK, socketVars, readerVars
  <1>6. CASE PassAnswerOn(c)
    <2>1. ipcrecv_ch' \in Seq(Seqno) /\ Len(ipcrecv_ch') = Len(ipcrecv_ch) + 1
      BY <1>1, <1>6, Appended DEF PassAnswerOn, TypeOK
    <2>2. Len(ipcrecv_ch') <= RecvCap
      BY <1>2, <1>6, <2>1, Room DEF PassAnswerOn
    <2>3. [pc |-> "idle", seqno |-> 0] \in CallerType
      BY Numbers DEF CallerType
    <2>4. caller' \in [Caller -> CallerType]
      BY <1>6, <2>3 DEF PassAnswerOn, TypeOK
    <2>. QED BY <1>6, <2>1, <2>2, <2>4 DEF PassAnswerOn, TypeOK, socketVars, readerVars
  <1>. QED BY <1>3, <1>4, <1>5, <1>6, <1>7 DEF CallerStep

LEMMA RunTypes == ASSUME TypeOK, BufInv, RunStep PROVE TypeOK'
  <1>1. AtSelect \in RunType
    BY Numbers DEF AtSelect, RunType
  <1>2. /\ Len(snd_write_ch) \in Nat /\ Len(ipcrecv_ch) \in Nat /\ Len(call_send_ch) \in Nat
        /\ Len(rcv_read_ch) \in Nat /\ {SendCap, WriteCap, ReadCap, RecvCap} \subseteq Nat
        /\ run.seqno \in Seqno
    BY Capacities DEF TypeOK, RunType
  <1>3. CASE TakeCall
    <2>1. /\ Head(call_send_ch) \in CallType
          /\ call_send_ch' \in Seq(CallType) /\ Len(call_send_ch') = Len(call_send_ch) - 1
      BY <1>3, Taken DEF TakeCall, TypeOK
    <2>2. Len(call_send_ch') <= SendCap
      BY <1>2, <2>1, Room DEF TypeOK
    <2>3. Head(call_send_ch).seqno \in Seqno /\ Head(call_send_ch).sch \in Caller \cup {None}
      BY <2>1 DEF CallType
    <2>4. sync_map' \in [Seqno -> Caller \cup {None}]
      BY <1>3, <2>3 DEF TakeCall, _setSyncMap, TypeOK
    <2>5. run' \in RunType
      BY <1>3, <2>3 DEF TakeCall, AtSelect, RunType
    <2>. QED BY <1>3, <2>1, <2>2, <2>4, <2>5 DEF TakeCall, TypeOK, clientVars, socketVars, readerVars
  <1>4. CASE PassToSender
    <2>1. snd_write_ch' \in Seq(Seqno) /\ Len(snd_write_ch') = Len(snd_write_ch) + 1
      BY <1>2, <1>4, Appended DEF PassToSender, TypeOK
    <2>2. Len(snd_write_ch') <= WriteCap
      BY <1>2, <1>4, <2>1, Room DEF PassToSender
    <2>. QED BY <1>1, <1>4, <2>1, <2>2 DEF PassToSender, TypeOK, clientVars, socketVars, readerVars
  <1>5. CASE TakeMessage
    <2>1. rcv_read_ch' \in Seq(Seq(Seqno)) /\ Len(rcv_read_ch') = Len(rcv_read_ch) - 1
      BY <1>5, Taken DEF TakeMessage, TypeOK
    <2>2. Len(rcv_read_ch') <= ReadCap
      BY <1>2, <2>1, Room DEF TypeOK
    <2>3. PICK s \in ParsedSeqnos(Head(rcv_read_ch)) :
            \/ /\ sync_map[s] # None /\ sync_map' = _removeSyncMap(s)
               /\ run' = [pc |-> "deliver", seqno |-> s, to |-> sync_map[s]]
            \/ /\ run' = [AtSelect EXCEPT !.pc = "async", !.seqno = s] /\ UNCHANGED sync_map
      BY <1>5 DEF TakeMessage
    <2>4. s \in Seqno
      BY <1>5, Parsed DEF TakeMessage
    <2>5. run' \in RunType
      <3>1. sync_map[s] \in Caller \cup {None}
        BY <2>4 DEF TypeOK
      <3>2. [pc |-> "deliver", seqno |-> s, to |-> sync_map[s]] \in RunType
        BY <2>4, <3>1 DEF RunType
      <3>3. [AtSelect EXCEPT !.pc = "async", !.seqno = s] \in RunType
        BY <1>1, <2>4 DEF RunType
      <3>. QED BY <2>3, <3>2, <3>3
    <2>6. sync_map' \in [Seqno -> Caller \cup {None}]
      BY <2>3, <2>4 DEF _removeSyncMap, TypeOK
    <2>. QED BY <1>5, <2>1, <2>2, <2>5, <2>6 DEF TakeMessage, TypeOK, clientVars, socketVars, readerVars
  <1>6. CASE Deliver
    <2>1. caller' \in [Caller -> CallerType]
      <3>1. CASE run.to \in Caller
        <4>1. [caller[run.to] EXCEPT !.pc = "answered"] \in CallerType
          BY <3>1 DEF TypeOK, CallerType
        <4>2. caller' = [caller EXCEPT ![run.to] = [caller[run.to] EXCEPT !.pc = "answered"]]
          BY <1>6 DEF Deliver
        <4>. QED BY <4>1, <4>2 DEF TypeOK
      <3>2. CASE run.to \notin Caller
        <4>1. caller' = [caller EXCEPT ![run.to] = [caller[run.to] EXCEPT !.pc = "answered"]]
          BY <1>6 DEF Deliver
        <4>2. caller' = caller
          BY <3>2, <4>1 DEF TypeOK
        <4>. QED BY <4>2 DEF TypeOK
      <3>. QED BY <3>1, <3>2
    <2>. QED BY <1>1, <1>6, <2>1 DEF Deliver, TypeOK, clientVars, socketVars, readerVars
  <1>7. CASE DeliverAsync
    <2>1. ipcrecv_ch' \in Seq(Seqno) /\ Len(ipcrecv_ch') = Len(ipcrecv_ch) + 1
      BY <1>2, <1>7, Appended DEF DeliverAsync, TypeOK
    <2>2. Len(ipcrecv_ch') <= RecvCap
      BY <1>2, <1>7, <2>1, Room DEF DeliverAsync
    <2>. QED BY <1>1, <1>7, <2>1, <2>2 DEF DeliverAsync, TypeOK, clientVars, socketVars, readerVars
  <1>. QED BY <1>3, <1>4, <1>5, <1>6, <1>7 DEF RunStep

LEMMA SocketTypes ==
  ASSUME TypeOK, Consume \/ Write \/ Read \/ PassSlice \/ ServerStep
  PROVE  TypeOK'
  <1>1. /\ Len(snd_write_ch) \in Nat /\ Len(ipcrecv_ch) \in Nat /\ Len(rcv_read_ch) \in Nat
        /\ {SendCap, WriteCap, ReadCap, RecvCap} \subseteq Nat
    BY Capacities DEF TypeOK
  <1>2. CASE Consume
    <2>1. ipcrecv_ch' \in Seq(Seqno) /\ Len(ipcrecv_ch') = Len(ipcrecv_ch) - 1
      BY <1>2, Taken DEF Consume, TypeOK
    <2>2. Len(ipcrecv_ch') <= RecvCap
      BY <1>1, <2>1, Room DEF TypeOK
    <2>. QED BY <1>2, <2>1, <2>2 DEF Consume, TypeOK, clientVars, socketVars, readerVars
  <1>3. CASE Write
    <2>1. /\ Head(snd_write_ch) \in Seqno
          /\ snd_write_ch' \in Seq(Seqno) /\ Len(snd_write_ch') = Len(snd_write_ch) - 1
      BY <1>3, Taken DEF Write, TypeOK
    <2>2. Len(snd_write_ch') <= WriteCap
      BY <1>1, <2>1, Room DEF TypeOK
    <2>3. Append(received, Head(snd_write_ch)) \in Seq(Seqno)
      BY <2>1, Appended DEF TypeOK
    <2>4. received' \in Seq(Seqno)
      BY <1>3, <2>3 DEF Write, TypeOK
    <2>. QED BY <1>3, <2>1, <2>2, <2>4 DEF Write, TypeOK, clientVars, readerVars
  <1>4. CASE Read
    <2>1. stream \in Seq(Seqno) /\ stream # <<>> /\ Len(stream) \in Nat
      BY <1>4 DEF Read, TypeOK
    <2>2. 1 \in 1..Len(stream) /\ Len(stream) \in 1..Len(stream)
      BY <2>1, Taken
    <2>3. PICK n \in {1, Len(stream)} :
            receiver' = SubSeq(stream, 1, n) /\ stream' = SubSeq(stream, n + 1, Len(stream))
      BY <1>4 DEF Read
    <2>4. receiver' \in Seq(Seqno) /\ stream' \in Seq(Seqno)
      BY <2>1, <2>2, <2>3, Cut
    <2>. QED BY <1>4, <2>4 DEF Read, TypeOK, clientVars
  <1>5. CASE PassSlice
    <2>1. rcv_read_ch' \in Seq(Seq(Seqno)) /\ Len(rcv_read_ch') = Len(rcv_read_ch) + 1
      BY <1>5, Appended DEF PassSlice, TypeOK
    <2>2. Len(rcv_read_ch') <= ReadCap
      BY <1>1, <1>5, <2>1, Room DEF PassSlice
    <2>3. receiver' \in Seq(Seqno)
      BY <1>5 DEF PassSlice
    <2>. QED BY <1>5, <2>1, <2>2, <2>3 DEF PassSlice, TypeOK, clientVars, socketVars
  <1>6. CASE Answer
    <2>1. PICK n \in 1..Len(received) :
            /\ stream' = Append(stream, received[n])
            /\ received' = SubSeq(received, 1, n - 1) \o SubSeq(received, n + 1, Len(received))
            /\ served' = served \cup ({received[n]} \ {0})
      BY <1>6 DEF Answer
    <2>2. received \in Seq(Seqno) /\ received[n] \in Seqno /\ stream \in Seq(Seqno)
      BY DEF TypeOK
    <2>3. stream' \in Seq(Seqno)
      BY <2>1, <2>2, Appended
    <2>4. received' \in Seq(Seqno)
      BY <2>1, <2>2, Cut
    <2>5. served' \subseteq Seqno
      BY <2>1, <2>2 DEF TypeOK
    <2>. QED BY <1>6, <2>3, <2>4, <2>5 DEF Answer, TypeOK, clientVars, readerVars
  <1>7. CASE AnswerAgain
    <2>1. PICK s \in served : stream' = Append(stream, s)
      BY <1>7 DEF AnswerAgain
    <2>2. stream' \in Seq(Seqno)
      BY <2>1, Appended DEF TypeOK
    <2>3. extra' \in 0..MaxExtra
      BY <1>7, BoundAssumption DEF AnswerAgain, TypeOK
    <2>. QED BY <1>7, <2>2, <2>3 DEF AnswerAgain, TypeOK, clientVars, readerVars
  <1>8. CASE Disconnected
    <2>1. stream' \in Seq(Seqno)
      <3>1. <<>> \in Seq(Seqno)
        OBVIOUS
      <3>2. stream' = stream \/ stream' = <<>>
        BY <1>8 DEF Disconnected
      <3>. QED BY <3>1, <3>2 DEF TypeOK
    <2>2. connected' \in BOOLEAN
      BY <1>8, Zenon DEF Disconnected
    <2>. QED BY <1>8, <2>1, <2>2 DEF Disconnected, TypeOK, clientVars, readerVars
  <1>. QED BY <1>2, <1>3, <1>4, <1>5, <1>6, <1>7, <1>8 DEF ServerStep

LEMMA BufStep == ASSUME TypeOK, BufInv, Next PROVE BufInv'
  <1>1. CASE Read
    <2>1. stream \in Seq(Seqno) /\ stream # <<>>
      BY <1>1 DEF Read, TypeOK
    <2>2. 1 \in 1..Len(stream) /\ Len(stream) \in 1..Len(stream)
      BY <2>1, Taken
    <2>3. receiver' # <<>> /\ buf' = receiver'
      BY <1>1, <2>1, <2>2, Cut DEF Read
    <2>. QED BY <2>3 DEF BufInv
  <1>2. CASE PassSlice
    BY <1>2 DEF PassSlice, BufInv
  <1>3. CASE TakeMessage
    BY <1>3 DEF TakeMessage, BufInv, readerVars
  <1>4. CASE UNCHANGED <<readerVars, rcv_read_ch>>
    BY <1>4 DEF BufInv, readerVars
  <1>. QED BY <1>1, <1>2, <1>3, <1>4
           DEF Next, CallerStep, SendRecv, PushCall, SendRecvAsync, PushAsync, PassAnswerOn,
               Consume, RunStep, TakeCall, PassToSender, Deliver, DeliverAsync, Write,
               ServerStep, Answer, AnswerAgain, Disconnected

-----------------------------------------------------------------------------
(* Calls.                                                                  *)

LEMMA CallFacts ==
  ASSUME TypeOK
  PROVE  /\ \A c \in Caller : /\ caller[c].pc \in {"idle", "async", "send", "wait", "answered"}
                              /\ caller[c].seqno \in Seqno /\ caller[c].seqno \in Nat
         /\ \A n \in 1..Len(call_send_ch) : /\ call_send_ch[n].sch \in Caller \cup {None}
                                            /\ call_send_ch[n].seqno \in Seqno
         /\ \A s \in Seqno : sync_map[s] \in Caller \cup {None}
         /\ run.to \in Caller \cup {None} /\ run.seqno \in Seqno
         /\ seqno \in Nat /\ calls \in Nat /\ None \notin Caller
  <1>1. \A n \in 1..Len(call_send_ch) : call_send_ch[n] \in CallType
    BY DEF TypeOK
  <1>2. \A c \in Caller : /\ caller[c].pc \in {"idle", "async", "send", "wait", "answered"}
                          /\ caller[c].seqno \in Seqno /\ caller[c].seqno \in Nat
    BY Numbers DEF TypeOK, CallerType
  <1>3. \A n \in 1..Len(call_send_ch) : /\ call_send_ch[n].sch \in Caller \cup {None}
                                        /\ call_send_ch[n].seqno \in Seqno
    BY <1>1 DEF CallType
  <1>4. run.to \in Caller \cup {None} /\ run.seqno \in Seqno
    BY DEF TypeOK, RunType
  <1>5. \A s \in Seqno : sync_map[s] \in Caller \cup {None}
    BY DEF TypeOK
  <1>6. seqno \in Nat /\ calls \in Nat /\ None \notin Caller
    BY Numbers, CallerAssumption, BoundAssumption DEF TypeOK
  <1>. QED BY <1>2, <1>3, <1>4, <1>5, <1>6

\* A caller that is not waiting is in none of the three places.
LEMMA NotThere ==
  ASSUME Inv, NEW c \in Caller, caller[c].pc # "wait"
  PROVE  /\ \A n \in 1..Len(call_send_ch) : call_send_ch[n].sch # c
         /\ \A s \in Seqno : sync_map[s] # c
         /\ ~(run.pc = "deliver" /\ run.to = c)
  BY CallFacts DEF Inv, CallInv, QueueInv, MapInv, RunInv, Waits

\* A new number is nobody else's.
LEMMA CallSendRecv == ASSUME Inv, NEW c \in Caller, SendRecv(c) PROVE CallInv'
  <1>1. /\ caller[c].pc = "idle" /\ calls < MaxCalls /\ calls' = calls + 1
        /\ seqno' = NextSeqno(seqno)
        /\ UNCHANGED <<call_send_ch, run, sync_map>>
    BY DEF SendRecv
  <1>2. /\ caller'[c].pc = "send" /\ caller'[c].seqno = NextSeqno(seqno)
        /\ \A d \in Caller : d # c => caller'[d] = caller[d]
    BY DEF SendRecv, Inv, TypeOK
  <1>3. /\ \A n \in 1..Len(call_send_ch) : call_send_ch[n].sch # c
        /\ \A s \in Seqno : sync_map[s] # c
        /\ ~(run.pc = "deliver" /\ run.to = c)
    BY <1>1, NotThere
  <1>4. QueueInv'
    BY <1>1, <1>2, <1>3, CallFacts DEF Inv, CallInv, QueueInv, Waits
  <1>5. MapInv'
    BY <1>1, <1>2, <1>3, CallFacts DEF Inv, CallInv, MapInv, Waits
  <1>6. RunInv'
    BY <1>1, <1>2, <1>3, CallFacts DEF Inv, CallInv, RunInv, Waits
  <1>7. WaitInv'
    BY <1>1, <1>2 DEF Inv, CallInv, WaitInv
  <1>8. DistInv' /\ LapInv'
    <2>1. CASE Caller = {Consumer}
      BY <2>1 DEF DistInv, LapInv
    <2>2. CASE Caller # {Consumer}
      <3>1. seqno <= calls /\ \A d \in Caller : caller[d].seqno <= seqno
        BY <2>2 DEF Inv, CallInv, LapInv
      <3>2. MaxCalls <= MaxSeq /\ MaxSeq \in Nat /\ MaxCalls \in Nat
        BY <2>2, LapAssumption, BoundAssumption
      <3>3. seqno \in Nat /\ calls \in Nat /\ seqno \in Seqno
        BY CallFacts DEF Inv, TypeOK
      <3>4. seqno # MaxSeq
        BY <1>1, <3>1, <3>2, <3>3
      <3>5. NextSeqno(seqno) = seqno + 1
        BY <3>3, <3>4, Numbers
      <3>6. \A d \in Caller : caller[d].seqno \in Nat
        BY CallFacts DEF Inv
      <3>7. \A d \in Caller : caller[d].seqno # seqno + 1 /\ caller[d].seqno <= seqno + 1
        BY <3>1, <3>3, <3>6
      <3>8. DistInv'
        BY <1>2, <3>5, <3>7 DEF Inv, CallInv, DistInv
      <3>9. seqno + 1 <= calls + 1 /\ seqno + 1 <= seqno + 1
        BY <3>1, <3>3
      <3>10. LapInv'
        BY <1>1, <1>2, <3>5, <3>7, <3>9 DEF LapInv
      <3>. QED BY <3>8, <3>10
    <2>. QED BY <2>1, <2>2
  <1>. QED BY <1>4, <1>5, <1>6, <1>7, <1>8 DEF CallInv

LEMMA CallPushCall == ASSUME Inv, NEW c \in Caller, PushCall(c) PROVE CallInv'
  <1>1. /\ caller[c].pc = "send"
        /\ call_send_ch' = Append(call_send_ch, [seqno |-> caller[c].seqno, sch |-> c])
        /\ UNCHANGED <<seqno, calls, run, sync_map>>
    BY DEF PushCall
  <1>2. /\ caller'[c].pc = "wait" /\ caller'[c].seqno = caller[c].seqno
        /\ \A d \in Caller : d # c => caller'[d] = caller[d]
    BY DEF PushCall, Inv, TypeOK, CallerType
  <1>3. /\ \A n \in 1..Len(call_send_ch) : call_send_ch[n].sch # c
        /\ \A s \in Seqno : sync_map[s] # c
        /\ ~(run.pc = "deliver" /\ run.to = c)
    BY <1>1, NotThere
  <1>4. [seqno |-> caller[c].seqno, sch |-> c] \in CallType
    BY CallFacts DEF Inv, CallType
  <1>5. /\ Len(call_send_ch') = Len(call_send_ch) + 1 /\ Len(call_send_ch) \in Nat
        /\ \A n \in 1..Len(call_send_ch) : call_send_ch'[n] = call_send_ch[n]
        /\ call_send_ch'[Len(call_send_ch) + 1] = [seqno |-> caller[c].seqno, sch |-> c]
    BY <1>1, <1>4, Appended DEF Inv, TypeOK
  <1>6. \A n \in 1..Len(call_send_ch') : n \in 1..Len(call_send_ch) \/ n = Len(call_send_ch) + 1
    BY <1>5
  <1>7. Len(call_send_ch) + 1 \in 1..Len(call_send_ch')
        /\ \A n \in 1..Len(call_send_ch) : n \in 1..Len(call_send_ch')
    BY <1>5
  <1>8. QueueInv'
    <2>1. ASSUME NEW n \in 1..Len(call_send_ch'), call_send_ch'[n].sch # None
          PROVE  /\ Waits(call_send_ch[n].sch, call_send_ch[n].seqno)'
                 /\ \A s \in Seqno : sync_map'[s] # call_send_ch'[n].sch
                 /\ ~(run'.pc = "deliver" /\ run'.to = call_send_ch'[n].sch)
      <3>1. CASE n \in 1..Len(call_send_ch)
        BY <1>1, <1>2, <1>3, <1>5, <2>1, <3>1, CallFacts DEF Inv, CallInv, QueueInv, Waits
      <3>2. CASE n = Len(call_send_ch) + 1
        BY <1>1, <1>2, <1>3, <1>5, <3>2 DEF Waits
      <3>. QED BY <1>6, <3>1, <3>2
    <2>2. ASSUME NEW m \in 1..Len(call_send_ch'), NEW n \in 1..Len(call_send_ch'),
                 call_send_ch'[m].sch # None, call_send_ch'[m].sch = call_send_ch'[n].sch
          PROVE  m = n
      BY <1>3, <1>5, <1>6, <2>2 DEF Inv, CallInv, QueueInv
    <2>. QED BY <2>1, <2>2 DEF QueueInv
  <1>9. MapInv'
    BY <1>1, <1>2, <1>3, CallFacts DEF Inv, CallInv, MapInv, Waits
  <1>10. RunInv'
    BY <1>1, <1>2, <1>3, CallFacts DEF Inv, CallInv, RunInv, Waits
  <1>11. WaitInv'
    <2>. SUFFICES ASSUME NEW d \in Caller, caller'[d].pc = "wait"
                  PROVE  \/ \E n \in 1..Len(call_send_ch') : call_send_ch'[n].sch = d
                         \/ sync_map'[caller'[d].seqno] = d
                         \/ run'.pc = "deliver" /\ run'.to = d
      BY DEF WaitInv
    <2>1. CASE d = c
      BY <1>5, <1>7, <2>1
    <2>2. CASE d # c
      BY <1>1, <1>2, <1>5, <1>7, <2>2 DEF Inv, CallInv, WaitInv
    <2>. QED BY <2>1, <2>2
  <1>12. DistInv' /\ LapInv'
    BY <1>1, <1>2 DEF Inv, CallInv, DistInv, LapInv
  <1>. QED BY <1>8, <1>9, <1>10, <1>11, <1>12 DEF CallInv

LEMMA CallSendRecvAsync == ASSUME Inv, NEW c \in Caller, SendRecvAsync(c) PROVE CallInv'
  <1>1. /\ caller[c].pc = "idle" /\ calls' = calls + 1
        /\ UNCHANGED <<seqno, call_send_ch, run, sync_map>>
    BY DEF SendRecvAsync
  <1>2. /\ caller'[c].pc = "async" /\ caller'[c].seqno = 0
        /\ \A d \in Caller : d # c => caller'[d] = caller[d]
    BY DEF SendRecvAsync, Inv, TypeOK
  <1>3. /\ \A n \in 1..Len(call_send_ch) : call_send_ch[n].sch # c
        /\ \A s \in Seqno : sync_map[s] # c
        /\ ~(run.pc = "deliver" /\ run.to = c)
    BY <1>1, NotThere
  <1>4. QueueInv'
    BY <1>1, <1>2, <1>3, CallFacts DEF Inv, CallInv, QueueInv, Waits
  <1>5. MapInv'
    BY <1>1, <1>2, <1>3, CallFacts DEF Inv, CallInv, MapInv, Waits
  <1>6. RunInv'
    BY <1>1, <1>2, <1>3, CallFacts DEF Inv, CallInv, RunInv, Waits
  <1>7. WaitInv' /\ DistInv'
    BY <1>1, <1>2 DEF Inv, CallInv, WaitInv, DistInv
  <1>8. LapInv'
    <2>1. 0 <= seqno /\ (seqno <= calls => seqno <= calls + 1)
      BY CallFacts DEF Inv
    <2>. QED BY <1>1, <1>2, <2>1 DEF Inv, CallInv, LapInv
  <1>. QED BY <1>4, <1>5, <1>6, <1>7, <1>8 DEF CallInv

LEMMA CallPushAsync == ASSUME Inv, NEW c \in Caller, PushAsync(c) PROVE CallInv'
  <1>1. /\ caller[c].pc = "async"
        /\ call_send_ch' = Append(call_send_ch, [seqno |-> 0, sch |-> None])
        /\ UNCHANGED <<seqno, calls, run, sync_map>>
    BY DEF PushAsync
  <1>2. /\ caller'[c].pc = "idle" /\ caller'[c].seqno = 0
        /\ \A d \in Caller : d # c => caller'[d] = caller[d]
    BY DEF PushAsync, Inv, TypeOK
  <1>3. /\ \A n \in 1..Len(call_send_ch) : call_send_ch[n].sch # c
        /\ \A s \in Seqno : sync_map[s] # c
        /\ ~(run.pc = "deliver" /\ run.to = c)
    BY <1>1, NotThere
  <1>4. [seqno |-> 0, sch |-> None] \in CallType
    BY Numbers DEF CallType
  <1>5. /\ Len(call_send_ch') = Len(call_send_ch) + 1 /\ Len(call_send_ch) \in Nat
        /\ \A n \in 1..Len(call_send_ch) : call_send_ch'[n] = call_send_ch[n]
        /\ call_send_ch'[Len(call_send_ch) + 1].sch = None
    BY <1>1, <1>4, Appended DEF Inv, TypeOK
  <1>6. /\ \A n \in 1..Len(call_send_ch') : n \in 1..Len(call_send_ch) \/ n = Len(call_send_ch) + 1
        /\ \A n \in 1..Len(call_send_ch) : n \in 1..Len(call_send_ch')
    BY <1>5
  <1>7. QueueInv'
    <2>1. ASSUME NEW n \in 1..Len(call_send_ch'), call_send_ch'[n].sch # None
          PROVE  /\ n \in 1..Len(call_send_ch)
                 /\ Waits(call_send_ch[n].sch, call_send_ch[n].seqno)'
                 /\ \A s \in Seqno : sync_map'[s] # call_send_ch'[n].sch
                 /\ ~(run'.pc = "deliver" /\ run'.to = call_send_ch'[n].sch)
      <3>1. n \in 1..Len(call_send_ch)
        BY <1>5, <1>6, <2>1
      <3>. QED BY <1>1, <1>2, <1>3, <1>5, <2>1, <3>1, CallFacts DEF Inv, CallInv, QueueInv, Waits
    <2>2. ASSUME NEW m \in 1..Len(call_send_ch'), NEW n \in 1..Len(call_send_ch'),
                 call_send_ch'[m].sch # None, call_send_ch'[m].sch = call_send_ch'[n].sch
          PROVE  m = n
      BY <1>5, <1>6, <2>2 DEF Inv, CallInv, QueueInv
    <2>. QED BY <2>1, <2>2 DEF QueueInv
  <1>8. MapInv'
    BY <1>1, <1>2, <1>3, CallFacts DEF Inv, CallInv, MapInv, Waits
  <1>9. RunInv'
    BY <1>1, <1>2, <1>3, CallFacts DEF Inv, CallInv, RunInv, Waits
  <1>10. WaitInv'
    BY <1>1, <1>2, <1>5, <1>6 DEF Inv, CallInv, WaitInv
  <1>11. DistInv'
    BY <1>1, <1>2 DEF Inv, CallInv, DistInv
  <1>12. LapInv'
    <2>1. 0 <= seqno
      BY CallFacts DEF Inv
    <2>. QED BY <1>1, <1>2, <2>1 DEF Inv, CallInv, LapInv
  <1>. QED BY <1>7, <1>8, <1>9, <1>10, <1>11, <1>12 DEF CallInv

LEMMA CallPassAnswerOn == ASSUME Inv, NEW c \in Caller, PassAnswerOn(c) PROVE CallInv'
  <1>1. /\ caller[c].pc = "answered" /\ UNCHANGED <<seqno, calls, call_send_ch, run, sync_map>>
    BY DEF PassAnswerOn
  <1>2. /\ caller'[c].pc = "idle" /\ caller'[c].seqno = 0
        /\ \A d \in Caller : d # c => caller'[d] = caller[d]
    BY DEF PassAnswerOn, Inv, TypeOK
  <1>3. /\ \A n \in 1..Len(call_send_ch) : call_send_ch[n].sch # c
        /\ \A s \in Seqno : sync_map[s] # c
        /\ ~(run.pc = "deliver" /\ run.to = c)
    BY <1>1, NotThere
  <1>4. QueueInv'
    BY <1>1, <1>2, <1>3, CallFacts DEF Inv, CallInv, QueueInv, Waits
  <1>5. MapInv'
    BY <1>1, <1>2, <1>3, CallFacts DEF Inv, CallInv, MapInv, Waits
  <1>6. RunInv'
    BY <1>1, <1>2, <1>3, CallFacts DEF Inv, CallInv, RunInv, Waits
  <1>7. WaitInv' /\ DistInv'
    BY <1>1, <1>2 DEF Inv, CallInv, WaitInv, DistInv
  <1>8. LapInv'
    <2>1. 0 <= seqno
      BY CallFacts DEF Inv
    <2>. QED BY <1>1, <1>2, <2>1 DEF Inv, CallInv, LapInv
  <1>. QED BY <1>4, <1>5, <1>6, <1>7, <1>8 DEF CallInv

\* From the queue into the map: nobody else is registered under the number.
LEMMA CallTakeCall == ASSUME Inv, TakeCall PROVE CallInv'
  <1>. DEFINE w == Head(call_send_ch)
  <1>1. /\ run.pc = "select" /\ run'.pc = "write" /\ call_send_ch # <<>>
        /\ call_send_ch' = Tail(call_send_ch) /\ sync_map' = _setSyncMap(w)
        /\ UNCHANGED <<seqno, calls, caller>>
    BY DEF TakeCall, AtSelect, clientVars
  <1>2. /\ w \in CallType /\ w = call_send_ch[1] /\ Len(call_send_ch) \in Nat
        /\ Len(call_send_ch') = Len(call_send_ch) - 1 /\ 1 \in 1..Len(call_send_ch)
        /\ \A n \in 1..Len(call_send_ch') :
             call_send_ch'[n] = call_send_ch[n + 1] /\ n + 1 \in 1..Len(call_send_ch)
    BY <1>1, Taken DEF Inv, TypeOK
  <1>3. w.seqno \in Seqno /\ w.sch \in Caller \cup {None}
    BY <1>2 DEF CallType
  <1>4. w.sch # None =>
          /\ Waits(w.sch, w.seqno) /\ \A s \in Seqno : sync_map[s] # w.sch
          /\ \A n \in 1..Len(call_send_ch') : call_send_ch'[n].sch # w.sch
    <2>1. \A n \in 1..Len(call_send_ch') : n + 1 # 1
      BY <1>2
    <2>. QED BY <1>2, <2>1 DEF Inv, CallInv, QueueInv
  <1>5. w.sch # None => sync_map[w.seqno] = None
    <2>. SUFFICES ASSUME w.sch # None, sync_map[w.seqno] # None PROVE FALSE
      OBVIOUS
    <2>1. Waits(sync_map[w.seqno], w.seqno) /\ sync_map[w.seqno] \in Caller
      BY <1>3, CallFacts DEF Inv, CallInv, MapInv
    <2>. QED BY <1>3, <1>4, <2>1 DEF Inv, CallInv, DistInv, Waits
  <1>6. /\ w.sch # None => sync_map'[w.seqno] = w.sch
        /\ \A s \in Seqno : sync_map'[s] = sync_map[s] \/ (w.sch # None /\ s = w.seqno)
    BY <1>1, <1>3, <1>5 DEF _setSyncMap, Inv, TypeOK
  <1>. HIDE DEF w
  <1>7. QueueInv'
    <2>1. ASSUME NEW n \in 1..Len(call_send_ch'), call_send_ch'[n].sch # None
          PROVE  /\ Waits(call_send_ch[n].sch, call_send_ch[n].seqno)'
                 /\ \A s \in Seqno : sync_map'[s] # call_send_ch'[n].sch
                 /\ ~(run'.pc = "deliver" /\ run'.to = call_send_ch'[n].sch)
      <3>1. /\ Waits(call_send_ch'[n].sch, call_send_ch'[n].seqno)
            /\ \A s \in Seqno : sync_map[s] # call_send_ch'[n].sch
        BY <1>2, <2>1 DEF Inv, CallInv, QueueInv
      <3>2. \A s \in Seqno : sync_map'[s] # call_send_ch'[n].sch
        BY <1>4, <1>6, <3>1
      <3>. QED BY <1>1, <3>1, <3>2 DEF Waits
    <2>2. ASSUME NEW m \in 1..Len(call_send_ch'), NEW n \in 1..Len(call_send_ch'),
                 call_send_ch'[m].sch # None, call_send_ch'[m].sch = call_send_ch'[n].sch
          PROVE  m = n
      <3>1. m + 1 = n + 1
        BY <1>2, <2>2 DEF Inv, CallInv, QueueInv
      <3>. QED BY <1>2, <3>1
    <2>. QED BY <2>1, <2>2 DEF QueueInv
  <1>8. MapInv'
    <2>. SUFFICES ASSUME NEW s \in Seqno, sync_map'[s] # None
                  PROVE  Waits(sync_map[s], s)'
      BY <1>1 DEF MapInv
    <2>1. Waits(sync_map'[s], s)
      BY <1>4, <1>6 DEF Inv, CallInv, MapInv
    <2>. QED BY <1>1, <2>1 DEF Waits
  <1>9. RunInv'
    BY <1>1 DEF RunInv
  <1>10. WaitInv'
    <2>. SUFFICES ASSUME NEW c \in Caller, caller[c].pc = "wait"
                  PROVE  \/ \E n \in 1..Len(call_send_ch') : call_send_ch'[n].sch = c
                         \/ sync_map'[caller[c].seqno] = c
      BY <1>1 DEF WaitInv
    <2>1. None \notin Caller /\ caller[c].seqno \in Seqno
      BY CallFacts DEF Inv
    <2>2. CASE sync_map[caller[c].seqno] = c
      BY <1>5, <1>6, <2>1, <2>2
    <2>3. ASSUME NEW n \in 1..Len(call_send_ch), call_send_ch[n].sch = c
          PROVE  \/ \E k \in 1..Len(call_send_ch') : call_send_ch'[k].sch = c
                 \/ sync_map'[caller[c].seqno] = c
      <3>1. CASE n = 1
        <4>1. w.sch = c /\ w.sch # None
          BY <1>2, <2>1, <2>3, <3>1
        <4>2. w.seqno = caller[c].seqno
          BY <1>4, <4>1 DEF Waits
        <4>. QED BY <1>6, <4>1, <4>2
      <3>2. CASE n # 1
        <4>1. n - 1 \in 1..Len(call_send_ch') /\ (n - 1) + 1 = n
          BY <1>2, <3>2
        <4>2. call_send_ch'[n - 1] = call_send_ch[n]
          BY <1>2, <4>1
        <4>. QED BY <2>3, <4>1, <4>2
      <3>. QED BY <3>1, <3>2
    <2>. QED BY <1>1, <2>2, <2>3 DEF Inv, CallInv, WaitInv
  <1>11. DistInv' /\ LapInv'
    BY <1>1 DEF Inv, CallInv, DistInv, LapInv
  <1>. QED BY <1>7, <1>8, <1>9, <1>10, <1>11 DEF CallInv

\* From the map to Run, or past the calls altogether.
LEMMA CallTakeMessage == ASSUME Inv, TakeMessage PROVE CallInv'
  <1>1. /\ run.pc = "select" /\ rcv_read_ch # <<>>
        /\ UNCHANGED <<seqno, calls, caller, call_send_ch>>
    BY DEF TakeMessage, clientVars
  <1>2. PICK s \in ParsedSeqnos(Head(rcv_read_ch)) :
          \/ /\ sync_map[s] # None
             /\ sync_map' = _removeSyncMap(s)
             /\ run' = [pc |-> "deliver", seqno |-> s, to |-> sync_map[s]]
          \/ /\ run' = [AtSelect EXCEPT !.pc = "async", !.seqno = s] /\ UNCHANGED sync_map
    BY DEF TakeMessage
  <1>3. s \in Seqno
    BY <1>1, Parsed DEF Inv
  <1>4. CASE /\ run' = [AtSelect EXCEPT !.pc = "async", !.seqno = s] /\ UNCHANGED sync_map
    <2>1. run'.pc = "async"
      BY <1>4 DEF AtSelect
    <2>. QED BY <1>1, <1>4, <2>1
             DEF Inv, CallInv, QueueInv, MapInv, RunInv, WaitInv, DistInv, LapInv, Waits
  <1>5. CASE /\ sync_map[s] # None /\ sync_map' = _removeSyncMap(s)
             /\ run' = [pc |-> "deliver", seqno |-> s, to |-> sync_map[s]]
    <2>1. /\ sync_map'[s] = None /\ \A t \in Seqno : t # s => sync_map'[t] = sync_map[t]
      BY <1>3, <1>5 DEF _removeSyncMap, Inv, TypeOK
    <2>2. run'.pc = "deliver" /\ run'.seqno = s /\ run'.to = sync_map[s]
      BY <1>5
    <2>3. Waits(sync_map[s], s) /\ sync_map[s] \in Caller
      BY <1>3, <1>5, CallFacts DEF Inv, CallInv, MapInv
    <2>4. QueueInv'
      <3>1. \A n \in 1..Len(call_send_ch) : call_send_ch[n].sch # None =>
              /\ \A t \in Seqno : sync_map'[t] # call_send_ch[n].sch
              /\ sync_map[s] # call_send_ch[n].sch
        BY <1>3, <2>1 DEF Inv, CallInv, QueueInv
      <3>. QED BY <1>1, <2>2, <3>1 DEF Inv, CallInv, QueueInv, Waits
    <2>5. MapInv'
      <3>. SUFFICES ASSUME NEW t \in Seqno, sync_map'[t] # None
                    PROVE  Waits(sync_map[t], t)' /\ run'.to # sync_map'[t]
        BY DEF MapInv
      <3>1. t # s /\ sync_map'[t] = sync_map[t]
        BY <2>1
      <3>2. Waits(sync_map[t], t)
        BY <3>1 DEF Inv, CallInv, MapInv
      <3>3. sync_map[t] # sync_map[s]
        BY <2>3, <3>1, <3>2 DEF Waits
      <3>. QED BY <1>1, <2>2, <3>1, <3>2, <3>3 DEF Waits
    <2>6. RunInv'
      BY <1>1, <1>5, <2>2, <2>3 DEF RunInv, Waits
    <2>7. WaitInv'
      <3>. SUFFICES ASSUME NEW c \in Caller, caller[c].pc = "wait"
                    PROVE  \/ \E n \in 1..Len(call_send_ch) : call_send_ch[n].sch = c
                           \/ sync_map'[caller[c].seqno] = c
                           \/ run'.to = c
        BY <1>1, <2>2 DEF WaitInv
      <3>1. caller[c].seqno \in Seqno
        BY CallFacts DEF Inv
      <3>. QED BY <1>1, <2>1, <2>2, <3>1 DEF Inv, CallInv, WaitInv
    <2>8. DistInv' /\ LapInv'
      BY <1>1 DEF Inv, CallInv, DistInv, LapInv
    <2>. QED BY <2>4, <2>5, <2>6, <2>7, <2>8 DEF CallInv
  <1>. QED BY <1>2, <1>4, <1>5

\* From Run to the caller: nothing of the call is left behind.
LEMMA CallDeliver == ASSUME Inv, Deliver PROVE CallInv'
  <1>1. /\ run.pc = "deliver" /\ run'.pc = "select"
        /\ UNCHANGED <<seqno, calls, call_send_ch, sync_map>>
    BY DEF Deliver, AtSelect
  <1>2. run.to \in Caller
    BY <1>1, CallFacts DEF Inv, CallInv, RunInv
  <1>3. /\ caller'[run.to].pc = "answered" /\ caller'[run.to].seqno = caller[run.to].seqno
        /\ \A d \in Caller : d # run.to => caller'[d] = caller[d]
    BY <1>2 DEF Deliver, Inv, TypeOK, CallerType
  <1>4. /\ \A n \in 1..Len(call_send_ch) : call_send_ch[n].sch # run.to
        /\ \A s \in Seqno : sync_map[s] # run.to
    BY <1>1, <1>2, CallFacts DEF Inv, CallInv, QueueInv, MapInv
  <1>5. QueueInv'
    BY <1>1, <1>3, <1>4, CallFacts DEF Inv, CallInv, QueueInv, Waits
  <1>6. MapInv'
    BY <1>1, <1>3, <1>4, CallFacts DEF Inv, CallInv, MapInv, Waits
  <1>7. RunInv'
    BY <1>1 DEF RunInv
  <1>8. caller[run.to].pc = "wait"
    BY <1>1 DEF Inv, CallInv, RunInv, Waits
  <1>9. WaitInv'
    BY <1>1, <1>3 DEF Inv, CallInv, WaitInv
  <1>10. DistInv'
    BY <1>3, <1>8 DEF Inv, CallInv, DistInv
  <1>11. LapInv'
    BY <1>1, <1>3 DEF Inv, CallInv, LapInv
  <1>. QED BY <1>5, <1>6, <1>7, <1>9, <1>10, <1>11 DEF CallInv

LEMMA InvNext == Inv /\ [Next]_vars => Inv'
  <1>. SUFFICES ASSUME Inv, [Next]_vars PROVE Inv'
    OBVIOUS
  <1>1. CASE UNCHANGED vars
    BY <1>1 DEF vars, clientVars, socketVars, readerVars, Inv, TypeOK, BufInv, CallInv, QueueInv,
                MapInv, RunInv, WaitInv, DistInv, LapInv, Waits
  <1>2. CASE Next
    <2>1. TypeOK'
      BY <1>2, CallerTypes, RunTypes, SocketTypes DEF Next, Inv
    <2>2. BufInv'
      BY <1>2, BufStep DEF Inv
    <2>3. CallInv'
      <3>1. ASSUME NEW c \in Caller, CallerStep(c) PROVE CallInv'
        BY <3>1, CallSendRecv, CallPushCall, CallSendRecvAsync, CallPushAsync, CallPassAnswerOn
           DEF CallerStep
      <3>2. CASE PassToSender \/ DeliverAsync
        <4>1. run.pc # "deliver" /\ run'.pc = "select" /\ UNCHANGED <<clientVars, call_send_ch, sync_map>>
          BY <3>2 DEF PassToSender, DeliverAsync, AtSelect
        <4>. QED BY <4>1 DEF Inv, CallInv, QueueInv, MapInv, RunInv, WaitInv, DistInv, LapInv, Waits,
                             clientVars
      <3>3. CASE Consume \/ Write \/ Read \/ PassSlice \/ ServerStep
        <4>1. UNCHANGED <<clientVars, call_send_ch, run, sync_map>>
          BY <3>3 DEF Consume, Write, Read, PassSlice, ServerStep, Answer, AnswerAgain, Disconnected
        <4>. QED BY <4>1 DEF Inv, CallInv, QueueInv, MapInv, RunInv, WaitInv, DistInv, LapInv, Waits,
                             clientVars
      <3>. QED BY <1>2, <3>1, <3>2, <3>3, CallTakeCall, CallTakeMessage, CallDeliver DEF Next, RunStep
    <2>. QED BY <2>1, <2>2, <2>3 DEF Inv
  <1>. QED BY <1>1, <1>2

LEMMA InvHolds == Spec => []Inv
  BY InvInit, InvNext, PTL DEF Spec

-----------------------------------------------------------------------------
\* Every variable has the values its Go counterpart can take: the counter stays within
\* its width, and no channel holds more than its capacity.
THEOREM TypeCorrect == Spec => []TypeOK
  <1>1. Inv => TypeOK
    BY DEF Inv
  <1>. QED BY <1>1, InvHolds, PTL

\* A call that waits is on its way to Run, registered, or about to be answered.
THEOREM NoneMissed == Spec => []NoAnswerMissed
  <1>1. Inv => NoAnswerMissed
    <2>. SUFFICES ASSUME Inv, NEW c \in Caller, caller[c].pc = "wait"
                  PROVE  \/ \E n \in 1..Len(call_send_ch) :
                              call_send_ch[n] = [seqno |-> caller[c].seqno, sch |-> c]
                         \/ sync_map[caller[c].seqno] = c
                         \/ run.pc = "deliver" /\ run.to = c
      BY DEF NoAnswerMissed
    <2>1. ASSUME NEW n \in 1..Len(call_send_ch), call_send_ch[n].sch = c
          PROVE  call_send_ch[n] = [seqno |-> caller[c].seqno, sch |-> c]
      <3>1. call_send_ch[n] \in CallType /\ c # None
        BY CallFacts DEF Inv, TypeOK
      <3>2. call_send_ch[n].seqno = caller[c].seqno
        BY <2>1, <3>1 DEF Inv, CallInv, QueueInv, Waits
      <3>. QED BY <2>1, <3>1, <3>2 DEF CallType
    <2>. QED BY <2>1 DEF Inv, CallInv, WaitInv
  <1>. QED BY <1>1, InvHolds, PTL
-----------------------------------------------------------------------------
(* The refinement: SendRecv is a remote call.                              *)

\* Nothing arrives that the server has not answered.
StreamInv == {stream, buf} \subseteq Seq(served \cup {0})

\* Numbers the server may be asked for: of calls that wait, or answered already; 0 is
\* that of asynchronous requests.
Asked == served \cup {0} \cup {caller[c].seqno : c \in {d \in Caller : caller[d].pc = "wait"}}

\* What is on its way to the server was asked.
RequestInv ==
  /\ \A n \in 1..Len(call_send_ch) : call_send_ch[n].seqno \in Asked
  /\ run.pc = "write" => run.seqno \in Asked
  /\ {snd_write_ch, received} \subseteq Seq(Asked)

\* Just the calls that are under way have a number, and Run delivers what was answered.
CalledInv ==
  /\ \A c \in Caller : (caller[c].pc \in {"idle", "async"}) <=> (caller[c].seqno = 0)
  /\ run.pc = "deliver" => run.seqno \in served

\* Numbers that do not come round are used up one by one.
FreshInv ==
  Fresh => /\ seqno <= calls
           /\ \A c \in Caller : caller[c].seqno <= seqno
           /\ \A s \in served : s <= seqno

RefInv == StreamInv /\ RequestInv /\ CalledInv /\ FreshInv

LEMMA Widened ==
  ASSUME NEW S, NEW T, S \subseteq T, NEW s \in Seq(S)
  PROVE  s \in Seq(T)
  OBVIOUS

LEMMA RefInit == Init => RefInv
  <1>. SUFFICES ASSUME Init PROVE RefInv
    OBVIOUS
  <1>1. StreamInv
    BY DEF Init, StreamInv
  <1>2. Len(<<>>) = 0
    OBVIOUS
  <1>3. RequestInv
    BY <1>2 DEF Init, RequestInv, AtSelect
  <1>4. CalledInv
    BY DEF Init, CalledInv, AtSelect
  <1>5. FreshInv
    BY DEF Init, FreshInv
  <1>. QED BY <1>1, <1>3, <1>4, <1>5 DEF RefInv

\* What was asked stays asked: a call waits until its number is answered.
LEMMA AskedGrows ==
  ASSUME served \subseteq served',
         \A c \in Caller : caller[c].pc = "wait" =>
           \/ caller'[c].pc = "wait" /\ caller'[c].seqno = caller[c].seqno
           \/ caller[c].seqno \in served'
  PROVE  Asked \subseteq Asked'
  BY DEF Asked

\* The requests under way when nothing new is asked.
LEMMA RequestsKept ==
  ASSUME RequestInv, Asked \subseteq Asked', UNCHANGED <<call_send_ch, run, snd_write_ch, received>>
  PROVE  RequestInv'
  <1>1. snd_write_ch \in Seq(Asked') /\ received \in Seq(Asked')
    BY Widened DEF RequestInv
  <1>. QED BY <1>1 DEF RequestInv

LEMMA StreamKept ==
  ASSUME StreamInv, served \subseteq served', UNCHANGED <<stream, buf>>
  PROVE  StreamInv'
  <1>1. served \cup {0} \subseteq served' \cup {0}
    OBVIOUS
  <1>2. stream \in Seq(served' \cup {0}) /\ buf \in Seq(served' \cup {0})
    BY <1>1, Widened DEF StreamInv
  <1>. QED BY <1>2 DEF StreamInv

\* Only the counter gives out numbers; 0 it never gives out.
LEMMA NewNumber ==
  ASSUME Inv, NEW c \in Caller, SendRecv(c)
  PROVE  /\ caller[c].pc = "idle" /\ calls < MaxCalls
         /\ calls' = calls + 1 /\ seqno' = NextSeqno(seqno)
         /\ caller'[c].pc = "send" /\ caller'[c].seqno = NextSeqno(seqno)
         /\ \A d \in Caller : d # c => caller'[d] = caller[d]
         /\ NextSeqno(seqno) \in Seqno \ {0}
         /\ UNCHANGED <<call_send_ch, run, snd_write_ch, received, served, stream, buf>>
  BY Numbers DEF SendRecv, Inv, TypeOK, socketVars, readerVars

LEMMA FreshNumber ==
  ASSUME Inv, FreshInv, Fresh, calls < MaxCalls
  PROVE  /\ NextSeqno(seqno) = seqno + 1
         /\ \A c \in Caller : caller[c].seqno < seqno + 1
         /\ \A s \in served : s < seqno + 1
  <1>1. /\ seqno \in Nat /\ calls \in Nat /\ seqno \in Seqno
        /\ \A c \in Caller : caller[c].seqno \in Nat
    BY CallFacts DEF Inv, TypeOK
  <1>2. \A s \in served : s \in Nat
    BY Numbers DEF Inv, TypeOK
  <1>3. MaxCalls <= MaxSeq /\ MaxSeq \in Nat /\ MaxCalls \in Nat /\ seqno <= calls
    BY BoundAssumption DEF Fresh, FreshInv
  <1>4. seqno # MaxSeq
    BY <1>1, <1>3
  <1>5. NextSeqno(seqno) = seqno + 1
    BY <1>1, <1>4, Numbers
  <1>6. \A n \in Nat : n <= seqno => n < seqno + 1
    BY <1>1
  <1>. QED BY <1>1, <1>2, <1>5, <1>6 DEF FreshInv

LEMMA RefSendRecv == ASSUME Inv, RefInv, NEW c \in Caller, SendRecv(c) PROVE RefInv'
  <1>1. Asked \subseteq Asked'
    BY NewNumber, AskedGrows
  <1>2. StreamInv' /\ RequestInv'
    BY <1>1, NewNumber, StreamKept, RequestsKept DEF RefInv
  <1>3. CalledInv'
    BY NewNumber DEF RefInv, CalledInv
  <1>4. FreshInv'
    <2>. SUFFICES ASSUME Fresh PROVE FreshInv'
      BY DEF FreshInv, Fresh
    <2>1. /\ seqno' = seqno + 1 /\ caller'[c].seqno = seqno + 1
          /\ \A d \in Caller : caller[d].seqno < seqno + 1
          /\ \A s \in served : s < seqno + 1
      BY NewNumber, FreshNumber DEF RefInv
    <2>2. /\ seqno \in Nat /\ calls \in Nat /\ seqno <= calls
          /\ \A d \in Caller : caller[d].seqno \in Nat
      BY CallFacts DEF Inv, RefInv, FreshInv
    <2>3. seqno + 1 <= calls + 1 /\ seqno + 1 <= seqno + 1
      BY <2>2
    <2>4. \A n \in Nat : n < seqno + 1 => n <= seqno + 1
      BY <2>2
    <2>5. \A s \in served : s \in Nat
      BY Numbers DEF Inv, TypeOK
    <2>6. \A d \in Caller : caller'[d].seqno <= seqno + 1
      BY <2>1, <2>2, <2>3, <2>4, NewNumber
    <2>. QED BY <2>1, <2>3, <2>4, <2>5, <2>6, NewNumber DEF FreshInv
  <1>. QED BY <1>2, <1>3, <1>4 DEF RefInv

LEMMA RefPushCall == ASSUME Inv, RefInv, NEW c \in Caller, PushCall(c) PROVE RefInv'
  <1>1. /\ caller[c].pc = "send" /\ UNCHANGED <<seqno, calls, run, snd_write_ch, received, served, stream, buf>>
        /\ call_send_ch' = Append(call_send_ch, [seqno |-> caller[c].seqno, sch |-> c])
    BY DEF PushCall, socketVars, readerVars
  <1>2. /\ caller'[c].pc = "wait" /\ caller'[c].seqno = caller[c].seqno
        /\ \A d \in Caller : d # c => caller'[d] = caller[d]
    BY DEF PushCall, Inv, TypeOK, CallerType
  <1>3. Asked \subseteq Asked' /\ caller[c].seqno \in Asked'
    <2>1. caller[c].seqno \in Asked'
      BY <1>2 DEF Asked
    <2>. QED BY <1>1, <1>2, <2>1, AskedGrows
  <1>4. [seqno |-> caller[c].seqno, sch |-> c] \in CallType
    BY CallFacts DEF Inv, CallType
  <1>5. /\ Len(call_send_ch') = Len(call_send_ch) + 1 /\ Len(call_send_ch) \in Nat
        /\ \A n \in 1..Len(call_send_ch) : call_send_ch'[n] = call_send_ch[n]
        /\ call_send_ch'[Len(call_send_ch) + 1] = [seqno |-> caller[c].seqno, sch |-> c]
    BY <1>1, <1>4, Appended DEF Inv, TypeOK
  <1>6. \A n \in 1..Len(call_send_ch') : n \in 1..Len(call_send_ch) \/ n = Len(call_send_ch) + 1
    BY <1>5
  <1>7. \A n \in 1..Len(call_send_ch') : call_send_ch'[n].seqno \in Asked'
    BY <1>3, <1>5, <1>6 DEF RefInv, RequestInv
  <1>8. RequestInv'
    <2>1. snd_write_ch \in Seq(Asked') /\ received \in Seq(Asked')
      BY <1>3, Widened DEF RefInv, RequestInv
    <2>2. run.pc = "write" => run.seqno \in Asked'
      BY <1>3 DEF RefInv, RequestInv
    <2>. QED BY <1>1, <1>7, <2>1, <2>2 DEF RequestInv
  <1>9. StreamInv' /\ CalledInv' /\ FreshInv'
    BY <1>1, <1>2 DEF RefInv, StreamInv, CalledInv, FreshInv
  <1>. QED BY <1>8, <1>9 DEF RefInv

LEMMA RefSendRecvAsync == ASSUME Inv, RefInv, NEW c \in Caller, SendRecvAsync(c) PROVE RefInv'
  <1>1. /\ caller[c].pc = "idle" /\ calls' = calls + 1
        /\ UNCHANGED <<seqno, call_send_ch, run, snd_write_ch, received, served, stream, buf>>
    BY DEF SendRecvAsync, socketVars, readerVars
  <1>2. /\ caller'[c].pc = "async" /\ caller'[c].seqno = 0
        /\ \A d \in Caller : d # c => caller'[d] = caller[d]
    BY DEF SendRecvAsync, Inv, TypeOK
  <1>3. StreamInv' /\ RequestInv'
    BY <1>1, <1>2, AskedGrows, StreamKept, RequestsKept DEF RefInv
  <1>4. CalledInv'
    BY <1>1, <1>2 DEF RefInv, CalledInv
  <1>5. FreshInv'
    <2>1. 0 <= seqno /\ (seqno <= calls => seqno <= calls + 1)
      BY CallFacts DEF Inv
    <2>. QED BY <1>1, <1>2, <2>1 DEF RefInv, FreshInv, Fresh
  <1>. QED BY <1>3, <1>4, <1>5 DEF RefInv

LEMMA RefPushAsync == ASSUME Inv, RefInv, NEW c \in Caller, PushAsync(c) PROVE RefInv'
  <1>1. /\ caller[c].pc = "async"
        /\ call_send_ch' = Append(call_send_ch, [seqno |-> 0, sch |-> None])
        /\ UNCHANGED <<seqno, calls, run, snd_write_ch, received, served, stream, buf>>
    BY DEF PushAsync, socketVars, readerVars
  <1>2. /\ caller'[c].pc = "idle" /\ caller'[c].seqno = 0
        /\ \A d \in Caller : d # c => caller'[d] = caller[d]
    BY DEF PushAsync, Inv, TypeOK
  <1>3. Asked \subseteq Asked' /\ 0 \in Asked'
    <2>1. 0 \in Asked'
      BY DEF Asked
    <2>. QED BY <1>1, <1>2, <2>1, AskedGrows
  <1>4. [seqno |-> 0, sch |-> None] \in CallType
    BY Numbers DEF CallType
  <1>5. /\ Len(call_send_ch') = Len(call_send_ch) + 1 /\ Len(call_send_ch) \in Nat
        /\ \A n \in 1..Len(call_send_ch) : call_send_ch'[n] = call_send_ch[n]
        /\ call_send_ch'[Len(call_send_ch) + 1] = [seqno |-> 0, sch |-> None]
    BY <1>1, <1>4, Appended DEF Inv, TypeOK
  <1>6. \A n \in 1..Len(call_send_ch') : n \in 1..Len(call_send_ch) \/ n = Len(call_send_ch) + 1
    BY <1>5
  <1>7. \A n \in 1..Len(call_send_ch') : call_send_ch'[n].seqno \in Asked'
    BY <1>3, <1>5, <1>6 DEF RefInv, RequestInv
  <1>8. RequestInv'
    <2>1. snd_write_ch \in Seq(Asked') /\ received \in Seq(Asked')
      BY <1>3, Widened DEF RefInv, RequestInv
    <2>2. run.pc = "write" => run.seqno \in Asked'
      BY <1>3 DEF RefInv, RequestInv
    <2>. QED BY <1>1, <1>7, <2>1, <2>2 DEF RequestInv
  <1>9. StreamInv' /\ CalledInv'
    BY <1>1, <1>2 DEF RefInv, StreamInv, CalledInv
  <1>10. FreshInv'
    <2>1. 0 <= seqno
      BY CallFacts DEF Inv
    <2>. QED BY <1>1, <1>2, <2>1 DEF RefInv, FreshInv, Fresh
  <1>. QED BY <1>8, <1>9, <1>10 DEF RefInv

LEMMA RefPassAnswerOn == ASSUME Inv, RefInv, NEW c \in Caller, PassAnswerOn(c) PROVE RefInv'
  <1>1. /\ caller[c].pc = "answered"
        /\ UNCHANGED <<seqno, calls, call_send_ch, run, snd_write_ch, received, served, stream, buf>>
    BY DEF PassAnswerOn, socketVars, readerVars
  <1>2. /\ caller'[c].pc = "idle" /\ caller'[c].seqno = 0
        /\ \A d \in Caller : d # c => caller'[d] = caller[d]
    BY DEF PassAnswerOn, Inv, TypeOK
  <1>3. StreamInv' /\ RequestInv'
    BY <1>1, <1>2, AskedGrows, StreamKept, RequestsKept DEF RefInv
  <1>4. CalledInv'
    BY <1>1, <1>2 DEF RefInv, CalledInv
  <1>5. FreshInv'
    <2>1. 0 <= seqno
      BY CallFacts DEF Inv
    <2>. QED BY <1>1, <1>2, <2>1 DEF RefInv, FreshInv, Fresh
  <1>. QED BY <1>3, <1>4, <1>5 DEF RefInv

LEMMA RefTakeCall == ASSUME Inv, RefInv, TakeCall PROVE RefInv'
  <1>. DEFINE w == Head(call_send_ch)
  <1>1. /\ call_send_ch # <<>> /\ call_send_ch' = Tail(call_send_ch)
        /\ run'.pc = "write" /\ run'.seqno = w.seqno
        /\ UNCHANGED <<seqno, calls, caller, snd_write_ch, received, served, stream, buf>>
    BY DEF TakeCall, AtSelect, clientVars, socketVars, readerVars
  <1>2. /\ w = call_send_ch[1] /\ 1 \in 1..Len(call_send_ch)
        /\ \A n \in 1..Len(call_send_ch') :
             call_send_ch'[n] = call_send_ch[n + 1] /\ n + 1 \in 1..Len(call_send_ch)
    BY <1>1, Taken DEF Inv, TypeOK
  <1>. HIDE DEF w
  <1>3. Asked' = Asked
    BY <1>1 DEF Asked
  <1>4. RequestInv'
    BY <1>1, <1>2, <1>3 DEF RefInv, RequestInv
  <1>5. StreamInv' /\ CalledInv' /\ FreshInv'
    BY <1>1 DEF RefInv, StreamInv, CalledInv, FreshInv, Fresh
  <1>. QED BY <1>4, <1>5 DEF RefInv

LEMMA RefPassToSender == ASSUME Inv, RefInv, PassToSender PROVE RefInv'
  <1>1. /\ run.pc = "write" /\ run'.pc = "select" /\ snd_write_ch' = Append(snd_write_ch, run.seqno)
        /\ UNCHANGED <<seqno, calls, caller, call_send_ch, received, served, stream, buf>>
    BY DEF PassToSender, AtSelect, clientVars, socketVars, readerVars
  <1>2. Asked' = Asked
    BY <1>1 DEF Asked
  <1>3. run.seqno \in Asked /\ snd_write_ch \in Seq(Asked)
    BY <1>1 DEF RefInv, RequestInv
  <1>4. snd_write_ch' \in Seq(Asked)
    BY <1>1, <1>3, Appended
  <1>5. RequestInv'
    BY <1>1, <1>2, <1>4 DEF RefInv, RequestInv
  <1>6. StreamInv' /\ CalledInv' /\ FreshInv'
    BY <1>1 DEF RefInv, StreamInv, CalledInv, FreshInv, Fresh
  <1>. QED BY <1>5, <1>6 DEF RefInv

\* Run delivers what was answered: what it finds is in the buffer, or 0, and nobody
\* waits for 0.
LEMMA Answered ==
  ASSUME Inv, RefInv, rcv_read_ch # <<>>, NEW s \in ParsedSeqnos(Head(rcv_read_ch)),
         sync_map[s] # None
  PROVE  s \in served
  <1>1. s \in Seqno
    BY Parsed DEF Inv
  <1>2. sync_map[s] \in Caller /\ Waits(sync_map[s], s)
    BY <1>1, CallFacts DEF Inv, CallInv, MapInv
  <1>3. s # 0
    BY <1>2 DEF RefInv, CalledInv, Waits
  <1>4. buf # <<>> /\ buf \in Seq(served \cup {0})
    BY DEF Inv, BufInv, RefInv, StreamInv
  <1>5. Head(buf) \in served \cup {0}
    BY <1>4
  <1>. QED BY <1>3, <1>5 DEF ParsedSeqnos

LEMMA RefTakeMessage == ASSUME Inv, RefInv, TakeMessage PROVE RefInv'
  <1>1. /\ rcv_read_ch # <<>>
        /\ UNCHANGED <<seqno, calls, caller, call_send_ch, snd_write_ch, received, served, stream, buf>>
    BY DEF TakeMessage, clientVars, socketVars, readerVars
  <1>2. PICK s \in ParsedSeqnos(Head(rcv_read_ch)) :
          \/ /\ sync_map[s] # None
             /\ run' = [pc |-> "deliver", seqno |-> s, to |-> sync_map[s]]
          \/ run' = [AtSelect EXCEPT !.pc = "async", !.seqno = s]
    BY DEF TakeMessage
  <1>3. run'.pc # "write" /\ (run'.pc = "deliver" => run'.seqno \in served)
    <2>1. CASE run' = [AtSelect EXCEPT !.pc = "async", !.seqno = s]
      BY <2>1 DEF AtSelect
    <2>2. CASE sync_map[s] # None /\ run' = [pc |-> "deliver", seqno |-> s, to |-> sync_map[s]]
      <3>1. s \in served
        BY <1>1, <2>2, Answered
      <3>2. run'.pc = "deliver" /\ run'.seqno = s
        BY <2>2
      <3>. QED BY <1>1, <3>1, <3>2
    <2>. QED BY <1>2, <2>1, <2>2
  <1>4. Asked' = Asked
    BY <1>1 DEF Asked
  <1>5. RequestInv'
    BY <1>1, <1>3, <1>4 DEF RefInv, RequestInv
  <1>6. CalledInv'
    BY <1>1, <1>3 DEF RefInv, CalledInv
  <1>7. StreamInv' /\ FreshInv'
    BY <1>1 DEF RefInv, StreamInv, FreshInv, Fresh
  <1>. QED BY <1>5, <1>6, <1>7 DEF RefInv

LEMMA Delivered ==
  ASSUME Inv, RefInv, Deliver
  PROVE  /\ run.pc = "deliver" /\ run'.pc = "select" /\ run.to \in Caller
         /\ caller[run.to].pc = "wait" /\ caller[run.to].seqno \in served
         /\ caller'[run.to].pc = "answered" /\ caller'[run.to].seqno = caller[run.to].seqno
         /\ \A d \in Caller : d # run.to => caller'[d] = caller[d]
         /\ UNCHANGED <<seqno, calls, call_send_ch, snd_write_ch, received, served, stream, buf>>
  <1>1. /\ run.pc = "deliver" /\ run'.pc = "select"
        /\ UNCHANGED <<seqno, calls, call_send_ch, snd_write_ch, received, served, stream, buf>>
    BY DEF Deliver, AtSelect, socketVars, readerVars
  <1>2. run.to \in Caller /\ Waits(run.to, run.seqno)
    BY <1>1, CallFacts DEF Inv, CallInv, RunInv
  <1>3. /\ caller'[run.to].pc = "answered" /\ caller'[run.to].seqno = caller[run.to].seqno
        /\ \A d \in Caller : d # run.to => caller'[d] = caller[d]
    BY <1>2 DEF Deliver, Inv, TypeOK, CallerType
  <1>. QED BY <1>1, <1>2, <1>3 DEF RefInv, CalledInv, Waits

LEMMA RefDeliver == ASSUME Inv, RefInv, Deliver PROVE RefInv'
  <1>1. Asked \subseteq Asked'
    BY Delivered, AskedGrows
  <1>2. RequestInv'
    <2>1. snd_write_ch \in Seq(Asked') /\ received \in Seq(Asked')
      BY <1>1, Widened DEF RefInv, RequestInv
    <2>. QED BY <1>1, <2>1, Delivered DEF RefInv, RequestInv
  <1>3. StreamInv'
    BY Delivered, StreamKept DEF RefInv
  <1>4. CalledInv'
    BY Delivered DEF RefInv, CalledInv
  <1>5. FreshInv'
    BY Delivered DEF RefInv, FreshInv, Fresh
  <1>. QED BY <1>2, <1>3, <1>4, <1>5 DEF RefInv

LEMMA RefWrite == ASSUME Inv, RefInv, Write PROVE RefInv'
  <1>1. /\ snd_write_ch # <<>> /\ snd_write_ch' = Tail(snd_write_ch)
        /\ received' \in {received, Append(received, Head(snd_write_ch))}
        /\ UNCHANGED <<seqno, calls, caller, call_send_ch, run, served, stream, buf>>
    BY DEF Write, clientVars, readerVars
  <1>2. Asked' = Asked
    BY <1>1 DEF Asked
  <1>3. snd_write_ch \in Seq(Asked) /\ received \in Seq(Asked)
    BY DEF RefInv, RequestInv
  <1>4. Head(snd_write_ch) \in Asked /\ snd_write_ch' \in Seq(Asked)
    BY <1>1, <1>3, Taken
  <1>5. received' \in Seq(Asked)
    BY <1>1, <1>3, <1>4, Appended
  <1>6. RequestInv'
    BY <1>1, <1>2, <1>4, <1>5 DEF RefInv, RequestInv
  <1>7. StreamInv' /\ CalledInv' /\ FreshInv'
    BY <1>1 DEF RefInv, StreamInv, CalledInv, FreshInv, Fresh
  <1>. QED BY <1>6, <1>7 DEF RefInv

LEMMA RefRead == ASSUME Inv, RefInv, Read PROVE RefInv'
  <1>. DEFINE A == served \cup {0}
  <1>1. stream # <<>> /\ buf' = receiver'
        /\ UNCHANGED <<seqno, calls, caller, call_send_ch, run, snd_write_ch, received, served>>
    BY DEF Read, clientVars
  <1>2. PICK n \in {1, Len(stream)} :
          receiver' = SubSeq(stream, 1, n) /\ stream' = SubSeq(stream, n + 1, Len(stream))
    BY DEF Read
  <1>3. stream \in Seq(A) /\ Len(stream) \in Nat
    BY DEF RefInv, StreamInv
  <1>4. n \in 1..Len(stream)
    BY <1>1, <1>2, <1>3, Taken
  <1>5. stream' \in Seq(A) /\ buf' \in Seq(A)
    <2>. HIDE DEF A
    <2>. QED BY <1>1, <1>2, <1>3, <1>4, Cut
  <1>6. StreamInv'
    BY <1>1, <1>5 DEF StreamInv
  <1>7. Asked' = Asked
    BY <1>1 DEF Asked
  <1>8. RequestInv' /\ CalledInv' /\ FreshInv'
    BY <1>1, <1>7 DEF RefInv, RequestInv, CalledInv, FreshInv, Fresh
  <1>. QED BY <1>6, <1>8 DEF RefInv

\* The server answers what was asked.
LEMMA ServedNow ==
  ASSUME Inv, RefInv, Answer
  PROVE  \E n \in 1..Len(received) :
           /\ received[n] \in Asked
           /\ stream' = Append(stream, received[n]) /\ received' \in Seq(Asked)
           /\ served' = served \cup ({received[n]} \ {0})
           /\ UNCHANGED <<seqno, calls, caller, call_send_ch, run, snd_write_ch, buf>>
  <1>1. PICK n \in 1..Len(received) :
          /\ stream' = Append(stream, received[n])
          /\ received' = SubSeq(received, 1, n - 1) \o SubSeq(received, n + 1, Len(received))
          /\ served' = served \cup ({received[n]} \ {0})
    BY DEF Answer
  <1>2. received \in Seq(Asked)
    BY DEF RefInv, RequestInv
  <1>3. received[n] \in Asked /\ received' \in Seq(Asked)
    BY <1>1, <1>2, Cut
  <1>4. UNCHANGED <<seqno, calls, caller, call_send_ch, run, snd_write_ch, buf>>
    BY DEF Answer, clientVars, readerVars
  <1>. QED BY <1>1, <1>3, <1>4

LEMMA RefAnswer == ASSUME Inv, RefInv, Answer PROVE RefInv'
  <1>1. PICK n \in 1..Len(received) :
           /\ received[n] \in Asked
           /\ stream' = Append(stream, received[n]) /\ received' \in Seq(Asked)
           /\ served' = served \cup ({received[n]} \ {0})
           /\ UNCHANGED <<seqno, calls, caller, call_send_ch, run, snd_write_ch, buf>>
    BY ServedNow
  <1>2. served \subseteq served' /\ received[n] \in served' \cup {0}
    BY <1>1
  <1>3. Asked \subseteq Asked'
    BY <1>1, <1>2, AskedGrows
  <1>4. RequestInv'
    <2>1. snd_write_ch \in Seq(Asked') /\ received' \in Seq(Asked')
      BY <1>1, <1>3, Widened DEF RefInv, RequestInv
    <2>. QED BY <1>1, <1>3, <2>1 DEF RefInv, RequestInv
  <1>5. StreamInv'
    <2>. DEFINE A == served' \cup {0}
    <2>1. served \cup {0} \subseteq A
      BY <1>2
    <2>2. stream \in Seq(A) /\ buf \in Seq(A)
      <3>. HIDE DEF A
      <3>. QED BY <2>1, Widened DEF RefInv, StreamInv
    <2>3. stream' \in Seq(A)
      <3>1. received[n] \in A
        BY <1>2
      <3>. HIDE DEF A
      <3>. QED BY <1>1, <2>2, <3>1, Appended
    <2>. QED BY <1>1, <2>2, <2>3 DEF StreamInv
  <1>6. CalledInv'
    BY <1>1, <1>2 DEF RefInv, CalledInv
  <1>7. FreshInv'
    <2>. SUFFICES ASSUME Fresh PROVE received[n] <= seqno
      BY <1>1 DEF RefInv, FreshInv, Fresh
    <2>1. 0 <= seqno
      BY CallFacts DEF Inv
    <2>. QED BY <1>1, <2>1 DEF Asked, RefInv, FreshInv
  <1>. QED BY <1>4, <1>5, <1>6, <1>7 DEF RefInv

\* What the server sends again, and what its death cuts off.
LEMMA RefServerEnd == ASSUME Inv, RefInv, AnswerAgain \/ Disconnected PROVE RefInv'
  <1>1. UNCHANGED <<seqno, calls, caller, call_send_ch, run, snd_write_ch, received, served, buf>>
    BY DEF AnswerAgain, Disconnected, clientVars, readerVars
  <1>2. stream' \in Seq(served \cup {0})
    <2>1. CASE AnswerAgain
      <3>1. PICK s \in served : stream' = Append(stream, s)
        BY <2>1 DEF AnswerAgain
      <3>2. stream \in Seq(served \cup {0}) /\ s \in served \cup {0}
        BY DEF RefInv, StreamInv
      <3>. QED BY <3>1, <3>2, Appended
    <2>2. CASE Disconnected
      <3>1. stream' = stream \/ stream' = <<>>
        BY <2>2 DEF Disconnected
      <3>2. stream \in Seq(served \cup {0}) /\ <<>> \in Seq(served \cup {0})
        BY DEF RefInv, StreamInv
      <3>. QED BY <3>1, <3>2
    <2>. QED BY <2>1, <2>2
  <1>3. Asked' = Asked
    BY <1>1 DEF Asked
  <1>4. StreamInv'
    BY <1>1, <1>2 DEF RefInv, StreamInv
  <1>5. RequestInv' /\ CalledInv' /\ FreshInv'
    BY <1>1, <1>3 DEF RefInv, RequestInv, CalledInv, FreshInv, Fresh
  <1>. QED BY <1>4, <1>5 DEF RefInv

\* Steps between the channels that neither call nor answer.
LEMMA RefPassed == ASSUME Inv, RefInv, DeliverAsync \/ Consume \/ PassSlice PROVE RefInv'
  <1>1. UNCHANGED <<seqno, calls, caller, call_send_ch, snd_write_ch, received, served, stream, buf>>
    BY DEF DeliverAsync, Consume, PassSlice, clientVars, socketVars, readerVars
  <1>2. run' = run \/ run'.pc = "select"
    BY DEF DeliverAsync, Consume, PassSlice, AtSelect
  <1>3. Asked' = Asked
    BY <1>1 DEF Asked
  <1>4. RequestInv' /\ CalledInv'
    BY <1>1, <1>2, <1>3 DEF RefInv, RequestInv, CalledInv
  <1>5. StreamInv' /\ FreshInv'
    BY <1>1 DEF RefInv, StreamInv, FreshInv, Fresh
  <1>. QED BY <1>4, <1>5 DEF RefInv

LEMMA RefNext == Inv /\ RefInv /\ [Next]_vars => RefInv'
  <1>. SUFFICES ASSUME Inv, RefInv, [Next]_vars PROVE RefInv'
    OBVIOUS
  <1>1. CASE UNCHANGED vars
    BY <1>1 DEF vars, RefInv, StreamInv, RequestInv, CalledInv, FreshInv, Asked, Fresh
  <1>2. ASSUME NEW c \in Caller, CallerStep(c) PROVE RefInv'
    BY <1>2, RefSendRecv, RefPushCall, RefSendRecvAsync, RefPushAsync, RefPassAnswerOn
       DEF CallerStep
  <1>3. CASE RunStep
    BY <1>3, RefTakeCall, RefPassToSender, RefTakeMessage, RefDeliver, RefPassed DEF RunStep
  <1>4. CASE ServerStep
    BY <1>4, RefAnswer, RefServerEnd DEF ServerStep
  <1>. QED BY <1>1, <1>2, <1>3, <1>4, RefWrite, RefRead, RefPassed DEF Next

LEMMA RefHolds == Spec => [](Inv /\ RefInv)
  <1>1. Init => Inv /\ RefInv
    BY InvInit, RefInit
  <1>2. (Inv /\ RefInv) /\ [Next]_vars => (Inv /\ RefInv)'
    BY InvNext, RefNext
  <1>. QED BY <1>1, <1>2, PTL DEF Spec

\* Run delivers to a call that waits for just that number, however often the server
\* answers and whatever the overwritten buffer makes of it; and nobody is ever
\* registered under 0, the number of what nobody waits for.
THEOREM DeliveryFound == Spec => []DeliveryFindsCaller
  <1>1. Inv /\ RefInv => DeliveryFindsCaller
    <2>. SUFFICES ASSUME Inv, RefInv PROVE DeliveryFindsCaller
      OBVIOUS
    <2>1. \A c \in Caller, s \in Seqno : Waits(c, s) => caller[c] = [pc |-> "wait", seqno |-> s]
      BY DEF Inv, TypeOK, CallerType, Waits
    <2>2. sync_map[0] = None
      <3>. SUFFICES ASSUME sync_map[0] # None PROVE FALSE
        OBVIOUS
      <3>1. sync_map[0] \in Caller /\ Waits(sync_map[0], 0)
        BY Numbers, CallFacts DEF Inv, CallInv, MapInv
      <3>. QED BY <3>1 DEF RefInv, CalledInv, Waits
    <2>. QED BY <2>1, <2>2, CallFacts DEF Inv, CallInv, MapInv, RunInv, DeliveryFindsCaller
  <1>. QED BY <1>1, RefHolds, PTL

LEMMA CallInit == Init => C!Init
  BY DEF Init, C!Init, at, number, Stage

\* What an action does to the calls, as the mapping shows them.
LEMMA Mapped ==
  ASSUME NEW c \in Caller, \A d \in Caller : d # c => caller'[d] = caller[d]
  PROVE  /\ at' = [at EXCEPT ![c] = Stage(c)']
         /\ number' = [number EXCEPT ![c] = caller'[c].seqno]
         /\ at[c] = Stage(c) /\ number[c] = caller[c].seqno
  <1>1. \A d \in Caller : d # c => Stage(d)' = Stage(d)
    BY DEF Stage
  <1>. QED BY <1>1 DEF at, number

LEMMA CallersMapped ==
  ASSUME Inv, RefInv, NEW c \in Caller, CallerStep(c)
  PROVE  [C!Next]_<<at, number, served>>
  <1>1. CASE SendRecv(c)
    <2>1. at[c] = "idle" /\ at' = [at EXCEPT ![c] = "called"]
      BY <1>1, NewNumber, Mapped DEF Stage
    <2>2. number' = [number EXCEPT ![c] = NextSeqno(seqno)]
      BY <1>1, NewNumber, Mapped
    <2>3. \A d \in Caller : number[d] # NextSeqno(seqno)
      <3>. SUFFICES ASSUME NEW d \in Caller, caller[d].seqno = NextSeqno(seqno) PROVE FALSE
        BY DEF number
      <3>1. d # c
        BY <1>1, NewNumber DEF RefInv, CalledInv
      <3>2. /\ caller'[c].pc \notin {"idle", "async"} /\ caller'[d].pc \notin {"idle", "async"}
            /\ caller'[d].seqno = caller'[c].seqno
        BY <1>1, <3>1, NewNumber DEF RefInv, CalledInv
      <3>3. DistInv'
        BY <1>1, CallSendRecv DEF CallInv
      <3>. QED BY <3>1, <3>2, <3>3 DEF DistInv
    <2>4. Fresh => NextSeqno(seqno) \notin served
      <3>. SUFFICES ASSUME Fresh, seqno + 1 \in served PROVE FALSE
        BY <1>1, NewNumber, FreshNumber DEF RefInv
      <3>1. seqno + 1 < seqno + 1 /\ seqno \in Nat
        BY <1>1, NewNumber, FreshNumber, CallFacts DEF RefInv, Inv
      <3>. QED BY <3>1
    <2>5. C!Request(c, NextSeqno(seqno))
      BY <1>1, <2>1, <2>2, <2>3, <2>4, NewNumber DEF C!Request
    <2>. QED BY <1>1, <2>5, NewNumber DEF C!Next
  <1>2. CASE PushCall(c)
    <2>1. /\ caller[c].pc = "send" /\ caller'[c].pc = "wait" /\ caller'[c].seqno = caller[c].seqno
          /\ \A d \in Caller : d # c => caller'[d] = caller[d]
          /\ served' = served
      BY <1>2 DEF PushCall, Inv, TypeOK, CallerType, socketVars
    <2>2. \A d \in Caller : Stage(d)' = Stage(d) /\ caller'[d].seqno = caller[d].seqno
      BY <2>1 DEF Stage
    <2>. QED BY <2>1, <2>2 DEF at, number
  <1>3. CASE SendRecvAsync(c) \/ PushAsync(c)
    <2>1. /\ caller[c].pc \in {"idle", "async"} /\ caller'[c].pc \in {"idle", "async"}
          /\ caller[c].seqno = 0 /\ caller'[c].seqno = 0
      BY <1>3 DEF SendRecvAsync, PushAsync, Inv, TypeOK, RefInv, CalledInv
    <2>2. \A d \in Caller : d # c => caller'[d] = caller[d]
      BY <1>3 DEF SendRecvAsync, PushAsync, Inv, TypeOK
    <2>3. \A d \in Caller : Stage(d)' = Stage(d) /\ caller'[d].seqno = caller[d].seqno
      BY <2>1, <2>2 DEF Stage
    <2>4. at' = at /\ number' = number /\ served' = served
      BY <1>3, <2>3 DEF at, number, SendRecvAsync, PushAsync, socketVars
    <2>. QED BY <2>4
  <1>4. CASE PassAnswerOn(c)
    <2>1. /\ caller[c].pc = "answered" /\ caller'[c].pc = "idle" /\ caller'[c].seqno = 0
          /\ \A d \in Caller : d # c => caller'[d] = caller[d]
          /\ served' = served
      BY <1>4 DEF PassAnswerOn, Inv, TypeOK, socketVars
    <2>2. /\ at[c] = "answered" /\ at' = [at EXCEPT ![c] = "idle"]
          /\ number' = [number EXCEPT ![c] = 0]
      BY <2>1, Mapped DEF Stage
    <2>3. C!Return(c)
      BY <2>1, <2>2 DEF C!Return
    <2>. QED BY <2>3 DEF C!Next
  <1>. QED BY <1>1, <1>2, <1>3, <1>4 DEF CallerStep

LEMMA DeliverMapped ==
  ASSUME Inv, RefInv, Deliver
  PROVE  [C!Next]_<<at, number, served>>
  <1>1. at[run.to] = "called" /\ number[run.to] \in served
    BY Delivered, Mapped DEF Stage
  <1>2. at' = [at EXCEPT ![run.to] = "answered"]
    BY Delivered, Mapped DEF Stage
  <1>3. number' = number
    BY Delivered DEF number
  <1>4. C!Answer(run.to)
    BY <1>1, <1>2, <1>3, Delivered DEF C!Answer
  <1>. QED BY <1>4, Delivered DEF C!Next

LEMMA AnswerMapped ==
  ASSUME Inv, RefInv, Answer
  PROVE  [C!Next]_<<at, number, served>>
  <1>1. PICK n \in 1..Len(received) :
           /\ received[n] \in Asked
           /\ served' = served \cup ({received[n]} \ {0})
           /\ caller' = caller
    BY ServedNow
  <1>2. at' = at /\ number' = number
    BY <1>1 DEF at, number, Stage
  <1>3. CASE received[n] \in served \cup {0}
    BY <1>1, <1>2, <1>3
  <1>4. CASE received[n] \notin served \cup {0}
    <2>1. PICK c \in Caller : caller[c].pc = "wait" /\ caller[c].seqno = received[n]
      BY <1>1, <1>4 DEF Asked
    <2>2. at[c] = "called" /\ number[c] = received[n]
      BY <2>1 DEF at, number, Stage
    <2>3. served' = served \cup {number[c]}
      BY <1>1, <1>4, <2>2
    <2>4. C!Serve(c)
      BY <1>2, <2>2, <2>3 DEF C!Serve
    <2>. QED BY <2>4 DEF C!Next
  <1>. QED BY <1>3, <1>4

LEMMA CallStep == Inv /\ RefInv /\ [Next]_vars => [C!Next]_<<at, number, served>>
  <1>. SUFFICES ASSUME Inv, RefInv, [Next]_vars PROVE [C!Next]_<<at, number, served>>
    OBVIOUS
  <1>1. CASE UNCHANGED <<caller, served>>
    BY <1>1 DEF at, number, Stage
  <1>2. ASSUME NEW c \in Caller, CallerStep(c) PROVE [C!Next]_<<at, number, served>>
    BY <1>2, CallersMapped
  <1>3. CASE RunStep
    <2>1. Deliver \/ UNCHANGED <<caller, served>>
      BY <1>3 DEF RunStep, TakeCall, PassToSender, TakeMessage, DeliverAsync, clientVars, socketVars
    <2>. QED BY <1>1, <2>1, DeliverMapped
  <1>4. CASE ServerStep
    <2>1. Answer \/ UNCHANGED <<caller, served>>
      BY <1>4 DEF ServerStep, AnswerAgain, Disconnected, clientVars
    <2>. QED BY <1>1, <2>1, AnswerMapped
  <1>5. CASE Consume \/ Write \/ Read \/ PassSlice \/ UNCHANGED vars
    <2>1. UNCHANGED <<caller, served>>
      BY <1>5 DEF Consume, Write, Read, PassSlice, vars, clientVars, socketVars
    <2>. QED BY <1>1, <2>1
  <1>. QED BY <1>2, <1>3, <1>4, <1>5 DEF Next

\* SendRecv is a remote call, for any callers and channel capacities: the client's steps
\* are steps of Call or none, in any order of requests, answers, repeated answers,
\* overwritten slices and the server's death.
THEOREM CallImplemented == Spec => ImplementsCall
  BY RefHolds, CallInit, CallStep, PTL DEF Spec, ImplementsCall, C!Spec
=============================================================================
