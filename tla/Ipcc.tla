-------------------------------- MODULE Ipcc --------------------------------
(***************************************************************************)
(* The IPC client ipcc/ipcc.go, by which the controller calls the resource *)
(* manager over a unix stream socket.                                      *)
(*                                                                         *)
(* SendRecv hands a request to the Run goroutine and blocks until the      *)
(* reply with its sequence number comes back on a channel of its own;      *)
(* every other message goes to ipcrecv_ch.  Run, receiver and sender are   *)
(* goroutines; an action is one channel operation of one of them, and Run  *)
(* is seen between two operations that may block.  The consumer of         *)
(* ipcrecv_ch is itself a caller: the channel loop of the controller,      *)
(* whose handlers call SendRecv (_resourceControl).                        *)
(*                                                                         *)
(* receiver reads into one buffer again and again and queues slices of it: *)
(* what a slice holds is known when it is parsed.  The socket is a stream, *)
(* so a Read may return two messages at once.                              *)
(***************************************************************************)
EXTENDS Integers, Sequences, FiniteSets

CONSTANTS
  Caller,    \* goroutines that call SendRecv and SendRecvAsync
  Consumer,  \* the caller that also drains ipcrecv_ch
  None,      \* no caller (a nil channel)
  MaxSeq,    \* math.MaxUint64
  MaxCalls,  \* bound: calls made in a behaviour
  MaxExtra,  \* bound: messages of the server that answer no first time
  SendCap, WriteCap, ReadCap, RecvCap  \* channel capacities, 12 each in New

ASSUME CallerAssumption == Consumer \in Caller /\ None \notin Caller
ASSUME BoundAssumption == MaxSeq \in Nat \ {0} /\ MaxCalls \in Nat /\ MaxExtra \in Nat
ASSUME CapAssumption == {SendCap, WriteCap, ReadCap, RecvCap} \subseteq Nat \ {0}
\* A caller that waits is not lapped by 2^64 calls of the others.
ASSUME LapAssumption == Caller = {Consumer} \/ MaxCalls <= MaxSeq

VARIABLES
  seqno,         \* the counter of GetSeqno
  calls,         \* calls made so far
  caller,        \* where each caller is, and the seqno of its request, 0 if none
  call_send_ch,  \* requests on their way to Run: seqno and caller (channel sch)
  run,           \* where Run is, with what it is about to send, and to whom
  sync_map,      \* seqno -> the caller whose channel is registered, or None
  snd_write_ch,  \* seqnos of requests on their way to sender
  received,      \* seqnos of the requests the server has received
  served,        \* seqnos of the requests the server has answered
  extra,         \* messages the server may still send besides first answers
  stream,        \* the socket towards the client: seqnos of messages not read yet
  buf,           \* what the last Read put into _buf
  receiver,      \* the slice receiver is blocked on sending, <<>> while in Read
  rcv_read_ch,   \* slices of _buf, each as its content was when it was read
  ipcrecv_ch,    \* messages for the consumer: their header's seqno
  connected      \* FALSE once the server is gone

vars == <<seqno, calls, caller, call_send_ch, run, sync_map, snd_write_ch,
          received, served, extra, stream, buf, receiver, rcv_read_ch, ipcrecv_ch, connected>>
clientVars == <<seqno, calls, caller>>
socketVars == <<received, served, extra, stream, connected>>
readerVars == <<buf, receiver>>

Seqno == 0..MaxSeq
AtSelect == [pc |-> "select", seqno |-> 0, to |-> None]

Init ==
  /\ seqno = 0 /\ calls = 0
  /\ caller = [c \in Caller |-> [pc |-> "idle", seqno |-> 0]]
  /\ call_send_ch = <<>> /\ snd_write_ch = <<>>
  /\ run = AtSelect
  /\ sync_map = [s \in Seqno |-> None]
  /\ received = <<>> /\ served = {} /\ extra = MaxExtra /\ stream = <<>>
  /\ buf = <<>> /\ receiver = <<>> /\ rcv_read_ch = <<>> /\ ipcrecv_ch = <<>>
  /\ connected = TRUE

-----------------------------------------------------------------------------
(* The callers.                                                            *)

\* Mutants: the counter is not restarted at the maximum; it restarts at 0.
CountOn(s) == s + 1
RestartAtZero(s) == IF s = MaxSeq THEN 0 ELSE s + 1

\* GetSeqno restarts at 1, never at 0: 0 marks messages nobody waits for.
NextSeqno(s) == (IF s = MaxSeq THEN 0 ELSE s) + 1

\* A caller numbers its request (GetSeqno) and calls SendRecv.
SendRecv(c) ==
  /\ caller[c].pc = "idle" /\ calls < MaxCalls
  /\ calls' = calls + 1
  /\ seqno' = NextSeqno(seqno)
  /\ caller' = [caller EXCEPT ![c] = [pc |-> "send", seqno |-> NextSeqno(seqno)]]
  /\ UNCHANGED <<call_send_ch, run, sync_map, snd_write_ch, socketVars, readerVars,
                 rcv_read_ch, ipcrecv_ch>>

\* call_send_ch <- send, then the wait for the answer.
PushCall(c) ==
  /\ caller[c].pc = "send" /\ Len(call_send_ch) < SendCap
  /\ call_send_ch' = Append(call_send_ch, [seqno |-> caller[c].seqno, sch |-> c])
  /\ caller' = [caller EXCEPT ![c].pc = "wait"]
  /\ UNCHANGED <<seqno, calls, run, sync_map, snd_write_ch, socketVars, readerVars,
                 rcv_read_ch, ipcrecv_ch>>

\* SendRecvAsync: as SendRecv, with seqno 0 and no channel, ...
SendRecvAsync(c) ==
  /\ caller[c].pc = "idle" /\ calls < MaxCalls
  /\ calls' = calls + 1
  /\ caller' = [caller EXCEPT ![c] = [pc |-> "async", seqno |-> 0]]
  /\ UNCHANGED <<seqno, call_send_ch, run, sync_map, snd_write_ch, socketVars, readerVars,
                 rcv_read_ch, ipcrecv_ch>>

\* ... and it returns once there is room on call_send_ch.
PushAsync(c) ==
  /\ caller[c].pc = "async" /\ Len(call_send_ch) < SendCap
  /\ call_send_ch' = Append(call_send_ch, [seqno |-> 0, sch |-> None])
  /\ caller' = [caller EXCEPT ![c] = [pc |-> "idle", seqno |-> 0]]
  /\ UNCHANGED <<seqno, calls, run, sync_map, snd_write_ch, socketVars, readerVars,
                 rcv_read_ch, ipcrecv_ch>>

\* SendRecv has its answer, and puts it on ipcrecv_ch before it returns.
PassAnswerOn(c) ==
  /\ caller[c].pc = "answered" /\ Len(ipcrecv_ch) < RecvCap
  /\ ipcrecv_ch' = Append(ipcrecv_ch, caller[c].seqno)
  /\ caller' = [caller EXCEPT ![c] = [pc |-> "idle", seqno |-> 0]]
  /\ UNCHANGED <<seqno, calls, call_send_ch, run, sync_map, snd_write_ch, socketVars,
                 readerVars, rcv_read_ch>>

\* The channel loop takes a message, unless one of its handlers is in SendRecv.
Consume ==
  /\ caller[Consumer].pc = "idle" /\ ipcrecv_ch # <<>>
  /\ ipcrecv_ch' = Tail(ipcrecv_ch)
  /\ UNCHANGED <<clientVars, call_send_ch, run, sync_map, snd_write_ch, socketVars,
                 readerVars, rcv_read_ch>>

-----------------------------------------------------------------------------
(* The Run goroutine.                                                      *)

\* Mutant: Run writes the request and never registers it.
Unregistered(w) == sync_map

\* _setSyncMap: an entry is not replaced.
_setSyncMap(w) ==
  IF w.sch # None /\ sync_map[w.seqno] = None
  THEN [sync_map EXCEPT ![w.seqno] = w.sch] ELSE sync_map

\* Run takes a request and registers its channel, ...
TakeCall ==
  /\ run.pc = "select" /\ call_send_ch # <<>>
  /\ call_send_ch' = Tail(call_send_ch)
  /\ sync_map' = _setSyncMap(Head(call_send_ch))
  /\ run' = [AtSelect EXCEPT !.pc = "write", !.seqno = Head(call_send_ch).seqno]
  /\ UNCHANGED <<clientVars, snd_write_ch, socketVars, readerVars, rcv_read_ch, ipcrecv_ch>>

\* ... and only then passes the message to sender.
PassToSender ==
  /\ run.pc = "write" /\ Len(snd_write_ch) < WriteCap
  /\ snd_write_ch' = Append(snd_write_ch, run.seqno)
  /\ run' = AtSelect
  /\ UNCHANGED <<clientVars, call_send_ch, sync_map, socketVars, readerVars, rcv_read_ch,
                 ipcrecv_ch>>

\* The seqno json.Unmarshal finds in a slice that held content when it was read:
\* 0 (the zero header) where the bytes are not exactly one message.  A slice of
\* a buffer that was overwritten holds the first new message if the lengths fit.
ParsedSeqnos(content) ==
  IF content = buf THEN {IF Len(buf) = 1 THEN Head(buf) ELSE 0}
  ELSE {0, Head(buf)}

\* Mutant: the entry stays in the map.
KeepSyncMap(s) == sync_map

_removeSyncMap(s) == [sync_map EXCEPT ![s] = None]

\* Run takes a slice: a registered caller gets the message, and its entry is
\* removed first; any other message is for the consumer.
TakeMessage ==
  /\ run.pc = "select" /\ rcv_read_ch # <<>>
  /\ rcv_read_ch' = Tail(rcv_read_ch)
  /\ \E s \in ParsedSeqnos(Head(rcv_read_ch)) :
       \/ /\ sync_map[s] # None
          /\ sync_map' = _removeSyncMap(s)
          /\ run' = [pc |-> "deliver", seqno |-> s, to |-> sync_map[s]]
       \/ /\ sync_map[s] = None
          /\ run' = [AtSelect EXCEPT !.pc = "async", !.seqno = s]
          /\ UNCHANGED sync_map
  /\ UNCHANGED <<clientVars, call_send_ch, snd_write_ch, socketVars, readerVars, ipcrecv_ch>>

\* _v <- IpcClientMsg: a rendezvous, the channel has no buffer.
Deliver ==
  /\ run.pc = "deliver" /\ caller[run.to].pc = "wait"
  /\ caller' = [caller EXCEPT ![run.to].pc = "answered"]
  /\ run' = AtSelect
  /\ UNCHANGED <<seqno, calls, call_send_ch, sync_map, snd_write_ch, socketVars, readerVars,
                 rcv_read_ch, ipcrecv_ch>>

DeliverAsync ==
  /\ run.pc = "async" /\ Len(ipcrecv_ch) < RecvCap
  /\ ipcrecv_ch' = Append(ipcrecv_ch, run.seqno)
  /\ run' = AtSelect
  /\ UNCHANGED <<clientVars, call_send_ch, sync_map, snd_write_ch, socketVars, readerVars,
                 rcv_read_ch>>

-----------------------------------------------------------------------------
(* sender, receiver and the socket.                                        *)

\* sender writes one request; an error is logged and the request is lost.
Write ==
  /\ snd_write_ch # <<>>
  /\ snd_write_ch' = Tail(snd_write_ch)
  /\ received' = IF connected THEN Append(received, Head(snd_write_ch)) ELSE received
  /\ UNCHANGED <<clientVars, call_send_ch, run, sync_map, served, extra, stream,
                 connected, readerVars, rcv_read_ch, ipcrecv_ch>>

\* receiver reads what has arrived, one message or all of them.
Read ==
  /\ receiver = <<>> /\ stream # <<>>
  /\ \E n \in {1, Len(stream)} :
       /\ receiver' = SubSeq(stream, 1, n)
       /\ stream' = SubSeq(stream, n + 1, Len(stream))
  /\ buf' = receiver'
  /\ UNCHANGED <<clientVars, call_send_ch, run, sync_map, snd_write_ch, received, served,
                 extra, connected, rcv_read_ch, ipcrecv_ch>>

PassSlice ==
  /\ receiver # <<>> /\ Len(rcv_read_ch) < ReadCap
  /\ rcv_read_ch' = Append(rcv_read_ch, receiver)
  /\ receiver' = <<>>
  /\ UNCHANGED <<clientVars, call_send_ch, run, sync_map, snd_write_ch, socketVars, buf,
                 ipcrecv_ch>>

\* The server answers a request, in any order: an asynchronous operation may be
\* overtaken by a later one.
Answer ==
  /\ connected
  /\ \E n \in 1..Len(received) :
       /\ stream' = Append(stream, received[n])
       /\ received' = SubSeq(received, 1, n - 1) \o SubSeq(received, n + 1, Len(received))
       /\ served' = served \cup ({received[n]} \ {0})
  /\ UNCHANGED <<clientVars, call_send_ch, run, sync_map, snd_write_ch, extra, connected,
                 readerVars, rcv_read_ch, ipcrecv_ch>>

\* The server sends another result for a request it has answered: a recurring
\* monitor reports its failure under the seqno of its request.
AnswerAgain ==
  /\ connected /\ extra > 0
  /\ extra' = extra - 1
  /\ \E s \in served : stream' = Append(stream, s)
  /\ UNCHANGED <<clientVars, call_send_ch, run, sync_map, snd_write_ch, received, served,
                 connected, readerVars, rcv_read_ch, ipcrecv_ch>>

\* The server dies: what it sent may still be readable; then receiver returns.
Disconnected ==
  /\ connected /\ connected' = FALSE
  /\ stream' \in {stream, <<>>}
  /\ UNCHANGED <<clientVars, call_send_ch, run, sync_map, snd_write_ch, received, served,
                 extra, readerVars, rcv_read_ch, ipcrecv_ch>>

-----------------------------------------------------------------------------
CallerStep(c) ==
  SendRecv(c) \/ PushCall(c) \/ SendRecvAsync(c) \/ PushAsync(c) \/ PassAnswerOn(c)
RunStep == TakeCall \/ PassToSender \/ TakeMessage \/ Deliver \/ DeliverAsync
ServerStep == Answer \/ AnswerAgain \/ Disconnected

Next ==
  \/ \E c \in Caller : CallerStep(c)
  \/ Consume \/ RunStep \/ Write \/ Read \/ PassSlice \/ ServerStep

Spec == Init /\ [][Next]_vars

(* Every goroutine that can run does; the select of Run picks among the    *)
(* ready cases at random, so a case that is ready again and again is       *)
(* taken.  Nobody has to call, and the server need not stay connected, but *)
(* it answers while it is.                                                 *)
Fairness ==
  /\ \A c \in Caller : WF_vars(PushCall(c)) /\ WF_vars(PushAsync(c)) /\ WF_vars(PassAnswerOn(c))
  /\ WF_vars(Consume)
  /\ SF_vars(TakeCall) /\ SF_vars(TakeMessage)
  /\ WF_vars(PassToSender) /\ WF_vars(Deliver) /\ WF_vars(DeliverAsync)
  /\ WF_vars(Write) /\ WF_vars(Read) /\ WF_vars(PassSlice) /\ SF_vars(Answer)

FairSpec == Spec /\ Fairness

-----------------------------------------------------------------------------
(* Properties.                                                             *)

CallerType == [pc : {"idle", "async", "send", "wait", "answered"}, seqno : Seqno]
CallType == [seqno : Seqno, sch : Caller \cup {None}]
RunType == [pc : {"select", "write", "deliver", "async"}, seqno : Seqno,
            to : Caller \cup {None}]

\* Every variable has the values its Go counterpart can take, seqno stays within
\* its width, and no channel holds more than its capacity.
TypeOK ==
  /\ seqno \in Seqno /\ calls \in 0..MaxCalls
  /\ caller \in [Caller -> CallerType]
  /\ call_send_ch \in Seq(CallType) /\ Len(call_send_ch) <= SendCap
  /\ run \in RunType
  /\ sync_map \in [Seqno -> Caller \cup {None}]
  /\ snd_write_ch \in Seq(Seqno) /\ Len(snd_write_ch) <= WriteCap
  /\ received \in Seq(Seqno) /\ served \subseteq Seqno /\ extra \in 0..MaxExtra
  /\ stream \in Seq(Seqno) /\ buf \in Seq(Seqno) /\ receiver \in Seq(Seqno)
  /\ rcv_read_ch \in Seq(Seq(Seqno)) /\ Len(rcv_read_ch) <= ReadCap
  /\ ipcrecv_ch \in Seq(Seqno) /\ Len(ipcrecv_ch) <= RecvCap
  /\ connected \in BOOLEAN

\* Whoever Run or a map entry is to deliver to is a caller that still waits, for
\* just that seqno: an answer never goes to another call, an entry never outlives
\* its call, and Run never blocks for ever on a channel nobody reads, although the
\* server may answer a request again after its caller has gone.  (Where numbers come
\* round, an answer to an old call is one to the new call of the same number.)  Nobody
\* is registered under 0, the number of what nobody waits for: a message that is no
\* answer, or cannot be parsed, is never taken for one.
DeliveryFindsCaller ==
  /\ sync_map[0] = None
  /\ run.pc = "deliver" => caller[run.to] = [pc |-> "wait", seqno |-> run.seqno]
  /\ \A s \in Seqno : sync_map[s] # None =>
       caller[sync_map[s]] = [pc |-> "wait", seqno |-> s]

\* A caller that waits is registered before its request is written, and until
\* its answer is delivered: no answer is mistaken for an asynchronous message.
NoAnswerMissed ==
  \A c \in Caller : caller[c].pc = "wait" =>
    \/ \E n \in 1..Len(call_send_ch) :
         call_send_ch[n] = [seqno |-> caller[c].seqno, sch |-> c]
    \/ sync_map[caller[c].seqno] = c
    \/ run.pc = "deliver" /\ run.to = c

\* Nothing has been lost: the server is up, no slice was overwritten before Run
\* parsed it or holds two messages, and the consumer has kept up.
Healthy ==
  /\ connected
  /\ Len(buf) <= 1
  /\ \A n \in 1..Len(rcv_read_ch) : rcv_read_ch[n] = buf
  /\ Len(ipcrecv_ch) < RecvCap

\* As long as nothing is lost, every SendRecv returns: there is no timeout to end
\* the wait, and the caller, Run and the consumer wait for each other's channels.
SendRecvReturns ==
  []Healthy => \A c \in Caller : (caller[c].pc = "wait") ~> (caller[c].pc = "idle")
=============================================================================
