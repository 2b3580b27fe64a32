--------------------------- MODULE CorosyncProofs ---------------------------
(***************************************************************************)
(* runs() of corosync.go, for any number of retries, capacity, lives of    *)
(* corosync and events: it polls no handle that did not come up, and gives *)
(* up none that works.                                                     *)
(***************************************************************************)
EXTENDS Corosync, TLAPS

Dispatching == pc \in {"cpg_dispatch", "quorum_dispatch", "check"}

\* The way into the group is behind runs(), and nothing sends it back there.
Joined ==
  \/ pc \in {"membership", "quorum", "select"} \/ Dispatching
  \/ pc = "top" /\ ~restart

\* No handle is of a later life than corosync's.
LifeInv == handle.life <= life /\ q_handle <= life

\* corosync knows a member by a handle that is connected, and reports its leave last.
MemberInv == handle.member => Connected(handle.life) /\ ~LeaveWaits

\* A handle that has not joined gets no events.
FreshInv == pc \in {"local", "join"} => ~handle.member /\ cpg_q = <<>>

\* While runs() dispatches, it decides to start over only with a reason.
RestartInv ==
  restart => pc = "top" \/ (Dispatching /\ (~handle.member \/ ~Connected(q_handle)))

\* Once it has joined, a handle has a life of its own, and where it is no member any
\* more runs() has noticed it, is going to, or overlooked it.
JoinedInv ==
  /\ pc \in {"local", "join"} \/ Joined => handle.life # 0
  /\ Joined => \/ handle.member \/ ~Connected(handle.life)
               \/ restart \/ LeaveWaits \/ handle.overlooked

GroupInv == LifeInv /\ MemberInv /\ FreshInv /\ RestartInv /\ JoinedInv

Inv == TypeOK /\ GroupInv

-----------------------------------------------------------------------------
(* Events that wait.                                                       *)

LEMMA Appended ==
  ASSUME NEW q \in Seq(Event), NEW e \in Event
  PROVE  /\ Append(q, e) \in Seq(Event)
         /\ e \notin OurLeave /\ (\A n \in 1..Len(q) : q[n] \notin OurLeave) =>
              \A n \in 1..Len(Append(q, e)) : Append(q, e)[n] \notin OurLeave
         /\ \A n \in 1..Len(q) : n \in 1..Len(Append(q, e)) /\ Append(q, e)[n] = q[n]
         /\ Len(q) + 1 \in 1..Len(Append(q, e)) /\ Append(q, e)[Len(q) + 1] = e
  <1>1. Len(q) \in Nat /\ Append(q, e) \in Seq(Event) /\ Len(Append(q, e)) = Len(q) + 1
    OBVIOUS
  <1>2. \A n \in 1..Len(q) : Append(q, e)[n] = q[n]
    OBVIOUS
  <1>3. Append(q, e)[Len(q) + 1] = e
    OBVIOUS
  <1>4. \A n \in 1..(Len(q) + 1) : n \in 1..Len(q) \/ n = Len(q) + 1
    BY <1>1
  <1>5. Len(q) + 1 \in 1..(Len(q) + 1) /\ \A n \in 1..Len(q) : n \in 1..(Len(q) + 1)
    BY <1>1
  <1>. QED BY <1>1, <1>2, <1>3, <1>4, <1>5

LEMMA Taken ==
  ASSUME NEW q \in Seq(Event), q # <<>>
  PROVE  /\ Head(q) \in Event /\ Tail(q) \in Seq(Event)
         /\ (\E n \in 1..Len(q) : q[n] \in OurLeave) =>
              Head(q) \in OurLeave \/ \E n \in 1..Len(Tail(q)) : Tail(q)[n] \in OurLeave
         /\ (\E n \in 1..Len(Tail(q)) : Tail(q)[n] \in OurLeave) =>
              \E n \in 1..Len(q) : q[n] \in OurLeave
         /\ Head(q) \in OurLeave => \E n \in 1..Len(q) : q[n] \in OurLeave
  <1>1. Len(q) \in Nat /\ Len(q) >= 1 /\ Tail(q) \in Seq(Event) /\ Len(Tail(q)) = Len(q) - 1
    OBVIOUS
  <1>2. Head(q) = q[1] /\ 1 \in 1..Len(q) /\ Head(q) \in Event
    BY <1>1
  <1>3. \A n \in 1..(Len(q) - 1) : Tail(q)[n] = q[n + 1]
    BY <1>1
  <1>4. \A n \in 1..Len(q) : n = 1 \/ (n - 1 \in 1..(Len(q) - 1) /\ (n - 1) + 1 = n)
    BY <1>1
  <1>5. \A n \in 1..(Len(q) - 1) : n + 1 \in 1..Len(q)
    BY <1>1
  <1>6. ASSUME NEW n \in 1..Len(q), q[n] \in OurLeave, n # 1
        PROVE  n - 1 \in 1..(Len(q) - 1) /\ Tail(q)[n - 1] \in OurLeave
    BY <1>3, <1>4, <1>6
  <1>. QED BY <1>1, <1>2, <1>3, <1>5, <1>6

-----------------------------------------------------------------------------
(* Types.                                                                  *)

PC == {"top", "init", "local", "join", "membership", "quorum", "select",
       "cpg_dispatch", "quorum_dispatch", "check", "crashed"}

\* A call succeeded, or is tried again, or runs() backs off.
CallEffect(result, next) ==
  \/ result = "OK" /\ pc' = next /\ restart' = restart
  \/ result # "OK" /\ pc' = pc /\ restart' = restart
  \/ result # "OK" /\ pc' = "top" /\ restart' = TRUE

LEMMA CallRepeated ==
  ASSUME TypeOK, NEW result, NEW retried, "OK" \notin retried, NEW next \in PC,
         cs_repeat(result, retried, next)
  PROVE  /\ CallEffect(result, next)
         /\ retries' \in 0..(MaxRetries - 1) /\ pc' \in PC /\ restart' \in BOOLEAN
  <1>1. MaxRetries \in Nat /\ MaxRetries # 0 /\ retries \in 0..(MaxRetries - 1)
    BY CapAssumption DEF TypeOK
  <1>2. restart \in BOOLEAN /\ pc \in PC
    BY DEF TypeOK, PC
  <1>3. CASE result = "OK" /\ pc' = next /\ retries' = 0 /\ UNCHANGED restart
    <2>1. CallEffect(result, next)
      BY <1>3, Zenon DEF CallEffect
    <2>2. retries' \in 0..(MaxRetries - 1)
      BY <1>1, <1>3
    <2>. QED BY <1>2, <1>3, <2>1, <2>2, Zenon
  <1>4. CASE result \in retried /\ MayRetry /\ retries' = retries + 1 /\ UNCHANGED <<pc, restart>>
    <2>1. CallEffect(result, next)
      BY <1>4, Zenon DEF CallEffect
    <2>2. retries' \in 0..(MaxRetries - 1)
      BY <1>1, <1>4 DEF MayRetry
    <2>3. pc' = pc /\ restart' = restart
      BY <1>4
    <2>. QED BY <1>2, <2>1, <2>2, <2>3, Zenon
  <1>5. CASE result # "OK" /\ retrybackoff
    <2>1. CallEffect(result, next)
      BY <1>5, Zenon DEF CallEffect, retrybackoff
    <2>2. retries' \in 0..(MaxRetries - 1)
      BY <1>1, <1>5 DEF retrybackoff
    <2>3. pc' \in PC /\ restart' \in BOOLEAN
      BY <1>5 DEF retrybackoff, PC
    <2>. QED BY <2>1, <2>2, <2>3
  <1>. QED BY <1>3, <1>4, <1>5, Zenon DEF cs_repeat

LEMMA TypeInit == Init => TypeOK
  <1>. SUFFICES ASSUME Init PROVE TypeOK
    OBVIOUS
  <1>1. <<>> \in Seq(Event) /\ MaxLives \in Nat /\ MaxLives # 0 /\ MaxRetries \in Nat
        /\ MaxRetries # 0 /\ CoroCap \in Nat /\ MaxEvents \in Nat
    BY CapAssumption, BoundAssumption
  <1>2. restart \in BOOLEAN /\ behind \in BOOLEAN /\ q_q \in BOOLEAN
    BY Zenon DEF Init
  <1>3. handle \in [life : 0..MaxLives, member : BOOLEAN, overlooked : BOOLEAN]
    BY <1>1 DEF Init, NoHandle
  <1>4. coro_chan \in [Coro -> 0..CoroCap]
    BY <1>1 DEF Init
  <1>. QED BY <1>1, <1>2, <1>3, <1>4 DEF Init, TypeOK

\* The types of handle and of the channels, apart from the rest.
HandleType == [life : 0..MaxLives, member : BOOLEAN, overlooked : BOOLEAN]

\* What a callback does to the handle.
LEMMA Overlooked ==
  ASSUME TypeOK, ConfchgCallback
  PROVE  /\ handle' \in HandleType
         /\ handle'.life = handle.life /\ handle'.member = handle.member
         /\ handle.overlooked => handle'.overlooked
         /\ Head(cpg_q) = "left_below" => handle'.overlooked
  <1>1. handle \in HandleType
    BY DEF TypeOK, HandleType
  <1>2. handle' = [handle EXCEPT !.overlooked = handle.overlooked \/ Head(cpg_q) = "left_below"]
    BY DEF ConfchgCallback
  <1>3. CASE handle.overlooked \/ Head(cpg_q) = "left_below"
    <2>1. handle' = [handle EXCEPT !.overlooked = TRUE]
      <3>1. (handle.overlooked \/ Head(cpg_q) = "left_below") = TRUE
        BY <1>3, Zenon
      <3>. QED BY <1>2, <3>1, Zenon
    <2>. QED BY <1>1, <2>1 DEF HandleType
  <1>4. CASE ~(handle.overlooked \/ Head(cpg_q) = "left_below")
    <2>1. handle' = [handle EXCEPT !.overlooked = FALSE]
      <3>1. (handle.overlooked \/ Head(cpg_q) = "left_below") = FALSE
        BY <1>4, Zenon
      <3>. QED BY <1>2, <3>1, Zenon
    <2>. QED BY <1>1, <1>4, <2>1 DEF HandleType
  <1>. QED BY <1>3, <1>4

LEMMA TypeService ==
  ASSUME TypeOK, Dies \/ Starts \/ Syncs \/ Notifies \/ \E e \in Event : Reports(e)
  PROVE  TypeOK'
  <1>1. MaxLives \in Nat /\ MaxEvents \in Nat /\ <<>> \in Seq(Event)
    BY BoundAssumption
  <1>2. handle \in HandleType /\ restart \in BOOLEAN /\ behind \in BOOLEAN /\ q_q \in BOOLEAN
    BY DEF TypeOK, HandleType
  <1>3. CASE Dies
    <2>1. handle' \in HandleType
      BY <1>2, <1>3 DEF Dies, HandleType
    <2>2. restart' \in BOOLEAN /\ behind' \in BOOLEAN /\ q_q' \in BOOLEAN
      BY <1>2, <1>3 DEF Dies
    <2>3. cpg_q' \in Seq(Event)
      BY <1>1, <1>3 DEF Dies, TypeOK
    <2>. QED BY <1>3, <2>1, <2>2, <2>3 DEF Dies, TypeOK, HandleType
  <1>4. CASE Starts
    <2>1. life' \in 1..MaxLives
      BY <1>1, <1>4 DEF Starts, TypeOK
    <2>. QED BY <1>4, <2>1 DEF Starts, TypeOK, quorum
  <1>5. CASE Syncs
    <2>1. coro' \in {"up", "syncing", "down"}
      BY <1>5 DEF Syncs
    <2>. QED BY <1>5, <2>1 DEF Syncs, TypeOK, quorum
  <1>6. CASE Notifies
    <2>1. left' \in 0..MaxEvents
      BY <1>1, <1>6 DEF Notifies, TypeOK
    <2>2. q_q' \in BOOLEAN
      BY <1>6, Zenon DEF Notifies
    <2>. QED BY <1>6, <2>1, <2>2 DEF Notifies, TypeOK
  <1>7. ASSUME NEW e \in Event, Reports(e) PROVE TypeOK'
    <2>1. left' \in 0..MaxEvents
      BY <1>1, <1>7 DEF Reports, TypeOK
    <2>2. cpg_q' \in Seq(Event)
      <3>1. cpg_q \in Seq(Event)
        BY DEF TypeOK
      <3>. QED BY <1>7, <3>1, Appended DEF Reports
    <2>3. handle' \in HandleType
      <3>1. (e \notin OurLeave) \in BOOLEAN
        OBVIOUS
      <3>. QED BY <1>2, <1>7, <3>1 DEF Reports, HandleType
    <2>. QED BY <1>7, <2>1, <2>2, <2>3 DEF Reports, TypeOK, HandleType, quorum
  <1>. QED BY <1>3, <1>4, <1>5, <1>6, <1>7

LEMMA TypeBringUp == ASSUME TypeOK, Top \/ BringUp PROVE TypeOK'
  <1>1. MaxLives \in Nat /\ MaxRetries \in Nat /\ MaxRetries # 0 /\ <<>> \in Seq(Event)
    BY BoundAssumption, CapAssumption
  <1>2. handle \in HandleType /\ restart \in BOOLEAN /\ behind \in BOOLEAN /\ q_q \in BOOLEAN
    BY DEF TypeOK, HandleType
  <1>3. life \in 0..MaxLives
    BY <1>1 DEF TypeOK
  <1>4. CASE Top
    <2>1. retries' \in 0..(MaxRetries - 1)
      BY <1>1, <1>4 DEF Top, TypeOK
    <2>2. pc' \in PC
      BY <1>4 DEF Top, PC
    <2>3. restart' \in BOOLEAN
      BY <1>4, Zenon DEF Top
    <2>. QED BY <1>4, <2>1, <2>2, <2>3 DEF Top, TypeOK, PC, service, quorum
  <1>5. CASE cpg_model_initialize
    <2>1. PICK result : cs_repeat(result, {"TRY_AGAIN", "QUEUE_FULL", "LIBRARY"}, "local")
                        /\ IF result = "OK"
                           THEN /\ handle' = [life |-> life, member |-> FALSE, overlooked |-> FALSE]
                                /\ behind' = (behind \/ handle.member)
                                /\ cpg_q' = <<>>
                           ELSE UNCHANGED <<handle, behind, cpg_q>>
      BY <1>5 DEF cpg_model_initialize
    <2>2. retries' \in 0..(MaxRetries - 1) /\ pc' \in PC /\ restart' \in BOOLEAN
      BY <2>1, CallRepeated DEF PC
    <2>3. handle' \in HandleType
      <3>1. CASE handle' = [life |-> life, member |-> FALSE, overlooked |-> FALSE]
        BY <1>3, <3>1 DEF HandleType
      <3>2. CASE handle' = handle
        BY <1>2, <3>2
      <3>. QED BY <2>1, <3>1, <3>2, Zenon
    <2>4. behind' \in BOOLEAN
      <3>1. (behind \/ handle.member) \in BOOLEAN
        BY Zenon
      <3>. QED BY <1>2, <2>1, <3>1
    <2>5. cpg_q' \in Seq(Event)
      BY <1>1, <2>1 DEF TypeOK
    <2>6. UNCHANGED <<service, quorum, ready, coro_chan>>
      BY <1>5 DEF cpg_model_initialize
    <2>. QED BY <2>2, <2>3, <2>4, <2>5, <2>6 DEF TypeOK, PC, HandleType, service, quorum
  <1>6. CASE cpg_local_get
    <2>1. PICK result : cs_repeat(result, {"TRY_AGAIN", "QUEUE_FULL"}, "join")
      BY <1>6 DEF cpg_local_get
    <2>2. retries' \in 0..(MaxRetries - 1) /\ pc' \in PC /\ restart' \in BOOLEAN
      BY <2>1, CallRepeated DEF PC
    <2>. QED BY <1>6, <2>2 DEF cpg_local_get, TypeOK, PC, service, quorum
  <1>7. CASE cpg_join
    <2>1. PICK result : cs_repeat(result, {"TRY_AGAIN", "QUEUE_FULL"}, "membership")
                        /\ handle' = [handle EXCEPT !.member = (result = "OK")]
      BY <1>7 DEF cpg_join
    <2>2. retries' \in 0..(MaxRetries - 1) /\ pc' \in PC /\ restart' \in BOOLEAN
      BY <2>1, CallRepeated DEF PC
    <2>3. handle' \in HandleType
      <3>1. CASE result = "OK"
        <4>1. handle' = [handle EXCEPT !.member = TRUE]
          BY <2>1, <3>1, Zenon
        <4>. QED BY <1>2, <4>1 DEF HandleType
      <3>2. CASE result # "OK"
        <4>1. (result = "OK") = FALSE
          BY <3>2
        <4>2. handle' = [handle EXCEPT !.member = FALSE]
          BY <2>1, <4>1, Zenon
        <4>. QED BY <1>2, <4>2 DEF HandleType
      <3>. QED BY <3>1, <3>2
    <2>. QED BY <1>7, <2>2, <2>3 DEF cpg_join, TypeOK, PC, HandleType, service, quorum
  <1>8. CASE cpg_membership_get
    <2>1. PICK result : cs_repeat(result, {"TRY_AGAIN", "QUEUE_FULL"}, "quorum")
      BY <1>8 DEF cpg_membership_get
    <2>2. retries' \in 0..(MaxRetries - 1) /\ pc' \in PC /\ restart' \in BOOLEAN
      BY <2>1, CallRepeated DEF PC
    <2>. QED BY <1>8, <2>2 DEF cpg_membership_get, TypeOK, PC, service, quorum
  <1>9. CASE connect_quorum
    <2>1. q_handle' \in 0..MaxLives /\ q_fd' \in 0..MaxLives
      BY <1>1, <1>3, <1>9 DEF connect_quorum, TypeOK
    <2>2. q_q' \in BOOLEAN
      BY <1>2, <1>9 DEF connect_quorum
    <2>. QED BY <1>9, <2>1, <2>2 DEF connect_quorum, TypeOK, service
  <1>. QED BY <1>4, <1>5, <1>6, <1>7, <1>8, <1>9 DEF BringUp

LEMMA TypeDispatch ==
  ASSUME TypeOK,
         Select \/ Dispatch \/ cpg_finalize \/ GoesOn \/ \E c \in Coro : Drain(c)
  PROVE  TypeOK'
  <1>1. MaxLives \in Nat /\ CoroCap \in Nat /\ <<>> \in Seq(Event) /\ cpg_q \in Seq(Event)
    BY BoundAssumption, CapAssumption DEF TypeOK
  <1>2. coro_chan \in [Coro -> 0..CoroCap]
    BY DEF TypeOK
  <1>3. ASSUME NEW ok, RestartUnless(ok) PROVE restart' \in BOOLEAN
    BY <1>3, Zenon DEF RestartUnless
  <1>4. CASE Select
    <2>1. ready' \subseteq {"cpg", "quorum"} /\ pc' \in PC
      BY <1>4 DEF Select, PC
    <2>. QED BY <1>4, <2>1 DEF Select, TypeOK, PC, service, quorum
  <1>5. CASE ConfchgCallback
    <2>1. cpg_q # <<>> /\ cpg_q' = Tail(cpg_q)
      BY <1>5 DEF ConfchgCallback
    <2>2. Head(cpg_q) \in Event /\ cpg_q' \in Seq(Event)
      BY <1>1, <2>1, Taken
    <2>3. Channel(Head(cpg_q)) \in Coro
      BY <2>2 DEF Channel, Coro
    <2>4. coro_chan[Channel(Head(cpg_q))] \in 0..CoroCap
      BY <1>2, <2>3
    <2>5. coro_chan' = [coro_chan EXCEPT ![Channel(Head(cpg_q))] =
                                            coro_chan[Channel(Head(cpg_q))] + 1]
          /\ coro_chan[Channel(Head(cpg_q))] < CoroCap
      BY <1>5 DEF ConfchgCallback
    <2>6. coro_chan' \in [Coro -> 0..CoroCap]
      <3>1. coro_chan[Channel(Head(cpg_q))] + 1 \in 0..CoroCap
        BY <1>1, <2>4, <2>5
      <3>. QED BY <1>2, <2>5, <3>1
    <2>7. restart' \in BOOLEAN
      BY <1>5, Zenon DEF ConfchgCallback
    <2>8. handle' \in HandleType
      BY <1>5, Overlooked DEF HandleType, TypeOK
    <2>. QED BY <1>5, <2>2, <2>6, <2>7, <2>8 DEF ConfchgCallback, TypeOK, HandleType, service, quorum
  <1>6. CASE cpg_dispatch
    <2>1. restart' \in BOOLEAN
      BY <1>3, <1>6 DEF cpg_dispatch
    <2>. QED BY <1>6, <2>1 DEF cpg_dispatch, TypeOK, service, quorum
  <1>7. CASE quorum_notification
    <2>1. coro_chan["quorumchg"] \in 0..CoroCap
      BY <1>2 DEF Coro
    <2>2. coro_chan' = [coro_chan EXCEPT !["quorumchg"] = coro_chan["quorumchg"] + 1]
          /\ coro_chan["quorumchg"] < CoroCap
      BY <1>7 DEF quorum_notification
    <2>3. coro_chan' \in [Coro -> 0..CoroCap]
      <3>1. coro_chan["quorumchg"] + 1 \in 0..CoroCap
        BY <1>1, <2>1, <2>2
      <3>. QED BY <1>2, <2>2, <3>1
    <2>4. q_q' \in BOOLEAN
      BY <1>7, Zenon DEF quorum_notification
    <2>. QED BY <1>7, <2>3, <2>4 DEF quorum_notification, TypeOK, service
  <1>8. CASE quorum_dispatch
    <2>1. restart' \in BOOLEAN
      BY <1>3, <1>8 DEF quorum_dispatch
    <2>. QED BY <1>8, <2>1 DEF quorum_dispatch, TypeOK, service, quorum
  <1>9. CASE cpg_finalize
    <2>1. handle' \in HandleType
      BY <1>1, <1>9 DEF cpg_finalize, NoHandle, HandleType
    <2>. QED BY <1>1, <1>9, <2>1 DEF cpg_finalize, TypeOK, HandleType, service, quorum
  <1>10. CASE GoesOn
    BY <1>10 DEF GoesOn, TypeOK, service, quorum
  <1>11. ASSUME NEW c \in Coro, Drain(c) PROVE TypeOK'
    <2>1. coro_chan[c] \in 0..CoroCap /\ coro_chan[c] > 0
          /\ coro_chan' = [coro_chan EXCEPT ![c] = coro_chan[c] - 1]
      BY <1>2, <1>11 DEF Drain
    <2>2. coro_chan' \in [Coro -> 0..CoroCap]
      BY <1>1, <1>2, <2>1
    <2>. QED BY <1>11, <2>2 DEF Drain, TypeOK, service, quorum
  <1>. QED BY <1>4, <1>5, <1>6, <1>7, <1>8, <1>9, <1>10, <1>11 DEF Dispatch

-----------------------------------------------------------------------------
(* The group.                                                              *)

LEMMA GroupInit == Init => GroupInv
  <1>1. Init => LifeInv /\ MemberInv /\ FreshInv /\ RestartInv
    BY DEF Init, NoHandle, LifeInv, MemberInv, FreshInv, RestartInv
  <1>2. Init => JoinedInv
    BY DEF Init, JoinedInv,
             Joined, Dispatching
  <1>. QED BY <1>1, <1>2 DEF GroupInv

\* corosync: a handle that it no longer serves may leave, one that it serves is a member.
LEMMA GroupService ==
  ASSUME Inv, Dies \/ Starts \/ Syncs \/ Notifies \/ \E e \in Event : Reports(e)
  PROVE  GroupInv'
  <1>1. /\ handle \in HandleType /\ life \in Nat /\ handle.life \in Nat /\ q_handle \in Nat
        /\ cpg_q \in Seq(Event)
    BY BoundAssumption DEF Inv, TypeOK, HandleType
  <1>2. UNCHANGED <<pc, restart, q_handle>> /\ handle'.life = handle.life
    BY <1>1 DEF Dies, Starts, Syncs, Notifies, Reports, quorum, HandleType
  <1>3. CASE Dies
    <2>1. coro' = "down" /\ handle'.member = FALSE /\ life' = life /\ cpg_q' \in {cpg_q, <<>>}
      BY <1>1, <1>3 DEF Dies, HandleType
    <2>2. LifeInv' /\ MemberInv' /\ FreshInv' /\ RestartInv'
      BY <1>2, <2>1
         DEF Inv, GroupInv, LifeInv, MemberInv, FreshInv, RestartInv, Dispatching
    <2>3. JoinedInv'
      BY <1>2, <2>1 DEF Inv, GroupInv, JoinedInv, Joined, Dispatching, Connected
    <2>. QED BY <2>2, <2>3 DEF GroupInv
  <1>4. CASE Starts
    <2>1. coro = "down" /\ life' = life + 1 /\ UNCHANGED <<handle, cpg_q>>
      BY <1>4 DEF Starts
    <2>2. handle.member = FALSE
      BY <1>1, <2>1 DEF Inv, GroupInv, MemberInv, Connected, HandleType
    <2>3. handle.life # life + 1 /\ q_handle # life + 1
      BY <1>1 DEF Inv, GroupInv, LifeInv
    <2>4. ~Connected(handle.life)' /\ ~Connected(q_handle)'
      BY <1>2, <2>1, <2>3 DEF Connected
    <2>5. LifeInv'
      BY <1>1, <1>2, <2>1 DEF Inv, GroupInv, LifeInv
    <2>6. MemberInv' /\ FreshInv' /\ RestartInv'
      BY <1>2, <2>1, <2>2 DEF Inv, GroupInv, MemberInv, FreshInv, RestartInv, Dispatching
    <2>7. JoinedInv'
      BY <1>2, <2>1, <2>4 DEF Inv, GroupInv, JoinedInv,
             Joined, Dispatching
    <2>. QED BY <2>5, <2>6, <2>7 DEF GroupInv
  <1>5. CASE Syncs \/ Notifies
    <2>1. UNCHANGED <<handle, cpg_q, life>> /\ (coro' = "down" <=> coro = "down")
      BY <1>5 DEF Syncs, Notifies, quorum
    <2>2. \A n : Connected(n)' <=> n = life /\ coro # "down"
      BY <2>1 DEF Connected
    <2>3. LifeInv' /\ FreshInv'
      BY <1>2, <2>1 DEF Inv, GroupInv, LifeInv, FreshInv
    <2>4. MemberInv' /\ RestartInv'
      BY <1>2, <2>1 DEF Inv, GroupInv, MemberInv, RestartInv, Dispatching, LeaveWaits, Connected
    <2>5. JoinedInv'
      BY <1>2, <2>1 DEF Inv, GroupInv, JoinedInv, Joined, Dispatching, LeaveWaits, Connected
    <2>. QED BY <2>3, <2>4, <2>5 DEF GroupInv
  <1>6. ASSUME NEW e \in Event, Reports(e) PROVE GroupInv'
    <2>1. /\ handle.member /\ cpg_q' = Append(cpg_q, e) /\ UNCHANGED <<coro, life>>
          /\ handle' = [handle EXCEPT !.member = (e \notin OurLeave)]
      BY <1>6 DEF Reports
    <2>2. handle'.member <=> e \notin OurLeave
      BY <1>1, <2>1 DEF HandleType
    <2>3. Connected(handle.life) /\ ~LeaveWaits /\ pc \notin {"local", "join"}
      BY <2>1 DEF Inv, GroupInv, MemberInv, FreshInv
    <2>4. LeaveWaits' <=> e \in OurLeave
      BY <1>1, <2>1, <2>3, Appended DEF LeaveWaits
    <2>5. LifeInv' /\ FreshInv'
      BY <1>2, <2>1, <2>3 DEF Inv, GroupInv, LifeInv, FreshInv
    <2>6. MemberInv'
      BY <1>2, <2>1, <2>2, <2>3, <2>4 DEF MemberInv, Connected
    <2>7. RestartInv'
      BY <1>2, <2>1, <2>2 DEF Inv, GroupInv, RestartInv, Dispatching, Connected
    <2>8. JoinedInv'
      BY <1>2, <2>2, <2>4 DEF Inv, GroupInv, JoinedInv,
             Joined, Dispatching
    <2>. QED BY <2>5, <2>6, <2>7, <2>8 DEF GroupInv
  <1>. QED BY <1>3, <1>4, <1>5, <1>6

\* A call that fails keeps runs() where it is, or sends it back to the top.
LEMMA CallFails ==
  ASSUME Inv, UNCHANGED <<coro, life, handle, q_handle, cpg_q>>,
         \/ pc' = pc /\ restart' = restart
         \/ pc' = "top" /\ restart' = TRUE
  PROVE  GroupInv'
  <1>1. LifeInv' /\ (Connected(handle.life)' <=> Connected(handle.life))
        /\ (Connected(q_handle)' <=> Connected(q_handle))
        /\ (LeaveWaits' <=> LeaveWaits) /\ handle' = handle /\ cpg_q' = cpg_q
    BY DEF Inv, GroupInv, LifeInv, Connected, LeaveWaits
  <1>2. CASE pc' = pc /\ restart' = restart
    <2>1. (Joined' <=> Joined) /\ (Dispatching' <=> Dispatching)
      BY <1>2 DEF Joined, Dispatching
    <2>. QED BY <1>1, <1>2, <2>1
             DEF Inv, GroupInv, MemberInv, FreshInv, RestartInv, JoinedInv
  <1>3. CASE pc' = "top" /\ restart' = TRUE
    <2>1. ~Joined'
      BY <1>3 DEF Joined, Dispatching
    <2>. QED BY <1>1, <1>3, <2>1
             DEF Inv, GroupInv, MemberInv, FreshInv, RestartInv, JoinedInv
  <1>. QED BY <1>2, <1>3

\* The way into the group.
LEMMA GroupBringUp == ASSUME Inv, Top \/ BringUp PROVE GroupInv'
  <1>1. /\ handle \in HandleType /\ life \in Nat /\ life # 0 /\ handle.life \in Nat
        /\ restart \in BOOLEAN
    BY BoundAssumption DEF Inv, TypeOK, HandleType
  <1>2. UNCHANGED <<coro, life>>
    BY DEF Top, BringUp, cpg_model_initialize, cpg_local_get, cpg_join, cpg_membership_get,
           connect_quorum, service
  <1>3. pc # "top" => ~restart \/ Dispatching
    BY DEF Inv, GroupInv, RestartInv
  <1>4. CASE Top
    <2>1. pc = "top" /\ restart' = FALSE /\ UNCHANGED <<handle, q_handle, cpg_q>>
          /\ (pc' = "init" \/ (~restart /\ pc' = "select"))
      BY <1>4 DEF Top, quorum
    <2>2. LifeInv' /\ MemberInv' /\ FreshInv' /\ RestartInv'
      BY <1>2, <2>1
         DEF Inv, GroupInv, LifeInv, MemberInv, FreshInv, RestartInv, LeaveWaits, Connected
    <2>3. JoinedInv'
      <3>1. CASE pc' = "init"
        BY <3>1 DEF JoinedInv,
             Joined, Dispatching
      <3>2. CASE ~restart /\ pc' = "select"
        <4>1. Joined
          BY <2>1, <3>2 DEF Joined
        <4>. QED BY <1>2, <2>1, <3>2, <4>1 DEF Inv, GroupInv, JoinedInv,
             LeaveWaits, Connected
      <3>. QED BY <2>1, <3>1, <3>2
    <2>. QED BY <2>2, <2>3 DEF GroupInv
  <1>5. CASE cpg_model_initialize
    <2>1. PICK result : cs_repeat(result, {"TRY_AGAIN", "QUEUE_FULL", "LIBRARY"}, "local")
                        /\ IF result = "OK"
                           THEN /\ handle' = [life |-> life, member |-> FALSE, overlooked |-> FALSE]
                                /\ behind' = (behind \/ handle.member)
                                /\ cpg_q' = <<>>
                           ELSE UNCHANGED <<handle, behind, cpg_q>>
      BY <1>5 DEF cpg_model_initialize
    <2>2. CallEffect(result, "local")
      BY <2>1, CallRepeated DEF Inv, PC
    <2>3. pc = "init" /\ ~restart /\ UNCHANGED q_handle
      BY <1>3, <1>5 DEF cpg_model_initialize, quorum, Dispatching
    <2>4. CASE result = "OK"
      <3>1. /\ pc' = "local" /\ restart' = restart
            /\ handle' = [life |-> life, member |-> FALSE, overlooked |-> FALSE]
            /\ cpg_q' = <<>>
        BY <2>1, <2>2, <2>4 DEF CallEffect
      <3>2. handle'.life = life /\ handle'.member = FALSE
        BY <3>1
      <3>3. LifeInv' /\ MemberInv' /\ FreshInv' /\ RestartInv' /\ JoinedInv'
        BY <1>1, <1>2, <2>3, <3>1, <3>2
           DEF Inv, GroupInv, LifeInv, MemberInv, FreshInv, RestartInv, JoinedInv,
             Joined, Dispatching
      <3>. QED BY <3>3 DEF GroupInv
    <2>5. CASE result # "OK"
      BY <1>2, <2>1, <2>2, <2>3, <2>5, CallFails DEF CallEffect
    <2>. QED BY <2>4, <2>5
  <1>6. CASE cpg_local_get
    <2>1. PICK result : cs_repeat(result, {"TRY_AGAIN", "QUEUE_FULL"}, "join")
      BY <1>6 DEF cpg_local_get
    <2>2. CallEffect(result, "join")
      BY <2>1, CallRepeated DEF Inv, PC
    <2>3. pc = "local" /\ ~restart /\ UNCHANGED <<handle, q_handle, cpg_q>>
      BY <1>3, <1>6 DEF cpg_local_get, quorum, Dispatching
    <2>4. CASE pc' = "join" /\ restart' = restart
      <3>1. LifeInv' /\ MemberInv' /\ FreshInv' /\ RestartInv' /\ JoinedInv'
        BY <1>1, <1>2, <2>3, <2>4
           DEF Inv, GroupInv, LifeInv, MemberInv, FreshInv, RestartInv, JoinedInv,
             Joined, Dispatching
      <3>. QED BY <3>1 DEF GroupInv
    <2>. QED BY <1>2, <2>2, <2>3, <2>4, CallFails DEF CallEffect
  <1>7. CASE cpg_join
    <2>1. PICK result \in IF behind THEN {"EXIST"} ELSE Results(handle.life) :
                 /\ cs_repeat(result, {"TRY_AGAIN", "QUEUE_FULL"}, "membership")
                 /\ handle' = [handle EXCEPT !.member = (result = "OK")]
      BY <1>7 DEF cpg_join
    <2>2. CallEffect(result, "membership")
      BY <2>1, CallRepeated DEF Inv, PC
    <2>3. pc = "join" /\ ~restart /\ UNCHANGED <<q_handle, cpg_q>>
      BY <1>3, <1>7 DEF cpg_join, quorum, Dispatching
    <2>4. ~handle.member /\ cpg_q = <<>> /\ handle.life # 0
      BY <2>3 DEF Inv, GroupInv, FreshInv, JoinedInv
    <2>5. CASE result = "OK"
      <3>1. pc' = "membership" /\ restart' = restart
        BY <2>2, <2>5 DEF CallEffect
      <3>2. handle'.life = handle.life /\ handle'.member = TRUE
        <4>1. handle' = [handle EXCEPT !.member = TRUE]
          BY <2>1, <2>5, Zenon
        <4>. QED BY <1>1, <4>1 DEF HandleType
      <3>3. Connected(handle.life)
        BY <2>1, <2>5 DEF Results
      <3>4. ~LeaveWaits'
        BY <2>3, <2>4 DEF LeaveWaits
      <3>5. LifeInv' /\ MemberInv' /\ FreshInv' /\ RestartInv' /\ JoinedInv'
        BY <1>1, <1>2, <2>3, <2>4, <3>1, <3>2, <3>3, <3>4
           DEF Inv, GroupInv, LifeInv, MemberInv, FreshInv, RestartInv, JoinedInv, Connected
      <3>. QED BY <3>5 DEF GroupInv
    <2>6. CASE result # "OK"
      <3>1. handle' = [handle EXCEPT !.member = FALSE]
        <4>1. (result = "OK") = FALSE
          BY <2>6
        <4>. QED BY <2>1, <4>1, Zenon
      <3>2. handle' = handle
        BY <1>1, <2>4, <3>1 DEF HandleType
      <3>. QED BY <1>2, <2>2, <2>3, <2>6, <3>2, CallFails DEF CallEffect
    <2>. QED BY <2>5, <2>6
  <1>8. CASE cpg_membership_get
    <2>1. PICK result : cs_repeat(result, {"TRY_AGAIN", "QUEUE_FULL"}, "quorum")
      BY <1>8 DEF cpg_membership_get
    <2>2. CallEffect(result, "quorum")
      BY <2>1, CallRepeated DEF Inv, PC
    <2>3. pc = "membership" /\ ~restart /\ UNCHANGED <<handle, q_handle, cpg_q>>
      BY <1>3, <1>8 DEF cpg_membership_get, quorum, Dispatching
    <2>4. CASE pc' = "quorum" /\ restart' = restart
      <3>1. Joined
        BY <2>3 DEF Joined
      <3>2. LifeInv' /\ MemberInv' /\ FreshInv' /\ RestartInv' /\ JoinedInv'
        BY <1>1, <1>2, <2>3, <2>4, <3>1
           DEF Inv, GroupInv, LifeInv, MemberInv, FreshInv, RestartInv, JoinedInv,
             LeaveWaits, Connected
      <3>. QED BY <3>2 DEF GroupInv
    <2>. QED BY <1>2, <2>2, <2>3, <2>4, CallFails DEF CallEffect
  <1>9. CASE connect_quorum
    <2>1. pc = "quorum" /\ pc' = "select" /\ ~restart /\ UNCHANGED <<restart, handle, cpg_q>>
          /\ q_handle' \in {life, 0}
      BY <1>3, <1>9 DEF connect_quorum, Dispatching
    <2>2. Joined
      BY <2>1 DEF Joined
    <2>3. LifeInv' /\ MemberInv' /\ FreshInv' /\ RestartInv' /\ JoinedInv'
      BY <1>1, <1>2, <2>1, <2>2
         DEF Inv, GroupInv, LifeInv, MemberInv, FreshInv, RestartInv, JoinedInv,
             LeaveWaits, Connected
    <2>. QED BY <2>3 DEF GroupInv
  <1>. QED BY <1>4, <1>5, <1>6, <1>7, <1>8, <1>9 DEF BringUp

\* Polling, dispatching, and what comes of it.
LEMMA GroupDispatch ==
  ASSUME Inv,
         Select \/ Dispatch \/ cpg_finalize \/ GoesOn \/ \E c \in Coro : Drain(c)
  PROVE  GroupInv'
  <1>1. /\ handle \in HandleType /\ life \in Nat /\ handle.life \in Nat
        /\ cpg_q \in Seq(Event) /\ restart \in BOOLEAN
    BY BoundAssumption DEF Inv, TypeOK, HandleType
  <1>2. UNCHANGED <<coro, life, q_handle>>
    BY DEF Select, Dispatch, ConfchgCallback, cpg_dispatch, quorum_notification, quorum_dispatch,
           cpg_finalize, GoesOn, Drain, service, quorum
  <1>3. \A n : Connected(n)' <=> Connected(n)
    BY <1>2 DEF Connected
  <1>4. CASE Select
    <2>1. pc = "select" /\ pc' \in {"cpg_dispatch", "crashed"}
          /\ UNCHANGED <<restart, handle, cpg_q>>
      BY <1>4 DEF Select
    <2>2. Joined /\ ~restart
      BY <2>1 DEF Joined, Dispatching, Inv, GroupInv, RestartInv
    <2>3. LifeInv' /\ MemberInv' /\ FreshInv' /\ RestartInv' /\ JoinedInv'
      BY <1>2, <2>1, <2>2
         DEF Inv, GroupInv, LifeInv, MemberInv, FreshInv, RestartInv, JoinedInv,
             Joined, Dispatching, LeaveWaits, Connected
    <2>. QED BY <2>3 DEF GroupInv
  <1>5. CASE ConfchgCallback
    <2>1. /\ pc = "cpg_dispatch" /\ cpg_q # <<>> /\ cpg_q' = Tail(cpg_q)
          /\ restart' = (restart \/ LeftTheBuilding(Head(cpg_q))) /\ UNCHANGED pc
      BY <1>5 DEF ConfchgCallback
    <2>2. /\ LeaveWaits => \/ Head(cpg_q) \in {"left_self", "left_below"}
                          \/ LeaveWaits'
          /\ LeaveWaits' => LeaveWaits
          /\ Head(cpg_q) = "left_self" => LeaveWaits
      BY <1>1, <2>1, Taken DEF LeaveWaits, OurLeave
    <2>8. /\ handle'.life = handle.life /\ handle'.member = handle.member
          /\ handle.overlooked => handle'.overlooked
          /\ Head(cpg_q) = "left_below" => handle'.overlooked
      BY <1>5, Overlooked DEF Inv
    <2>3. restart' <=> restart \/ Head(cpg_q) = "left_self"
      BY <2>1, Zenon DEF LeftTheBuilding
    <2>4. Joined /\ Dispatching /\ Dispatching'
      BY <2>1 DEF Joined, Dispatching
    <2>5. LifeInv' /\ MemberInv' /\ FreshInv'
      BY <1>2, <2>1, <2>2, <2>8 DEF Inv, GroupInv, LifeInv, MemberInv, FreshInv, Connected
    <2>6. RestartInv'
      BY <1>2, <2>1, <2>2, <2>8, <2>3, <2>4
         DEF Inv, GroupInv, MemberInv, RestartInv, Connected, Dispatching
    <2>7. JoinedInv'
      BY <1>2, <2>1, <2>2, <2>8, <2>3, <2>4 DEF Inv, GroupInv, JoinedInv, Connected
    <2>. QED BY <2>5, <2>6, <2>7 DEF GroupInv
  <1>6. CASE cpg_dispatch
    <2>1. pc = "cpg_dispatch" /\ pc' = "quorum_dispatch" /\ UNCHANGED <<handle, cpg_q>>
      BY <1>6 DEF cpg_dispatch
    <2>2. restart' => restart \/ ~Connected(handle.life)
      BY <1>6, Zenon DEF cpg_dispatch, RestartUnless
    <2>3. restart => restart'
      BY <1>6, Zenon DEF cpg_dispatch, RestartUnless
    <2>4. Joined /\ Dispatching /\ Dispatching'
      BY <2>1 DEF Joined, Dispatching
    <2>5. LifeInv' /\ MemberInv' /\ FreshInv'
      BY <1>2, <2>1 DEF Inv, GroupInv, LifeInv, MemberInv, FreshInv, LeaveWaits, Connected
    <2>6. RestartInv'
      BY <1>2, <2>1, <2>2, <2>4 DEF Inv, GroupInv, MemberInv, RestartInv, Connected, Dispatching
    <2>7. JoinedInv'
      BY <1>2, <2>1, <2>3, <2>4 DEF Inv, GroupInv, JoinedInv,
             LeaveWaits, Connected
    <2>. QED BY <2>5, <2>6, <2>7 DEF GroupInv
  <1>7. CASE quorum_notification \/ \E c \in Coro : Drain(c)
    <2>1. UNCHANGED <<pc, restart, handle, cpg_q>>
      BY <1>7 DEF quorum_notification, Drain
    <2>. QED BY <1>2, <2>1, CallFails
  <1>8. CASE quorum_dispatch
    <2>1. pc = "quorum_dispatch" /\ pc' = "check" /\ UNCHANGED <<handle, cpg_q>>
      BY <1>8 DEF quorum_dispatch
    <2>2. restart' => restart \/ ~Connected(q_handle)
      BY <1>8, Zenon DEF quorum_dispatch, RestartUnless
    <2>3. restart => restart'
      BY <1>8, Zenon DEF quorum_dispatch, RestartUnless
    <2>4. Joined /\ Dispatching /\ Dispatching'
      BY <2>1 DEF Joined, Dispatching
    <2>5. LifeInv' /\ MemberInv' /\ FreshInv'
      BY <1>2, <2>1 DEF Inv, GroupInv, LifeInv, MemberInv, FreshInv, LeaveWaits, Connected
    <2>6. RestartInv'
      BY <1>2, <2>1, <2>2, <2>4 DEF Inv, GroupInv, RestartInv, Connected, Dispatching
    <2>7. JoinedInv'
      BY <1>2, <2>1, <2>3, <2>4 DEF Inv, GroupInv, JoinedInv,
             LeaveWaits, Connected
    <2>. QED BY <2>5, <2>6, <2>7 DEF GroupInv
  <1>9. CASE cpg_finalize
    <2>1. restart /\ pc' = "top" /\ restart' = restart /\ handle' = NoHandle /\ cpg_q' = <<>>
      BY <1>9 DEF cpg_finalize
    <2>2. handle'.life = 0 /\ ~handle'.member /\ ~Joined' /\ ~LeaveWaits'
      BY <2>1 DEF NoHandle, Joined, Dispatching, LeaveWaits
    <2>3. LifeInv' /\ MemberInv' /\ FreshInv' /\ RestartInv' /\ JoinedInv'
      BY <1>1, <1>2, <2>1, <2>2
         DEF Inv, GroupInv, LifeInv, MemberInv, FreshInv, RestartInv, JoinedInv
    <2>. QED BY <2>3 DEF GroupInv
  <1>10. CASE GoesOn
    <2>1. pc = "check" /\ ~restart /\ pc' = "top" /\ UNCHANGED <<restart, handle, cpg_q>>
      BY <1>10 DEF GoesOn
    <2>2. Joined
      BY <2>1 DEF Joined, Dispatching
    <2>3. LifeInv' /\ MemberInv' /\ FreshInv' /\ RestartInv' /\ JoinedInv'
      BY <1>2, <2>1, <2>2
         DEF Inv, GroupInv, LifeInv, MemberInv, FreshInv, RestartInv, JoinedInv,
             LeaveWaits, Connected
    <2>. QED BY <2>3 DEF GroupInv
  <1>. QED BY <1>4, <1>5, <1>6, <1>7, <1>8, <1>9, <1>10 DEF Dispatch

-----------------------------------------------------------------------------
LEMMA InvNext == ASSUME Inv, Next PROVE Inv'
  <1>1. CASE Dies \/ Starts \/ Syncs \/ Notifies \/ \E e \in Event : Reports(e)
    BY <1>1, TypeService, GroupService DEF Inv
  <1>2. CASE Top \/ BringUp
    BY <1>2, TypeBringUp, GroupBringUp DEF Inv
  <1>3. CASE Select \/ Dispatch \/ cpg_finalize \/ GoesOn \/ \E c \in Coro : Drain(c)
    BY <1>3, TypeDispatch, GroupDispatch DEF Inv
  <1>. QED BY <1>1, <1>2, <1>3 DEF Next, runs

LEMMA InvHolds == Spec => []Inv
  <1>1. Init => Inv
    BY TypeInit, GroupInit DEF Inv
  <1>2. Inv /\ UNCHANGED vars => Inv'
    <2>. SUFFICES ASSUME Inv, UNCHANGED vars PROVE Inv'
      OBVIOUS
    <2>1. TypeOK'
      BY DEF vars, Inv, TypeOK
    <2>2. GroupInv'
      BY CallFails DEF vars
    <2>. QED BY <2>1, <2>2 DEF Inv
  <1>3. Inv /\ [Next]_vars => Inv'
    BY <1>2, InvNext
  <1>. QED BY <1>1, <1>3, PTL DEF Spec

\* Every variable has the values its C counterpart can take, no call is tried more often
\* than MaxRetries times, and no channel holds more than its capacity.
THEOREM TypeCorrect == Spec => []TypeOK
  <1>1. Inv => TypeOK
    BY DEF Inv
  <1>. QED BY <1>1, InvHolds, PTL

\* However often runs() retried, backed off and started over: when it polls, its handle
\* is in the group, or died with corosync, or a leave is queued or noticed, and in no
\* other case but that of a leave it overlooked, in a list that another process began.
THEOREM MemberWhenPolling == Spec => []PollsAsMember
  <1>1. Inv => PollsAsMember
    BY DEF Inv, GroupInv, JoinedInv, Joined, Dispatching, PollsAsMember, Polling
  <1>. QED BY <1>1, InvHolds, PTL

\* cpg_finalize leaves the group only when this process was dropped from it or a
\* connection to corosync failed.
THEOREM LeavesWithReason == Spec => NoNeedlessLeave
  <1>1. Inv /\ [Next]_vars => [cpg_finalize => ~handle.member \/ ~Connected(q_handle)]_vars
    <2>. SUFFICES ASSUME Inv, cpg_finalize PROVE ~handle.member \/ ~Connected(q_handle)
      OBVIOUS
    <2>. QED BY DEF cpg_finalize, Inv, GroupInv, RestartInv
  <1>. QED BY <1>1, InvHolds, PTL DEF Spec, NoNeedlessLeave
=============================================================================
