------------------------- MODULE ReshareRingProofs -------------------------
(***************************************************************************)
(* Proofs about the threads of ReshareRing, for every sequence of calls,   *)
(* every channel capacity and every set of connections that may break.     *)
(***************************************************************************)
EXTENDS ReshareRing, SequenceTheorems, TLAPS

InCall == {"script", "post_recv", "wait_send", "wait_recv", "check"}
Stopping == {"stop", "join", "gone"}

\* The calls a protocol thread is in exist, and shutdown_ tells that it is over.
MainOK ==
    \A p \in Party :
        /\ pc[p] \in InCall => call[p] <= Len(Calls)
        /\ shutdown[p] <=> pc[p] \in Stopping

\* The handshake between a protocol thread and worker w: the flags say whose turn
\* it is.  Outside the hand-over both are down (until shutdown raises ready), and
\* inside it exactly one is up, with the size of this call if it is ready.
HandshakeOf(p, w) ==
    LET lent == pc[p] \in HandedOver(w)
    IN  /\ worker[p][w] = "work" => lent /\ ready[p][w]
        /\ ready[p][w] => ~done[p][w] /\ (lent \/ shutdown[p])
        /\ done[p][w] => lent
        /\ lent => done[p][w] \/ (ready[p][w] /\ total[p][w] = Calls[call[p]].chunks)

Handshake == \A p \in Party, w \in Worker : HandshakeOf(p, w)

IInv == TypeOK /\ MainOK /\ Handshake

USE DEF Worker, InCall, Stopping, PcValues, WorkerValues

-----------------------------------------------------------------------------
LEMMA CallTypes == \A c \in Nat \ {0} : c <= Len(Calls) => Calls[c].chunks \in Nat
<1> TAKE c \in Nat \ {0}
<1> HAVE c <= Len(Calls)
<1>1. c \in 1..Len(Calls)
  OBVIOUS
<1>2. Calls[c] \in [kind : {"vector", "scalar", "reveal"}, chunks : Nat \ {0}]
  BY <1>1, CallsAssumption, ElementOfSeq
<1> QED BY <1>2

LEMMA InitIInv == Init => IInv
  BY DEF Init, IInv, TypeOK, MainOK, Handshake, HandshakeOf, HandedOver

\* What NotifyOne may do to asleep.
LEMMA NotifyType ==
    ASSUME TypeOK, NEW p \in Party, NEW w \in Worker, NotifyOne(p, w)
    PROVE  asleep' \in [Party -> [Worker -> SUBSET {"main", "worker"}]]
<1>1. CASE asleep' = asleep
  BY <1>1 DEF TypeOK
<1>2. ASSUME NEW t, asleep' = [asleep EXCEPT ![p][w] = asleep[p][w] \ {t}]
      PROVE  asleep' \in [Party -> [Worker -> SUBSET {"main", "worker"}]]
  <2>1. asleep[p][w] \ {t} \in SUBSET {"main", "worker"}
    BY DEF TypeOK
  <2> QED BY <1>2, <2>1 DEF TypeOK
<1> QED BY <1>1, <1>2 DEF NotifyOne, Set

\* Steps that leave the protocol thread, the flags and the workers alone.
LEMMA QuietStep ==
    ASSUME IInv, UNCHANGED <<pc, call, total, ready, done, shutdown, worker>>,
           TypeOK'
    PROVE  IInv'
  BY DEF IInv, MainOK, Handshake, HandshakeOf

LEMMA MainStep ==
    ASSUME IInv, NEW p \in Party, MainThread(p)
    PROVE  IInv'
<1> USE DEF IInv
<1>1. CASE CallScript(p)
  <2>1. TypeOK'
    BY <1>1 DEF TypeOK, CallScript, Step, flags, net
  <2>2. MainOK' /\ Handshake'
    BY <1>1 DEF TypeOK, MainOK, Handshake, HandshakeOf, HandedOver, CallScript, Step, Calling,
                flags, net
  <2> QED BY <2>1, <2>2
<1>2. CASE ScriptTransfer(p)
  <2> DEFINE d == Head(todo[p])[1]
  <2>0. off' \in [Party -> [Worker -> Nat]]
    <3>1. PICK v : off' = [off EXCEPT ![p][d] = v] /\ v \in {0, off[p][d] + 1}
      BY <1>2, Zenon DEF ScriptTransfer, Set
    <3>2. ASSUME d \in Worker PROVE v \in Nat
      BY <3>1, <3>2 DEF TypeOK
    <3>3. [off[p] EXCEPT ![d] = v] \in [Worker -> Nat]
      <4> DEFINE g == [off[p] EXCEPT ![d] = v]
      <4>1. off[p] \in [Worker -> Nat]
        BY DEF TypeOK
      <4>2. ASSUME NEW w \in Worker PROVE g[w] \in Nat
        BY <3>2, <4>1
      <4>3. g \in [Worker -> Nat]
        BY <4>1, <4>2
      <4> QED BY <4>3
    <3> QED BY <3>1, <3>3 DEF TypeOK
  <2>1. TypeOK'
    BY <1>2, <2>0 DEF TypeOK, ScriptTransfer, flags, net
  <2>2. MainOK' /\ Handshake'
    BY <1>2 DEF TypeOK, MainOK, Handshake, HandshakeOf, HandedOver, ScriptTransfer, flags
  <2> QED BY <2>1, <2>2
<1>3. CASE ScriptThrow(p)
  <2>1. TypeOK'
    BY <1>3 DEF TypeOK, ScriptThrow, flags, net
  <2>2. MainOK' /\ Handshake'
    BY <1>3 DEF TypeOK, MainOK, Handshake, HandshakeOf, HandedOver, ScriptThrow, flags
  <2> QED BY <2>1, <2>2
<1>4. CASE PostSend(p)
  <2>1. TypeOK'
    BY <1>4, CallTypes, NotifyType DEF TypeOK, PostSend, Step, Calling, HandOver, Set, net
  <2>2. MainOK' /\ Handshake'
    BY <1>4 DEF TypeOK, MainOK, Handshake, HandshakeOf, HandedOver, PostSend, Step, Calling,
                HandOver, Set, net
  <2> QED BY <2>1, <2>2
<1>5. CASE PostRecv(p)
  <2>1. TypeOK'
    BY <1>5, CallTypes, NotifyType DEF TypeOK, MainOK, PostRecv, Step, HandOver, Set, net
  <2>2. MainOK' /\ Handshake'
    BY <1>5 DEF TypeOK, MainOK, Handshake, HandshakeOf, HandedOver, PostRecv, Step, HandOver,
                Set, net
  <2> QED BY <2>1, <2>2
<1>6. ASSUME NEW w \in Worker, WaitSleep(p, w)
      PROVE  IInv'
  <2>1. TypeOK'
    BY <1>6 DEF TypeOK, WaitSleep, Sleep, Set, flags, net
  <2> QED BY <1>6, <2>1, QuietStep DEF WaitSleep, flags, net
<1>7. ASSUME NEW w \in Worker, WaitDone(p, w)
      PROVE  IInv'
  <2>1. TypeOK'
    BY <1>7 DEF TypeOK, WaitDone, WaitAt, AfterWait, Step, Reset, Set, net
  <2>2. MainOK'
    BY <1>7 DEF TypeOK, MainOK, WaitDone, WaitAt, AfterWait, Step, net
  <2>3. Handshake'
    <3>0. /\ pc' = [pc EXCEPT ![p] = AfterWait(w)] /\ pc[p] = WaitAt(w) /\ done[p][w]
          /\ done' = [done EXCEPT ![p][w] = FALSE]
          /\ UNCHANGED <<call, total, ready, shutdown, worker>>
      BY <1>7 DEF WaitDone, Step, Reset, Set
    <3>1. ASSUME NEW q \in Party, NEW v \in Worker, q # p  PROVE HandshakeOf(q, v)'
      <4>1. pc'[q] = pc[q] /\ done'[q] = done[q]
        BY <3>0, <3>1 DEF TypeOK
      <4> QED BY <3>0, <3>1, <4>1 DEF Handshake, HandshakeOf, HandedOver
    <3>2. ASSUME NEW v \in Worker PROVE HandshakeOf(p, v)'
      <4>1. pc'[p] = AfterWait(w) /\ done'[p] = [done[p] EXCEPT ![w] = FALSE]
        BY <3>0 DEF TypeOK
      <4>2. HandshakeOf(p, v) /\ HandshakeOf(p, w)
        BY DEF Handshake
      <4>3. CASE v = w
        BY <3>0, <4>1, <4>2, <4>3 DEF TypeOK, HandshakeOf, HandedOver, WaitAt, AfterWait
      <4>4. CASE v # w
        <5>1. done'[p][v] = done[p][v]
          BY <4>1, <4>4 DEF TypeOK
        <5> QED BY <3>0, <4>1, <4>2, <4>4, <5>1 DEF HandshakeOf, HandedOver, WaitAt, AfterWait
      <4> QED BY <4>3, <4>4
    <3> QED BY <3>1, <3>2 DEF Handshake
  <2> QED BY <2>1, <2>2, <2>3
<1>8. CASE Return(p)
  <2>1. UNCHANGED flags /\ UNCHANGED worker /\ UNCHANGED asleep
    BY <1>8 DEF Return
  <2>2. CASE failed[p] = {}
    <3>1. /\ pc[p] = "check"
          /\ pc' = [pc EXCEPT ![p] = "caller"]
          /\ call' = [call EXCEPT ![p] = call[p] + 1]
          /\ off' = [off EXCEPT ![p] = [w \in Worker |-> 0]]
      BY <1>8, <2>2 DEF Return
    <3>2. TypeOK'
      BY <2>1, <3>1 DEF TypeOK, flags
    <3>3. MainOK' /\ Handshake'
      BY <2>1, <3>1 DEF TypeOK, MainOK, Handshake, HandshakeOf, HandedOver, flags
    <3> QED BY <3>2, <3>3
  <2>3. CASE failed[p] # {}
    <3>1. /\ pc[p] = "check"
          /\ pc' = [pc EXCEPT ![p] = "thrown"]
          /\ UNCHANGED <<call, off>>
      BY <1>8, <2>3 DEF Return
    <3>2. TypeOK'
      BY <2>1, <3>1 DEF TypeOK, flags
    <3>3. MainOK' /\ Handshake'
      BY <2>1, <3>1 DEF TypeOK, MainOK, Handshake, HandshakeOf, HandedOver, flags
    <3> QED BY <3>2, <3>3
  <2> QED BY <2>2, <2>3
<1>9. CASE ShutdownSend(p)
  <2>1. TypeOK'
    BY <1>9, NotifyType DEF TypeOK, ShutdownSend, Set, net
  <2>2. MainOK' /\ Handshake'
    BY <1>9 DEF TypeOK, MainOK, Handshake, HandshakeOf, HandedOver, ShutdownSend, Set, net
  <2> QED BY <2>1, <2>2
<1>10. CASE ShutdownRecv(p)
  <2>1. TypeOK'
    BY <1>10, NotifyType DEF TypeOK, ShutdownRecv, WakeRecv, Step, Set, net
  <2>2. MainOK' /\ Handshake'
    BY <1>10 DEF TypeOK, MainOK, Handshake, HandshakeOf, HandedOver, ShutdownRecv, WakeRecv,
                 Step, Set, net
  <2> QED BY <2>1, <2>2
<1>11. CASE Join(p)
  <2>1. TypeOK'
    BY <1>11 DEF TypeOK, Join, Step, flags, net
  <2>2. MainOK' /\ Handshake'
    BY <1>11 DEF TypeOK, MainOK, Handshake, HandshakeOf, HandedOver, Join, Step, flags
  <2> QED BY <2>1, <2>2
<1> QED
  BY <1>1, <1>2, <1>3, <1>4, <1>5, <1>6, <1>7, <1>8, <1>9, <1>10, <1>11 DEF MainThread

LEMMA FinishStep ==
    ASSUME IInv, NEW p \in Party, NEW w \in Worker, NEW E \in SUBSET Worker,
           WorkerFinish(p, w, E)
    PROVE  IInv'
<1> USE DEF IInv
<1>1. TypeOK'
  <2>1. asleep' \in [Party -> [Worker -> SUBSET {"main", "worker"}]]
    BY NotifyType DEF WorkerFinish
  <2>2. failed' \in [Party -> SUBSET Worker]
    BY DEF TypeOK, WorkerFinish
  <2>3. worker' \in [Party -> [Worker -> WorkerValues]]
    BY DEF TypeOK, WorkerFinish, Move, Set, WorkerValues
  <2>4. /\ ready' \in [Party -> [Worker -> BOOLEAN]]
        /\ done' \in [Party -> [Worker -> BOOLEAN]]
    BY DEF TypeOK, WorkerFinish, ReadyAfter, Set
  <2> QED BY <2>1, <2>2, <2>3, <2>4 DEF TypeOK, WorkerFinish
<1>2. MainOK' /\ Handshake'
  <2>1. MainOK'
    BY DEF TypeOK, MainOK, WorkerFinish, Move, ReadyAfter, Set
  <2>2. Handshake'
    BY SMTT(30) DEF TypeOK, MainOK, Handshake, HandshakeOf, HandedOver, WorkerFinish, Move, ReadyAfter, Set
  <2> QED BY <2>1, <2>2
<1> QED BY <1>1, <1>2

LEMMA WorkerStep ==
    ASSUME IInv, NEW p \in Party, NEW w \in Worker, WorkerThread(p, w)
    PROVE  IInv'
<1> USE DEF IInv
<1>1. CASE WorkerSleep(p, w)
  <2>1. TypeOK'
    BY <1>1 DEF TypeOK, WorkerSleep, Sleep, Set, flags, net
  <2> QED BY <1>1, <2>1, QuietStep DEF WorkerSleep, flags, net
<1>2. CASE WorkerStart(p, w)
  <2>1. TypeOK'
    BY <1>2 DEF TypeOK, WorkerStart, Move, Set, flags, net
  <2>2. MainOK' /\ Handshake'
    BY <1>2 DEF TypeOK, MainOK, Handshake, HandshakeOf, HandedOver, WorkerStart, Move, Set, flags
  <2> QED BY <2>1, <2>2
<1>3. CASE WorkerTransfer(p, w)
  <2>1. TypeOK'
    BY <1>3 DEF TypeOK, WorkerTransfer, Set, flags
  <2> QED BY <1>3, <2>1, QuietStep DEF WorkerTransfer, flags
<1>4. CASE WorkerEnd(p, w)
  BY <1>4, FinishStep DEF WorkerEnd
<1>5. CASE WorkerThrow(p, w)
  BY <1>5, FinishStep DEF WorkerThrow
<1> QED BY <1>1, <1>2, <1>3, <1>4, <1>5 DEF WorkerThread

LEMMA NextIInv == IInv /\ [Next]_vars => IInv'
<1> SUFFICES ASSUME IInv, [Next]_vars PROVE IInv'
  OBVIOUS
<1>1. CASE UNCHANGED vars
  BY <1>1 DEF IInv, TypeOK, MainOK, Handshake, HandshakeOf, vars, flags, net
<1>2. ASSUME NEW p \in Party, MainThread(p)
      PROVE  IInv'
  BY <1>2, MainStep
<1>3. ASSUME NEW p \in Party, NEW w \in Worker, WorkerThread(p, w)
      PROVE  IInv'
  BY <1>3, WorkerStep
<1>4. ASSUME NEW p \in Party, NEW w \in Worker, SpuriousWakeup(p, w)
      PROVE  IInv'
  <2>1. TypeOK'
    BY <1>4, NotifyType DEF IInv, TypeOK, SpuriousWakeup, flags, net
  <2> QED BY <1>4, <2>1, QuietStep DEF SpuriousWakeup, flags, net
<1>5. ASSUME NEW l \in Breakable \ broken, Break(l)
      PROVE  IInv'
  <2>1. TypeOK'
    BY <1>5 DEF IInv, TypeOK, Break, flags
  <2> QED BY <1>5, <2>1, QuietStep DEF Break, flags
<1> QED BY <1>1, <1>2, <1>3, <1>4, <1>5 DEF Next

\* The inductive invariant holds in every reachable state.
THEOREM IInvAlways == Spec => []IInv
  BY InitIInv, NextIInv, PTL DEF Spec

-----------------------------------------------------------------------------
\* Every variable of the threads keeps its type, for every protocol.
THEOREM RingTypeCorrect == Spec => []TypeOK
<1>1. IInv => TypeOK BY DEF IInv
<1> QED BY <1>1, IInvAlways, PTL

\* sendLoop and recvLoop use the buffers that _reshare_ring was given, outside any
\* mutex, only while _reshare_ring has not returned, for every protocol, channel
\* capacity, schedule, spurious wakeup and broken connection.
THEOREM BuffersAreLent == Spec => []BufferIsLent
<1>1. IInv => BufferIsLent
  BY DEF IInv, Handshake, HandshakeOf, BufferIsLent
<1> QED BY <1>1, IInvAlways, PTL

-----------------------------------------------------------------------------
\* The streams of chunks, part one: which call each party is in and how many of its
\* transfers it has made, and what a step may do to them.

\* What each party moves in call c, and from whom it receives.
RevealOps(p) ==
    IF p = 0 THEN {Recv(1), Send(1), Send(2)} ELSE IF p = 1 THEN {Send(0), Recv(0)} ELSE {Recv(0)}
Ops(p, c) ==
    IF Calls[c].kind = "reveal" THEN RevealOps(p) ELSE {Send(PREV(p)), Recv(NEXT(p))}

Source(p, c) == IF Calls[c].kind # "reveal" THEN NEXT(p) ELSE IF p = 0 THEN 1 ELSE 0

Op == Worker \X Party
Elements(t) == {t[i] : i \in 1..Len(t)}

\* The order in which a script makes its transfers.
Rank(p, c, op) ==
    IF op[1] = "send" THEN op[2] + 1 ELSE IF Calls[c].kind = "reveal" /\ p = 0 THEN 0 ELSE 4

Ordered(p, c, t) == \A i, j \in 1..Len(t) : i < j => Rank(p, c, t[i]) < Rank(p, c, t[j])

\* What may be left of the script of call c.
Rest(p, c) == {t \in Seq(Op) : Elements(t) \subseteq Ops(p, c) /\ Ordered(p, c, t)}

InVector == {"post_recv", "wait_send", "wait_recv"}

LEMMA Neighbours ==
    /\ NEXT(0) = 1 /\ NEXT(1) = 2 /\ NEXT(2) = 0
    /\ PREV(0) = 2 /\ PREV(1) = 0 /\ PREV(2) = 1
  BY DEF NEXT, PREV

LEMMA Parties == Party = {0, 1, 2}
  BY DEF Party

\* The transfers of a call name another party, which makes the counterpart.
LEMMA OpsMatch ==
    ASSUME NEW c \in 1..Len(Calls), NEW p \in Party
    PROVE  /\ \A op \in Ops(p, c) : op \in Op /\ op[2] # p
           /\ \A q \in Party : Send(q) \in Ops(p, c) <=> Recv(p) \in Ops(q, c)
           /\ \A q \in Party : Recv(q) \in Ops(p, c) <=> q = Source(p, c)
           /\ Source(p, c) \in Party /\ Source(p, c) # p
<1>1. Ops(p, c) \subseteq Op /\ \A op \in Ops(p, c) : op[2] # p
  <2>1. CASE p = 0
    BY <2>1, Neighbours, Parties DEF Ops, RevealOps, Op, Send, Recv
  <2>2. CASE p = 1
    BY <2>2, Neighbours, Parties DEF Ops, RevealOps, Op, Send, Recv
  <2>3. CASE p = 2
    BY <2>3, Neighbours, Parties DEF Ops, RevealOps, Op, Send, Recv
  <2> QED BY <2>1, <2>2, <2>3, Parties
<1>2. ASSUME NEW q \in Party PROVE Send(q) \in Ops(p, c) <=> Recv(p) \in Ops(q, c)
  <2>1. CASE Calls[c].kind = "reveal"
    BY <2>1, Parties DEF Ops, RevealOps, Send, Recv
  <2>2. CASE Calls[c].kind # "reveal"
    BY <2>2, Neighbours, Parties DEF Ops, Send, Recv
  <2> QED BY <2>1, <2>2
<1>3. \A q \in Party : Recv(q) \in Ops(p, c) <=> q = Source(p, c)
  BY Neighbours, Parties DEF Ops, RevealOps, Send, Recv, Source
<1>4. Source(p, c) \in Party /\ Source(p, c) # p
  BY Neighbours, Parties DEF Source
<1> QED BY <1>1, <1>2, <1>3, <1>4

LEMMA TailFacts ==
    ASSUME NEW p \in Party, NEW c \in 1..Len(Calls), NEW t \in Rest(p, c), t # <<>>
    PROVE  /\ Head(t) \in Ops(p, c) /\ Head(t) \in Op
           /\ Tail(t) \in Rest(p, c)
           /\ Elements(t) = Elements(Tail(t)) \cup {Head(t)}
           /\ Head(t) \notin Elements(Tail(t))
           /\ \A op \in Elements(Tail(t)) : Rank(p, c, Head(t)) < Rank(p, c, op)
<1>1. t \in Seq(Op) /\ Len(t) \in Nat \ {0} /\ Head(t) = t[1] /\ Tail(t) \in Seq(Op)
  BY DEF Rest
<1>2. Len(Tail(t)) = Len(t) - 1 /\ \A i \in 1..Len(Tail(t)) : Tail(t)[i] = t[i + 1]
  BY <1>1
<1>3. Head(t) \in Ops(p, c) /\ Head(t) \in Op
  BY <1>1, OpsMatch DEF Rest, Elements
<1>4. Ordered(p, c, Tail(t))
  <2> SUFFICES ASSUME NEW i \in 1..Len(Tail(t)), NEW j \in 1..Len(Tail(t)), i < j
               PROVE  Rank(p, c, Tail(t)[i]) < Rank(p, c, Tail(t)[j])
    BY DEF Ordered
  <2>1. i + 1 \in 1..Len(t) /\ j + 1 \in 1..Len(t) /\ i + 1 < j + 1
    BY <1>1, <1>2
  <2> QED BY <1>2, <2>1 DEF Rest, Ordered
<1>5. \A op \in Elements(Tail(t)) : op \in Elements(t) /\ Rank(p, c, Head(t)) < Rank(p, c, op)
  <2> SUFFICES ASSUME NEW i \in 1..Len(Tail(t))
               PROVE  Tail(t)[i] \in Elements(t) /\ Rank(p, c, Head(t)) < Rank(p, c, Tail(t)[i])
    BY DEF Elements
  <2>1. i + 1 \in 1..Len(t) /\ 1 < i + 1 /\ 1 \in 1..Len(t)
    BY <1>1, <1>2
  <2> QED BY <1>1, <1>2, <2>1 DEF Rest, Ordered, Elements
<1>6. \A op \in Elements(t) : op = Head(t) \/ op \in Elements(Tail(t))
  <2> SUFFICES ASSUME NEW i \in 1..Len(t), i # 1 PROVE t[i] \in Elements(Tail(t))
    BY <1>1 DEF Elements
  <2>1. i - 1 \in 1..Len(Tail(t)) /\ (i - 1) + 1 = i
    BY <1>1, <1>2
  <2>2. Tail(t)[i - 1] = t[i]
    BY <1>2, <2>1
  <2> QED BY <2>1, <2>2 DEF Elements
<1>7. Head(t) \notin Elements(Tail(t))
  <2>1. Rank(p, c, Head(t)) \in Nat
    BY <1>3, Parties DEF Rank, Op
  <2> QED BY <1>5, <2>1
<1>8. Head(t) \in Elements(t)
  BY <1>1 DEF Elements
<1> QED BY <1>1, <1>3, <1>4, <1>5, <1>6, <1>7, <1>8 DEF Rest

\* The scripts themselves.
LEMMA ScriptIs ==
    ASSUME NEW p \in Party, NEW c \in 1..Len(Calls), Calls[c].kind \in {"scalar", "reveal"}
    PROVE  /\ Script(p, Calls[c].kind) \in Rest(p, c)
           /\ Script(p, Calls[c].kind) # <<>>
           /\ Elements(Script(p, Calls[c].kind)) = Ops(p, c)
<1> DEFINE t == Script(p, Calls[c].kind)
<1> USE Parties, Neighbours DEF Op, Send, Recv
<1>1. ASSUME NEW a \in Ops(p, c), Ops(p, c) = {a}, t = <<a>>
      PROVE  t \in Rest(p, c) /\ t # <<>> /\ Elements(t) = Ops(p, c)
  <2>1. a \in Op
    BY OpsMatch
  <2> HIDE DEF t
  <2> QED BY <1>1, <2>1 DEF Rest, Ordered, Elements
<1>2. ASSUME NEW a \in Ops(p, c), NEW b \in Ops(p, c), Ops(p, c) = {a, b}, t = <<a, b>>,
             Rank(p, c, a) < Rank(p, c, b)
      PROVE  t \in Rest(p, c) /\ t # <<>> /\ Elements(t) = Ops(p, c)
  <2>1. a \in Op /\ b \in Op
    BY OpsMatch
  <2> HIDE DEF t
  <2> QED BY <1>2, <2>1 DEF Rest, Ordered, Elements
<1>3. CASE Calls[c].kind = "scalar"
  <2>1. t = <<Send(PREV(p)), Recv(NEXT(p))>> /\ Ops(p, c) = {Send(PREV(p)), Recv(NEXT(p))}
    BY <1>3 DEF Script, Ops
  <2>2. Rank(p, c, Send(PREV(p))) < Rank(p, c, Recv(NEXT(p)))
    BY <1>3 DEF Rank
  <2> QED BY <1>2, <2>1, <2>2
<1>4. CASE Calls[c].kind = "reveal"
  <2>1. CASE p = 0
    <3>1. t = <<Recv(1), Send(1), Send(2)>> /\ Ops(p, c) = {Recv(1), Send(1), Send(2)}
      BY <1>4, <2>1 DEF Script, RevealScript, Ops, RevealOps
    <3>2. Recv(1) \in Op /\ Send(1) \in Op /\ Send(2) \in Op
      OBVIOUS
    <3>3. Rank(p, c, Recv(1)) = 0 /\ Rank(p, c, Send(1)) = 2 /\ Rank(p, c, Send(2)) = 3
      BY <1>4, <2>1 DEF Rank
    <3>4. t \in Seq(Op) /\ Len(t) = 3 /\ t[1] = Recv(1) /\ t[2] = Send(1) /\ t[3] = Send(2) /\ t # <<>>
      BY <3>1, <3>2
    <3> HIDE DEF t, Send, Recv
    <3>5. Elements(t) = Ops(p, c)
      <4>1. 1..Len(t) = {1, 2, 3}
        BY <3>4
      <4> QED BY <3>1, <3>4, <4>1 DEF Elements
    <3>6. Ordered(p, c, t)
      BY <3>3, <3>4 DEF Ordered
    <3> QED BY <3>4, <3>5, <3>6 DEF Rest, t
  <2>2. CASE p = 1
    <3>1. t = <<Send(0), Recv(0)>> /\ Ops(p, c) = {Send(0), Recv(0)}
      BY <1>4, <2>2 DEF Script, RevealScript, Ops, RevealOps
    <3>2. Rank(p, c, Send(0)) < Rank(p, c, Recv(0))
      BY <1>4, <2>2 DEF Rank
    <3> QED BY <1>2, <3>1, <3>2
  <2>3. CASE p = 2
    <3>1. t = <<Recv(0)>> /\ Ops(p, c) = {Recv(0)}
      BY <1>4, <2>3 DEF Script, RevealScript, Ops, RevealOps
    <3> QED BY <1>1, <3>1
  <2> QED BY <2>1, <2>2, <2>3
<1> QED BY <1>3, <1>4

-----------------------------------------------------------------------------
\* Where the calls stand.

Chunks(c) == Calls[c].chunks
Kind(p) == Calls[call[p]].kind
Within(p) == pc[p] # "caller" /\ call[p] <= Len(Calls)

\* The chunks that a transfer of party p has moved in the call it is in.
Moved(p, op) ==
    IF ~Within(p) \/ op \notin Ops(p, call[p]) THEN 0
    ELSE IF Kind(p) = "vector" \/ (todo[p] # <<>> /\ op = Head(todo[p])) THEN off[p][op[1]]
    ELSE IF op \in Elements(todo[p]) THEN 0
    ELSE Chunks(call[p])

\* Worker w has done all it was asked to do in this call.
Served(p, w) ==
    w \notin failed[p] /\ (done[p][w] \/ pc[p] = "check" \/ (w = "send" /\ pc[p] = "wait_recv"))

ScriptOK(p) ==
    /\ todo[p] \in Rest(p, call[p])
    /\ todo[p] # <<>> => pc[p] # "check" /\ off[p][Head(todo[p])[1]] < Chunks(call[p])
    /\ \A w \in Worker : todo[p] = <<>> \/ w # Head(todo[p])[1] => off[p][w] = 0

VectorOK(p) ==
    \A w \in Worker : off[p][w] <= Chunks(call[p]) /\ (Served(p, w) => off[p][w] = Chunks(call[p]))

StageOf(p) ==
    /\ call[p] <= Len(Calls) + 1
    /\ pc[p] = "caller" => \A w \in Worker : off[p][w] = 0
    /\ pc[p] \in InVector => Kind(p) = "vector"
    /\ pc[p] = "script" => Kind(p) # "vector" /\ todo[p] # <<>>
    /\ Within(p) => IF Kind(p) = "vector" THEN VectorOK(p) ELSE ScriptOK(p)

Message == Nat \X Party \X Nat

StageInv ==
    /\ todo \in [Party -> Seq(Op)]
    /\ chan \in [Link -> Seq(Message)]
    /\ got \in [Party -> Seq(Message)]
    /\ \A p \in Party : StageOf(p)

\* What a step may do to the streams of chunks: nothing, send one, receive one, or
\* return from a call that has moved all of them.
OnlyMoves(p, op) ==
    /\ call' = call
    /\ Within(p) /\ op \in Ops(p, call[p]) /\ Moved(p, op) < Chunks(call[p])
    /\ Moved(p, op)' = Moved(p, op) + 1
    /\ \A q \in Party : \A o \in Op : (q # p \/ o # op) => Moved(q, o)' = Moved(q, o)

Quiet ==
    /\ UNCHANGED <<call, chan, got>>
    /\ \A q \in Party : \A o \in Op : Moved(q, o)' = Moved(q, o)

Sends(p, q) ==
    /\ OnlyMoves(p, Send(q))
    /\ got' = got
    /\ chan' = [chan EXCEPT ![<<p, q>>] = Append(@, Chunk(call[p], p, Moved(p, Send(q)) + 1))]

Receives(p, q) ==
    /\ OnlyMoves(p, Recv(q))
    /\ chan[<<q, p>>] # <<>>
    /\ got' = [got EXCEPT ![p] = Append(@, Head(chan[<<q, p>>]))]
    /\ chan' = [chan EXCEPT ![<<q, p>>] = Tail(@)]

Returns(p) ==
    /\ call[p] <= Len(Calls)
    /\ call' = [call EXCEPT ![p] = @ + 1]
    /\ got' = [got EXCEPT ![p] = <<>>]
    /\ chan' = chan
    /\ \A o \in Ops(p, call[p]) : Moved(p, o) = Chunks(call[p])
    /\ \A o \in Op : Moved(p, o)' = 0
    /\ \A q \in Party \ {p} : \A o \in Op : Moved(q, o)' = Moved(q, o)

Effect ==
    \/ Quiet
    \/ \E p, q \in Party : p # q /\ (Sends(p, q) \/ Receives(p, q))
    \/ \E p \in Party : Returns(p)

\* A step of one party leaves the stage of another alone.
Untouched(q) ==
    /\ pc'[q] = pc[q] /\ call'[q] = call[q] /\ todo'[q] = todo[q]
    /\ off'[q] = off[q] /\ done'[q] = done[q] /\ failed'[q] = failed[q]

LEMMA UntouchedStage ==
    ASSUME NEW q \in Party, StageOf(q), Untouched(q)
    PROVE  StageOf(q)' /\ \A o \in Op : Moved(q, o)' = Moved(q, o)
<1>1. StageOf(q)'
  BY DEF StageOf, Untouched, Within, Kind, VectorOK, ScriptOK, Served
<1>2. \A o \in Op : Moved(q, o)' = Moved(q, o)
  BY DEF Untouched, Moved, Within, Kind
<1> QED BY <1>1, <1>2

LEMMA CallInRange ==
    ASSUME TypeOK, NEW p \in Party, call[p] <= Len(Calls)
    PROVE  call[p] \in 1..Len(Calls) /\ Chunks(call[p]) \in Nat \ {0}
           /\ Kind(p) \in {"vector", "scalar", "reveal"}
           /\ (Kind(p) = "scalar" => Chunks(call[p]) = 1)
<1>1. call[p] \in 1..Len(Calls)
  BY CallsAssumption DEF TypeOK
<1>2. Calls[call[p]] \in [kind : {"vector", "scalar", "reveal"}, chunks : Nat \ {0}]
  BY <1>1, CallsAssumption, ElementOfSeq
<1> QED BY <1>1, <1>2, CallsAssumption DEF Chunks, Kind

-----------------------------------------------------------------------------
LEMMA QuietEffect ==
    ASSUME IInv, StageInv, NEW p \in Party,
           UNCHANGED <<call, chan, got>>, todo' \in [Party -> Seq(Op)],
           \A q \in Party \ {p} : Untouched(q),
           StageOf(p)', \A o \in Op : Moved(p, o)' = Moved(p, o)
    PROVE  StageInv' /\ Effect
<1>1. \A q \in Party \ {p} : StageOf(q)' /\ \A o \in Op : Moved(q, o)' = Moved(q, o)
  BY UntouchedStage DEF StageInv
<1>2. StageInv'
  BY <1>1 DEF StageInv
<1>3. Quiet
  BY <1>1 DEF Quiet
<1> QED BY <1>2, <1>3 DEF Effect

LEMMA CallScriptEffect ==
    ASSUME IInv, StageInv, NEW p \in Party, CallScript(p)
    PROVE  StageInv' /\ Effect
<1> USE DEF IInv
<1> DEFINE s == Script(p, Calls[call[p]].kind)
<1>1. /\ call[p] <= Len(Calls) /\ Kind(p) \in {"scalar", "reveal"}
      /\ pc[p] = "caller" /\ pc' = [pc EXCEPT ![p] = "script"]
      /\ todo' = [todo EXCEPT ![p] = s]
      /\ UNCHANGED <<call, off, done, failed, chan, got>>
  BY DEF CallScript, Step, Calling, Kind, flags, net
<1>2. /\ call[p] \in 1..Len(Calls) /\ Chunks(call[p]) \in Nat \ {0}
  BY <1>1, CallInRange
<1>3. s \in Rest(p, call[p]) /\ s # <<>> /\ Elements(s) = Ops(p, call[p]) /\ s \in Seq(Op)
  BY <1>1, <1>2, ScriptIs DEF Kind, Rest
<1>4. Head(s) \in Ops(p, call[p]) /\ Head(s)[1] \in Worker
  BY <1>2, <1>3, TailFacts DEF Op
<1> HIDE DEF s
<1>5. /\ pc'[p] = "script" /\ todo'[p] = s /\ call'[p] = call[p] /\ off'[p] = off[p]
      /\ todo' \in [Party -> Seq(Op)]
  BY <1>1, <1>3 DEF StageInv, TypeOK
<1>6. \A w \in Worker : off[p][w] = 0
  BY <1>1 DEF StageInv, StageOf
<1>7. \A q \in Party \ {p} : Untouched(q)
  BY <1>1 DEF Untouched, StageInv, TypeOK
<1>8. StageOf(p)'
  <2>1. ScriptOK(p)'
    BY <1>1, <1>2, <1>3, <1>4, <1>5, <1>6 DEF ScriptOK, Chunks
  <2>2. Kind(p)' = Kind(p) /\ call'[p] <= Len(Calls) + 1
    BY <1>1, <1>5 DEF Kind, StageInv, StageOf
  <2> QED BY <1>1, <1>3, <1>5, <2>1, <2>2 DEF StageOf, InVector
<1>9. ASSUME NEW o \in Op PROVE Moved(p, o)' = Moved(p, o)
  BY <1>1, <1>3, <1>4, <1>5, <1>6, <1>9 DEF Moved, Within, Kind, Op
<1> QED BY <1>1, <1>5, <1>7, <1>8, <1>9, QuietEffect

LEMMA PostEffect ==
    ASSUME IInv, StageInv, NEW p \in Party, PostSend(p) \/ PostRecv(p)
    PROVE  StageInv' /\ Effect
<1> USE DEF IInv
<1> DEFINE to == IF pc[p] = "caller" THEN "post_recv" ELSE "wait_send"
<1>1. /\ call[p] <= Len(Calls) /\ Kind(p) = "vector"
      /\ pc[p] \in {"caller", "post_recv"} /\ pc' = [pc EXCEPT ![p] = to]
      /\ UNCHANGED <<todo, call, off, done, failed, chan, got>>
  BY DEF PostSend, PostRecv, Step, Calling, Kind, net, MainOK, StageInv, StageOf, InVector
<1>2. /\ pc'[p] = to /\ to \in {"post_recv", "wait_send"}
  BY <1>1 DEF TypeOK
<1>3. \A q \in Party \ {p} : Untouched(q)
  BY <1>1 DEF Untouched, TypeOK
<1>4. Chunks(call[p]) \in Nat /\ \A w \in Worker : off[p][w] \in Nat
  BY <1>1, CallInRange DEF TypeOK
<1>5. pc[p] = "caller" => \A w \in Worker : off[p][w] = 0 /\ ~done[p][w]
  BY DEF StageInv, StageOf, Handshake, HandshakeOf, HandedOver
<1>6. StageOf(p)'
  BY <1>1, <1>2, <1>4, <1>5 DEF StageInv, StageOf, Within, Kind, VectorOK, Served, Chunks, InVector
<1>7. ASSUME NEW o \in Op PROVE Moved(p, o)' = Moved(p, o)
  BY <1>1, <1>2, <1>5 DEF Moved, Within, Kind, Op
<1> QED BY <1>1, <1>3, <1>6, <1>7, QuietEffect DEF StageInv

LEMMA WaitEffect ==
    ASSUME IInv, StageInv, NEW p \in Party, NEW w \in Worker, WaitDone(p, w)
    PROVE  StageInv' /\ Effect
<1> USE DEF IInv
<1>1. /\ pc[p] = WaitAt(w) /\ pc' = [pc EXCEPT ![p] = AfterWait(w)] /\ done[p][w]
      /\ done' = [done EXCEPT ![p][w] = FALSE]
      /\ UNCHANGED <<todo, call, off, failed, chan, got>>
  BY DEF WaitDone, Step, Reset, Set, net
<1>2. /\ pc'[p] = AfterWait(w) /\ done'[p] = [done[p] EXCEPT ![w] = FALSE]
  BY <1>1 DEF TypeOK
<1>3. \A q \in Party \ {p} : Untouched(q)
  BY <1>1 DEF Untouched, TypeOK
<1>4. call[p] <= Len(Calls) /\ Kind(p) = "vector"
  BY <1>1 DEF MainOK, StageInv, StageOf, InVector, WaitAt
<1>5. \A v \in Worker : done'[p][v] => done[p][v] /\ v # w
  BY <1>2 DEF TypeOK
<1>6. \A v \in Worker : Served(p, v)' => Served(p, v)
  BY <1>1, <1>2, <1>5 DEF Served, WaitAt, AfterWait
<1>7. StageOf(p)'
  BY <1>1, <1>2, <1>4, <1>6 DEF StageInv, StageOf, Within, Kind, VectorOK, Chunks, InVector, WaitAt, AfterWait
<1>8. ASSUME NEW o \in Op PROVE Moved(p, o)' = Moved(p, o)
  BY <1>1, <1>2, <1>4 DEF Moved, Within, Kind, WaitAt, AfterWait
<1> QED BY <1>1, <1>3, <1>7, <1>8, QuietEffect DEF StageInv

\* A call that comes back without an exception has made all its transfers.
LEMMA AllMoved ==
    ASSUME IInv, StageInv, NEW p \in Party, pc[p] = "check", failed[p] = {},
           NEW o \in Ops(p, call[p])
    PROVE  Moved(p, o) = Chunks(call[p])
<1>0. Within(p) /\ call[p] <= Len(Calls)
  BY DEF IInv, MainOK, Within
<1>1. o[1] \in Worker
  <2>1. call[p] \in 1..Len(Calls)
    BY <1>0, CallInRange DEF IInv
  <2> QED BY <2>1, OpsMatch DEF Op
<1>2. CASE Kind(p) = "vector"
  BY <1>0, <1>1, <1>2 DEF Moved, StageInv, StageOf, VectorOK, Served
<1>3. CASE Kind(p) # "vector"
  <2>1. todo[p] = <<>>
    BY <1>0, <1>3 DEF StageInv, StageOf, ScriptOK
  <2>2. Elements(todo[p]) = {}
    BY <2>1 DEF Elements
  <2> QED BY <1>0, <1>3, <2>1, <2>2 DEF Moved
<1> QED BY <1>2, <1>3

LEMMA ReturnEffect ==
    ASSUME IInv, StageInv, NEW p \in Party, Return(p)
    PROVE  StageInv' /\ Effect
<1> USE DEF IInv
<1>1. pc[p] = "check" /\ call[p] <= Len(Calls) /\ Within(p)
  BY DEF Return, MainOK, Within
<1>2. call[p] \in 1..Len(Calls) /\ Chunks(call[p]) \in Nat \ {0}
  BY <1>1, CallInRange
<1>3. CASE failed[p] # {}
  <2>1. pc' = [pc EXCEPT ![p] = "thrown"] /\ UNCHANGED <<todo, call, off, done, failed, chan, got>>
    BY <1>3 DEF Return, flags
  <2>2. pc'[p] = "thrown"
    BY <2>1 DEF TypeOK
  <2>3. \A q \in Party \ {p} : Untouched(q)
    BY <2>1 DEF Untouched, TypeOK
  <2>4. StageOf(p)'
    BY <1>1, <2>1, <2>2 DEF StageInv, StageOf, Within, Kind, VectorOK, ScriptOK, Served, Chunks, InVector
  <2>5. ASSUME NEW o \in Op PROVE Moved(p, o)' = Moved(p, o)
    BY <1>1, <2>1, <2>2 DEF Moved, Within, Kind
  <2> QED BY <2>1, <2>3, <2>4, <2>5, QuietEffect DEF StageInv
<1>4. CASE failed[p] = {}
  <2>1. /\ pc' = [pc EXCEPT ![p] = "caller"] /\ call' = [call EXCEPT ![p] = call[p] + 1]
        /\ off' = [off EXCEPT ![p] = [w \in Worker |-> 0]]
        /\ got' = [got EXCEPT ![p] = <<>>]
        /\ UNCHANGED <<todo, done, failed, chan>>
    BY <1>4 DEF Return, flags
  <2>2. pc'[p] = "caller" /\ call'[p] = call[p] + 1 /\ \A w \in Worker : off'[p][w] = 0
    BY <2>1 DEF TypeOK
  <2>3. \A q \in Party \ {p} : Untouched(q)
    BY <2>1 DEF Untouched, TypeOK
  <2>4. StageOf(p)' /\ \A o \in Op : Moved(p, o)' = 0
    BY <1>2, <2>1, <2>2 DEF StageOf, Within, Moved, InVector
  <2>5. \A o \in Ops(p, call[p]) : Moved(p, o) = Chunks(call[p])
    BY <1>1, <1>4, AllMoved
  <2>6. \A q \in Party \ {p} : StageOf(q)' /\ \A o \in Op : Moved(q, o)' = Moved(q, o)
    BY <2>3, UntouchedStage DEF StageInv
  <2>7. StageInv'
    BY <2>1, <2>4, <2>6 DEF StageInv
  <2>8. Returns(p)
    BY <1>1, <2>1, <2>4, <2>5, <2>6 DEF Returns
  <2> QED BY <2>7, <2>8 DEF Effect
<1> QED BY <1>3, <1>4

\* A transfer of one chunk by party p, by its protocol thread or a worker.
LEMMA TransferEffect ==
    ASSUME IInv, StageInv, NEW p \in Party, Within(p), NEW op \in Ops(p, call[p]),
           Transfer(p, op), call' = call, todo' \in [Party -> Seq(Op)],
           Moved(p, op) = off[p][op[1]], off[p][op[1]] < Chunks(call[p]),
           Moved(p, op)' = Moved(p, op) + 1,
           \A o \in Op \ {op} : Moved(p, o)' = Moved(p, o),
           \A q \in Party \ {p} : Untouched(q),
           StageOf(p)'
    PROVE  StageInv' /\ Effect
<1> USE DEF IInv
<1>1. call[p] \in 1..Len(Calls)
  BY CallInRange DEF Within
<1>2. op \in Op /\ op[2] # p
  BY <1>1, OpsMatch
<1> DEFINE q == op[2]
           k == off[p][op[1]] + 1
<1>3. q \in Party /\ q # p /\ (op = Send(q) \/ op = Recv(q)) /\ <<p, q>> \in Link /\ <<q, p>> \in Link
  BY <1>2 DEF Op, Send, Recv, Link
<1>4. \A r \in Party \ {p} : StageOf(r)' /\ \A o \in Op : Moved(r, o)' = Moved(r, o)
  BY UntouchedStage DEF StageInv
<1>5. \A r \in Party : StageOf(r)'
  BY <1>4
<1>6. OnlyMoves(p, op)
  BY <1>4 DEF OnlyMoves
<1>7. CASE op[1] = "send"
  <2>0. op = Send(q) /\ k = off[p]["send"] + 1 /\ Transmit(p, q)
    BY <1>3, <1>7 DEF Transfer, Send, Recv
  <2>1. /\ chan' = [chan EXCEPT ![<<p, q>>] = Append(@, Chunk(call[p], p, k))]
        /\ got' = got /\ op = Send(q)
    <3> HIDE DEF k, q
    <3> QED BY <2>0 DEF Transmit
  <2>2. Chunk(call[p], p, k) \in Message
    <3>1. op[1] \in Worker /\ off[p][op[1]] \in Nat /\ call[p] \in Nat
      BY <1>2 DEF TypeOK, Op
    <3> QED BY <3>1 DEF Chunk, Message
  <2>3. chan' \in [Link -> Seq(Message)]
    BY <1>3, <2>1, <2>2 DEF StageInv
  <2>4. StageInv'
    BY <1>5, <2>1, <2>3 DEF StageInv
  <2>5. Sends(p, q)
    BY <1>6, <2>1 DEF Sends
  <2> QED BY <1>3, <2>4, <2>5 DEF Effect
<1>8. CASE op[1] = "recv"
  <2>1. /\ chan' = [chan EXCEPT ![<<q, p>>] = Tail(@)] /\ chan[<<q, p>>] # <<>>
        /\ got' = [got EXCEPT ![p] = Append(@, Head(chan[<<q, p>>]))] /\ op = Recv(q)
    BY <1>2, <1>3, <1>8 DEF Transfer, Receive, CanReceive, Send, Recv
  <2>2. chan[<<q, p>>] \in Seq(Message) /\ Tail(chan[<<q, p>>]) \in Seq(Message)
        /\ Head(chan[<<q, p>>]) \in Message
    BY <1>3, <2>1 DEF StageInv
  <2>3. chan' \in [Link -> Seq(Message)] /\ got' \in [Party -> Seq(Message)]
    BY <1>3, <2>1, <2>2 DEF StageInv
  <2>4. StageInv'
    BY <1>5, <2>1, <2>3 DEF StageInv
  <2>5. Receives(p, q)
    BY <1>6, <2>1 DEF Receives
  <2> QED BY <1>3, <2>4, <2>5 DEF Effect
<1> QED BY <1>2, <1>7, <1>8 DEF Op

LEMMA ScriptTransferEffect ==
    ASSUME IInv, StageInv, NEW p \in Party, ScriptTransfer(p)
    PROVE  StageInv' /\ Effect
<1> USE DEF IInv
<1>0. PICK op : op = Head(todo[p])
  OBVIOUS
<1> DEFINE d == op[1]
           last == off[p][d] + 1 = Chunks(call[p])
           t == IF last THEN Tail(todo[p]) ELSE todo[p]
           n == IF last THEN 0 ELSE off[p][d] + 1
           to == IF last /\ Tail(todo[p]) = <<>> THEN "check" ELSE pc[p]
<1>1. /\ pc[p] = "script" /\ Transfer(p, op)
      /\ off' = [off EXCEPT ![p][d] = n]
      /\ todo' = [todo EXCEPT ![p] = t]
      /\ pc' = [pc EXCEPT ![p] = to]
      /\ UNCHANGED <<call, done, failed>>
  <2>1. todo' = [todo EXCEPT ![p] = t]
    <3>1. CASE last
      BY <1>0, <3>1 DEF ScriptTransfer, Chunks
    <3>2. CASE ~last
      BY <1>0, <3>2 DEF ScriptTransfer, Chunks
    <3> QED BY <3>1, <3>2
  <2>2. pc' = [pc EXCEPT ![p] = to]
    <3>1. CASE last /\ Tail(todo[p]) = <<>>
      BY <1>0, <3>1 DEF ScriptTransfer, Chunks
    <3>2. CASE ~(last /\ Tail(todo[p]) = <<>>)
      BY <1>0, <3>2 DEF ScriptTransfer, Chunks
    <3> QED BY <3>1, <3>2
  <2>3. off' = [off EXCEPT ![p][d] = n]
    BY <1>0 DEF ScriptTransfer, Set, Chunks
  <2>4. pc[p] = "script" /\ Transfer(p, op) /\ UNCHANGED <<call, done, failed>>
    BY <1>0 DEF ScriptTransfer, flags
  <2> QED BY <2>1, <2>2, <2>3, <2>4
<1>2. /\ Within(p) /\ Kind(p) # "vector" /\ todo[p] # <<>> /\ todo[p] \in Rest(p, call[p])
      /\ off[p][d] < Chunks(call[p]) /\ \A w \in Worker : w # d => off[p][w] = 0
  BY <1>0, <1>1 DEF MainOK, StageInv, StageOf, Within, ScriptOK
<1>3. call[p] \in 1..Len(Calls) /\ Chunks(call[p]) \in Nat \ {0}
  BY <1>2, CallInRange DEF Within
<1>4. /\ op \in Ops(p, call[p]) /\ op \in Op /\ Tail(todo[p]) \in Rest(p, call[p])
      /\ Elements(todo[p]) = Elements(Tail(todo[p])) \cup {op} /\ op \notin Elements(Tail(todo[p]))
  BY <1>0, <1>2, <1>3, TailFacts
<1>5. d \in Worker /\ off[p][d] \in Nat /\ n \in Nat
  BY <1>4 DEF Op, TypeOK
<1>6. t \in Rest(p, call[p]) /\ t \in Seq(Op)
  BY <1>2, <1>4 DEF Rest
<1>7. /\ pc'[p] = to /\ todo'[p] = t /\ off'[p] = [off[p] EXCEPT ![d] = n] /\ call'[p] = call[p]
      /\ todo' \in [Party -> Seq(Op)]
  <2> HIDE DEF t, to, n, d
  <2> QED BY <1>1, <1>6 DEF TypeOK, StageInv
<1>8. off'[p][d] = n /\ \A w \in Worker : w # d => off'[p][w] = 0
  <2> HIDE DEF n, d
  <2> QED BY <1>2, <1>5, <1>7 DEF TypeOK
<1>9. \A q \in Party \ {p} : Untouched(q)
  <2> HIDE DEF t, to, n, d
  <2> QED BY <1>1 DEF Untouched, TypeOK, StageInv
<1>10. Within(p)' /\ Kind(p)' = Kind(p)
  BY <1>1, <1>2, <1>7 DEF Within, Kind
<1>11. ~last => to = pc[p] /\ t = todo[p] /\ n = off[p][d] + 1 /\ n < Chunks(call[p])
  <2> SUFFICES ASSUME ~last PROVE n = off[p][d] + 1 /\ n < Chunks(call[p])
    OBVIOUS
  <2>1. n = off[p][d] + 1
    OBVIOUS
  <2>2. off[p][d] + 1 # Chunks(call[p])
    OBVIOUS
  <2> HIDE DEF n, d, last
  <2> QED BY <1>2, <1>3, <1>5, <2>1, <2>2
<1>12. last => t = Tail(todo[p]) /\ n = 0 /\ (t = <<>> <=> to = "check")
  BY <1>1
<1>13. StageOf(p)'
  <2>1. ScriptOK(p)'
    <3>1. \A w \in Worker : t # <<>> /\ w # Head(t)[1] => off'[p][w] = 0
      BY <1>0, <1>2, <1>8, <1>11, <1>12
    <3>2. t = <<>> => \A w \in Worker : off'[p][w] = 0
      BY <1>2, <1>8, <1>11, <1>12
    <3>3. t # <<>> => off'[p][Head(t)[1]] < Chunks(call[p])
      <4>1. CASE last /\ t # <<>>
        <5>1. Head(t)[1] \in Worker
          BY <1>3, <1>6, <4>1, TailFacts DEF Op
        <5> QED BY <1>3, <1>8, <1>12, <4>1, <5>1
      <4>2. CASE ~last
        BY <1>0, <1>8, <1>11, <4>2
      <4> QED BY <4>1, <4>2
    <3>4. t # <<>> => to # "check"
      BY <1>1, <1>11, <1>12
    <3> HIDE DEF t, to, n, d
    <3> QED BY <1>1, <1>6, <1>7, <3>1, <3>2, <3>3, <3>4 DEF ScriptOK, Chunks
  <2>2. to \in {"script", "check"} /\ (to = "script" => t # <<>>)
    BY <1>1, <1>2, <1>11, <1>12
  <2>3. call'[p] <= Len(Calls) + 1
    BY <1>7 DEF StageInv, StageOf
  <2> HIDE DEF t, to, n, d
  <2> QED BY <1>2, <1>7, <1>10, <2>1, <2>2, <2>3 DEF StageOf, InVector
<1>14. Moved(p, op) = off[p][d]
  BY <1>0, <1>2, <1>4 DEF Moved
<1>15. Moved(p, op)' = off[p][d] + 1
  <2>1. CASE last
    <3>1. op \notin Elements(t) /\ (t # <<>> => Head(t) \in Elements(t))
      <4>1. t # <<>> => Head(t) \in Elements(t)
        <5> HIDE DEF t
        <5> QED BY <1>6 DEF Elements
      <4> QED BY <1>4, <1>12, <2>1, <4>1
    <3>2. t # <<>> => op # Head(t)
      BY <3>1
    <3>3. off[p][d] + 1 = Chunks(call[p])
      BY <2>1
    <3>4. call'[p] = call[p] /\ todo'[p] = t
      BY <1>7
    <3> HIDE DEF t, to, n, d, last
    <3>5. op \notin Elements(todo'[p]) /\ (todo'[p] # <<>> => op # Head(todo'[p]))
      BY <3>1, <3>2, <3>4
    <3>6. Ops(p, call'[p]) = Ops(p, call[p]) /\ op \in Ops(p, call'[p])
      BY <1>4, <3>4
    <3>7. Within(p)' /\ Kind(p)' # "vector"
      BY <1>2, <1>10
    <3>8. Moved(p, op)' = Chunks(call'[p])
      BY <3>5, <3>6, <3>7 DEF Moved, Ops
    <3> QED BY <3>3, <3>4, <3>8
  <2>2. CASE ~last
    <3>1. t = todo[p] /\ n = off[p][d] + 1
      BY <1>11, <2>2
    <3> HIDE DEF t, to, n
    <3> QED BY <1>0, <1>2, <1>4, <1>7, <1>8, <1>10, <3>1 DEF Moved
  <2> QED BY <2>1, <2>2
<1>16. ASSUME NEW o \in Op \ {op} PROVE Moved(p, o)' = Moved(p, o)
  <2>0. o[1] \in Worker
    BY DEF Op
  <2>1. CASE last
    <3>1. t # <<>> => Head(t) \in Elements(t)
      BY <1>6 DEF Elements
    <3>2. t # <<>> /\ o = Head(t) => off'[p][o[1]] = 0
      BY <1>8, <1>12, <2>0, <2>1
    <3>3. o \in Elements(t) <=> o \in Elements(todo[p])
      BY <1>4, <1>12, <2>1
    <3> HIDE DEF t, to, n, d
    <3> QED BY <1>0, <1>2, <1>4, <1>7, <1>10, <2>1, <3>1, <3>2, <3>3 DEF Moved, Chunks
  <2>2. CASE ~last
    <3>1. t = todo[p]
      BY <1>11, <2>2
    <3> HIDE DEF t, to, n, d
    <3> QED BY <1>0, <1>2, <1>7, <1>10, <3>1 DEF Moved, Chunks
  <2> QED BY <2>1, <2>2
<1>17. Moved(p, op)' = Moved(p, op) + 1
  BY <1>14, <1>15
<1> HIDE DEF t, to, n, last, d
<1>18. Moved(p, op) = off[p][op[1]] /\ off[p][op[1]] < Chunks(call[p])
  BY <1>2, <1>14 DEF d
<1>19. Transfer(p, op) /\ call' = call
  BY <1>1
<1> QED BY <1>2, <1>4, <1>7, <1>9, <1>13, <1>16, <1>17, <1>18, <1>19, TransferEffect

\* Steps of the protocol thread that move nothing and only change where it is.
LEMMA LeaveEffect ==
    ASSUME IInv, StageInv, NEW p \in Party, NEW to \in {"thrown", "stop", "join", "gone"},
           \/ pc[p] \in {"script", "thrown", "stop", "join"}
           \/ pc[p] = "caller" /\ call[p] > Len(Calls),
           pc' = [pc EXCEPT ![p] = to],
           UNCHANGED <<todo, call, off, done, failed, chan, got>>
    PROVE  StageInv' /\ Effect
<1> USE DEF IInv
<1>1. pc'[p] = to
  BY DEF TypeOK
<1>2. \A q \in Party \ {p} : Untouched(q)
  BY DEF Untouched, TypeOK
<1>3. Within(p)' <=> Within(p)
  BY <1>1 DEF Within, TypeOK
<1>4. Kind(p)' = Kind(p) /\ \A w \in Worker : Served(p, w)' => Served(p, w)
  BY <1>1 DEF Kind, Served
<1>5. StageOf(p)'
  BY <1>1, <1>3, <1>4 DEF StageInv, StageOf, VectorOK, ScriptOK, InVector
<1>6. ASSUME NEW o \in Op PROVE Moved(p, o)' = Moved(p, o)
  BY <1>3, <1>4 DEF Moved
<1> QED BY <1>2, <1>5, <1>6, QuietEffect DEF StageInv

LEMMA MainEffect ==
    ASSUME IInv, StageInv, NEW p \in Party, MainThread(p)
    PROVE  StageInv' /\ Effect
<1>1. CASE ScriptThrow(p)
  BY <1>1, LeaveEffect DEF ScriptThrow, flags, net
<1>2. CASE ShutdownSend(p)
  BY <1>2, LeaveEffect DEF ShutdownSend, net
<1>3. CASE ShutdownRecv(p)
  BY <1>3, LeaveEffect DEF ShutdownRecv, Step, net
<1>4. CASE Join(p)
  BY <1>4, LeaveEffect DEF Join, Step, flags, net
<1>5. ASSUME NEW w \in Worker, WaitSleep(p, w)
      PROVE  StageInv' /\ Effect
  <2>1. UNCHANGED <<pc, call, todo, off, done, failed, chan, got>>
    BY <1>5 DEF WaitSleep, flags, net
  <2>2. \A q \in Party : Untouched(q)
    BY <2>1 DEF Untouched
  <2>3. StageOf(p)' /\ \A o \in Op : Moved(p, o)' = Moved(p, o)
    BY <2>2, UntouchedStage DEF StageInv
  <2> QED BY <2>1, <2>2, <2>3, QuietEffect DEF StageInv
<1> QED
  BY <1>1, <1>2, <1>3, <1>4, <1>5, CallScriptEffect, PostEffect, WaitEffect, ReturnEffect,
     ScriptTransferEffect DEF MainThread

\* A worker that works does so in a vector call, with that call's size.
LEMMA AtWork ==
    ASSUME IInv, StageInv, NEW p \in Party, NEW w \in Worker, worker[p][w] = "work"
    PROVE  /\ Within(p) /\ Kind(p) = "vector" /\ pc[p] \in HandedOver(w)
           /\ ready[p][w] /\ ~done[p][w] /\ total[p][w] = Chunks(call[p])
           /\ call[p] \in 1..Len(Calls) /\ Chunks(call[p]) \in Nat \ {0}
           /\ VectorOK(p)
           /\ WorkerOp(p, w) \in Ops(p, call[p]) /\ WorkerOp(p, w)[1] = w
           /\ \A o \in Ops(p, call[p]) : o[1] = w => o = WorkerOp(p, w)
<1> USE DEF IInv
<1>1. pc[p] \in HandedOver(w) /\ ready[p][w] /\ ~done[p][w] /\ total[p][w] = Chunks(call[p])
  BY DEF Handshake, HandshakeOf, Chunks
<1>2. Within(p) /\ Kind(p) = "vector"
  BY <1>1 DEF HandedOver, MainOK, Within, StageInv, StageOf, InVector
<1>3. call[p] \in 1..Len(Calls) /\ Chunks(call[p]) \in Nat \ {0}
  BY <1>2, CallInRange DEF Within
<1>4. VectorOK(p)
  BY <1>2 DEF StageInv, StageOf
<1>5. Ops(p, call[p]) = {Send(PREV(p)), Recv(NEXT(p))}
  BY <1>2 DEF Ops, Kind
<1>6. /\ WorkerOp(p, w) \in Ops(p, call[p]) /\ WorkerOp(p, w)[1] = w
      /\ \A o \in Ops(p, call[p]) : o[1] = w => o = WorkerOp(p, w)
  BY <1>5 DEF WorkerOp, Send, Recv
<1> QED BY <1>1, <1>2, <1>3, <1>4, <1>6

LEMMA WorkerTransferEffect ==
    ASSUME IInv, StageInv, NEW p \in Party, NEW w \in Worker, WorkerTransfer(p, w)
    PROVE  StageInv' /\ Effect
<1> USE DEF IInv
<1>0. PICK op : op = WorkerOp(p, w)
  OBVIOUS
<1>1. /\ worker[p][w] = "work" /\ Transfer(p, op) /\ off[p][w] < total[p][w]
      /\ off' = [off EXCEPT ![p][w] = off[p][w] + 1]
      /\ UNCHANGED <<pc, call, todo, done, failed>>
  BY <1>0 DEF WorkerTransfer, Set, flags
<1>2. /\ Within(p) /\ Kind(p) = "vector" /\ pc[p] \in HandedOver(w)
      /\ ~done[p][w] /\ total[p][w] = Chunks(call[p]) /\ Chunks(call[p]) \in Nat
      /\ VectorOK(p)
      /\ op \in Ops(p, call[p]) /\ op[1] = w
      /\ \A o \in Ops(p, call[p]) : o[1] = w => o = op
  BY <1>0, <1>1, AtWork
<1>3. off'[p] = [off[p] EXCEPT ![w] = off[p][w] + 1] /\ off[p] \in [Worker -> Nat]
  BY <1>1 DEF TypeOK
<1>4. Within(p)' /\ Kind(p)' = Kind(p)
  BY <1>1, <1>2 DEF Within, Kind
<1>5. Moved(p, op) = off[p][w] /\ Moved(p, op)' = off[p][w] + 1
  BY <1>1, <1>2, <1>3, <1>4 DEF Moved
<1>6. ASSUME NEW o \in Op \ {op} PROVE Moved(p, o)' = Moved(p, o)
  BY <1>1, <1>2, <1>3, <1>4 DEF Moved, Op
<1>7. \A q \in Party \ {p} : Untouched(q)
  BY <1>1 DEF Untouched, TypeOK
<1>8. StageOf(p)'
  <2>1. ~Served(p, w)'
    BY <1>1, <1>2 DEF Served, HandedOver
  <2>2. \A v \in Worker : Served(p, v)' => Served(p, v)
    BY <1>1 DEF Served
  <2>3. VectorOK(p)'
    BY <1>1, <1>2, <1>3, <2>1, <2>2 DEF VectorOK, Chunks
  <2>4. pc'[p] # "caller" /\ pc'[p] # "script" /\ call'[p] <= Len(Calls) + 1
    BY <1>1, <1>2 DEF HandedOver, StageInv, StageOf
  <2> QED BY <1>2, <1>4, <2>3, <2>4 DEF StageOf
<1>9. Moved(p, op) = off[p][op[1]] /\ off[p][op[1]] < Chunks(call[p]) /\ Moved(p, op)' = Moved(p, op) + 1
  BY <1>1, <1>2, <1>5
<1> QED BY <1>1, <1>2, <1>6, <1>7, <1>8, <1>9, TransferEffect DEF StageInv

LEMMA WorkerFinishEffect ==
    ASSUME IInv, StageInv, NEW p \in Party, NEW w \in Worker, NEW E \in SUBSET Worker,
           WorkerFinish(p, w, E), w \in E \/ off[p][w] = total[p][w]
    PROVE  StageInv' /\ Effect
<1> USE DEF IInv
<1>1. /\ worker[p][w] = "work"
      /\ failed' = [failed EXCEPT ![p] = failed[p] \cup E]
      /\ done' = [done EXCEPT ![p][w] = TRUE]
      /\ UNCHANGED <<pc, call, todo, off, chan, got>>
  BY DEF WorkerFinish, Move, Set, net
<1>2. failed'[p] = failed[p] \cup E /\ done'[p] = [done[p] EXCEPT ![w] = TRUE]
  BY <1>1 DEF TypeOK
<1>3. /\ Within(p) /\ Kind(p) = "vector" /\ pc[p] \in HandedOver(w)
      /\ total[p][w] = Chunks(call[p]) /\ VectorOK(p)
  BY <1>1, AtWork
<1>4. \A q \in Party \ {p} : Untouched(q)
  BY <1>1 DEF Untouched, TypeOK
<1>5. Within(p)' /\ Kind(p)' = Kind(p)
  BY <1>1, <1>3 DEF Within, Kind
<1>6. ASSUME NEW v \in Worker, Served(p, v)' PROVE off[p][v] = Chunks(call[p])
  <2>1. CASE v = w
    BY <1>2, <1>3, <1>6, <2>1 DEF Served
  <2>2. CASE v # w
    BY <1>1, <1>2, <1>3, <1>6, <2>2 DEF Served, VectorOK, TypeOK
  <2> QED BY <2>1, <2>2
<1>7. VectorOK(p)'
  BY <1>1, <1>3, <1>6 DEF VectorOK, Chunks
<1>8. StageOf(p)'
  BY <1>1, <1>3, <1>5, <1>7 DEF StageOf, HandedOver, StageInv
<1>9. ASSUME NEW o \in Op PROVE Moved(p, o)' = Moved(p, o)
  BY <1>1, <1>3, <1>5 DEF Moved
<1> QED BY <1>1, <1>4, <1>8, <1>9, QuietEffect DEF StageInv

\* Every step has one of the effects.
LEMMA StepEffect ==
    ASSUME IInv, StageInv, [Next]_vars
    PROVE  StageInv' /\ Effect
<1>1. ASSUME UNCHANGED <<pc, call, todo, off, done, failed, chan, got>>
      PROVE  StageInv' /\ Effect
  <2>1. \A q \in Party : Untouched(q)
    BY <1>1 DEF Untouched
  <2>2. \A q \in Party : StageOf(q)' /\ \A o \in Op : Moved(q, o)' = Moved(q, o)
    BY <2>1, UntouchedStage DEF StageInv
  <2> QED BY <1>1, <2>2 DEF StageInv, Effect, Quiet
<1>2. ASSUME NEW p \in Party, NEW w \in Worker, WorkerThread(p, w)
      PROVE  StageInv' /\ Effect
  <2>1. CASE WorkerSleep(p, w)
    BY <1>1, <2>1 DEF WorkerSleep, flags, net
  <2>2. CASE WorkerStart(p, w)
    BY <1>1, <2>2 DEF WorkerStart, flags, net
  <2>3. CASE WorkerTransfer(p, w)
    BY <2>3, WorkerTransferEffect
  <2>4. CASE WorkerEnd(p, w)
    BY <2>4, WorkerFinishEffect DEF WorkerEnd
  <2>5. CASE WorkerThrow(p, w)
    BY <2>5, WorkerFinishEffect DEF WorkerThrow
  <2> QED BY <1>2, <2>1, <2>2, <2>3, <2>4, <2>5 DEF WorkerThread
<1>3. CASE UNCHANGED vars
  BY <1>1, <1>3 DEF vars, flags, net
<1>4. ASSUME NEW p \in Party, NEW w \in Worker, SpuriousWakeup(p, w)
      PROVE  StageInv' /\ Effect
  BY <1>1, <1>4 DEF SpuriousWakeup, flags, net
<1>5. ASSUME NEW l, Break(l)
      PROVE  StageInv' /\ Effect
  BY <1>1, <1>5 DEF Break, flags
<1> QED BY <1>2, <1>3, <1>4, <1>5, MainEffect DEF Next

LEMMA InitStage == Init => StageInv
<1> SUFFICES ASSUME Init PROVE StageInv
  OBVIOUS
<1>1. todo \in [Party -> Seq(Op)] /\ chan \in [Link -> Seq(Message)] /\ got \in [Party -> Seq(Message)]
  BY DEF Init
<1>2. Len(Calls) \in Nat
  BY CallsAssumption
<1>3. \A p \in Party : StageOf(p)
  BY <1>2 DEF Init, StageOf, InVector, Within
<1> QED BY <1>1, <1>3 DEF StageInv

-----------------------------------------------------------------------------
\* The streams of chunks, part two: the channels hold what is under way.

\* Party p has made transfer op of call c up to chunk k.
Has(op, p, c, k) ==
    /\ c \in 1..Len(Calls) /\ op \in Ops(p, c) /\ k \in 1..Chunks(c)
    /\ c < call[p] \/ (c = call[p] /\ k <= Moved(p, op))

\* p has sent the chunk to q, which has not received it.
UnderWay(p, q, c, k) == Has(Send(q), p, c, k) /\ ~Has(Recv(p), q, c, k)

Before(m, n) == m[1] < n[1] \/ (m[1] = n[1] /\ m[3] < n[3])

\* A channel holds the chunks that are under way, each once and in order, and a
\* party receives only what was sent.
Increasing(s) == \A i, j \in 1..Len(s) : i < j => Before(s[i], s[j])
IsUnderWay(m, p, q) == m = Chunk(m[1], p, m[3]) /\ UnderWay(p, q, m[1], m[3])
ChanOK(p, q) ==
    LET s == chan[<<p, q>>]
    IN  /\ \A i \in 1..Len(s) : IsUnderWay(s[i], p, q)
        /\ Increasing(s)
        /\ \A c, k \in Nat : UnderWay(p, q, c, k) => \E i \in 1..Len(s) : s[i] = Chunk(c, p, k)
        /\ \A c, k \in Nat : Has(Recv(p), q, c, k) => Has(Send(q), p, c, k)

\* The receive buffer holds the chunks of this call that have been received.
GotOK(p) ==
    call[p] <= Len(Calls) =>
        LET from == Source(p, call[p])
        IN  /\ Len(got[p]) = Moved(p, Recv(from))
            /\ \A k \in 1..Len(got[p]) : got[p][k] = Chunk(call[p], from, k)

StreamInv ==
    /\ \A p \in Party : GotOK(p)
    /\ \A p, q \in Party : p # q => ChanOK(p, q)

\* A step adds this chunk to what was sent and received, or nothing.
Adds(p, op) ==
    \A r \in Party, o \in Op, c, k \in Nat :
        Has(o, r, c, k)' <=> Has(o, r, c, k) \/ (r = p /\ o = op /\ c = call[p] /\ k = Moved(p, op) + 1)
AddsNothing == \A r \in Party, o \in Op, c, k \in Nat : Has(o, r, c, k)' <=> Has(o, r, c, k)

LEMMA Stages ==
    ASSUME IInv, StageInv, NEW p \in Party, NEW o \in Op
    PROVE  Moved(p, o) \in Nat /\ call[p] \in Nat \ {0} /\ Len(Calls) \in Nat
<1>1. call[p] \in Nat \ {0} /\ Len(Calls) \in Nat
  BY CallsAssumption DEF IInv, TypeOK
<1>2. off[p][o[1]] \in Nat
  BY DEF IInv, TypeOK, Op
<1>3. Within(p) => Chunks(call[p]) \in Nat
  BY CallInRange DEF IInv, Within
<1> QED BY <1>1, <1>2, <1>3 DEF Moved

LEMMA MoveAdds ==
    ASSUME IInv, StageInv, NEW p \in Party, NEW op \in Op, OnlyMoves(p, op)
    PROVE  Adds(p, op)
<1> SUFFICES ASSUME NEW r \in Party, NEW o \in Op, NEW c \in Nat, NEW k \in Nat
             PROVE  Has(o, r, c, k)' <=> Has(o, r, c, k) \/ (r = p /\ o = op /\ c = call[p] /\ k = Moved(p, op) + 1)
  BY DEF Adds
<1>1. /\ call' = call /\ Within(p) /\ op \in Ops(p, call[p]) /\ Moved(p, op) < Chunks(call[p])
      /\ Moved(p, op)' = Moved(p, op) + 1
  BY DEF OnlyMoves
<1>2. call[p] \in 1..Len(Calls) /\ Chunks(call[p]) \in Nat
  BY <1>1, CallInRange DEF IInv, Within
<1>3. Moved(p, op) \in Nat /\ Moved(r, o) \in Nat /\ call[r] \in Nat
  BY Stages
<1>4. Has(o, r, c, k)' <=>
        /\ c \in 1..Len(Calls) /\ o \in Ops(r, c) /\ k \in 1..Chunks(c)
        /\ c < call[r] \/ (c = call[r] /\ k <= Moved(r, o)')
  BY <1>1 DEF Has, Ops, Chunks
<1>5. CASE r = p /\ o = op
  BY <1>1, <1>2, <1>3, <1>4, <1>5 DEF Has
<1>6. CASE ~(r = p /\ o = op)
  <2>1. Moved(r, o)' = Moved(r, o)
    BY <1>6 DEF OnlyMoves
  <2> QED BY <1>4, <1>6, <2>1 DEF Has
<1> QED BY <1>5, <1>6

LEMMA ReturnAddsNothing ==
    ASSUME IInv, StageInv, NEW p \in Party, Returns(p)
    PROVE  AddsNothing
<1> SUFFICES ASSUME NEW r \in Party, NEW o \in Op, NEW c \in Nat, NEW k \in Nat
             PROVE  Has(o, r, c, k)' <=> Has(o, r, c, k)
  BY DEF AddsNothing
<1>1. Has(o, r, c, k)' <=>
        /\ c \in 1..Len(Calls) /\ o \in Ops(r, c) /\ k \in 1..Chunks(c)
        /\ c < call'[r] \/ (c = call'[r] /\ k <= Moved(r, o)')
  BY DEF Has, Ops, Chunks
<1>2. call' = [call EXCEPT ![p] = call[p] + 1]
  BY DEF Returns
<1>3. CASE r # p
  <2>1. call'[r] = call[r] /\ Moved(r, o)' = Moved(r, o)
    BY <1>2, <1>3 DEF Returns, IInv, TypeOK
  <2> QED BY <1>1, <2>1 DEF Has
<1>4. CASE r = p
  <2>1. call'[r] = call[r] + 1 /\ Moved(r, o)' = 0 /\ call[r] \in Nat
    BY <1>2, <1>4 DEF Returns, IInv, TypeOK
  <2>2. o \in Ops(r, call[r]) => Moved(r, o) = Chunks(call[r])
    BY <1>4 DEF Returns
  <2>3. c = call[r] => (k \in 1..Chunks(c) /\ o \in Ops(r, c) => k <= Moved(r, o))
    BY <2>2
  <2> HIDE DEF Chunks
  <2> QED BY <1>1, <2>1, <2>3 DEF Has
<1> QED BY <1>3, <1>4

LEMMA QuietAddsNothing == ASSUME Quiet PROVE AddsNothing
  BY DEF Quiet, AddsNothing, Has, Ops, Chunks

\* A channel between two parties that a step leaves alone.
LEMMA ChanUntouched ==
    ASSUME NEW p \in Party, NEW q \in Party, ChanOK(p, q), chan'[<<p, q>>] = chan[<<p, q>>],
           chan[<<p, q>>] \in Seq(Message),
           \A c, k \in Nat : Has(Send(q), p, c, k)' <=> Has(Send(q), p, c, k),
           \A c, k \in Nat : Has(Recv(p), q, c, k)' <=> Has(Recv(p), q, c, k)
    PROVE  ChanOK(p, q)'
<1> DEFINE s == chan[<<p, q>>]
<1>1. \A c, k \in Nat : UnderWay(p, q, c, k)' <=> UnderWay(p, q, c, k)
  BY DEF UnderWay
<1>2. ASSUME NEW i \in 1..Len(s) PROVE IsUnderWay(s[i], p, q) /\ s[i][1] \in Nat /\ s[i][3] \in Nat
  <2>1. s[i] \in Message
    BY ElementOfSeq
  <2> QED BY <2>1 DEF Message, ChanOK
<1>3. chan'[<<p, q>>] = s
  OBVIOUS
<1>4. \A i \in 1..Len(s) : chan'[<<p, q>>][i] = s[i]
  BY <1>3
<1>5. \A i \in 1..Len(s) : IsUnderWay(s[i], p, q)'
  <2> SUFFICES ASSUME NEW i \in 1..Len(s) PROVE IsUnderWay(s[i], p, q)'
    OBVIOUS
  <2>1. PICK m \in Message : m = s[i]
    BY ElementOfSeq
  <2> QED BY <1>1, <1>2, <1>3, <2>1 DEF IsUnderWay
<1> HIDE DEF s
<1> QED BY <1>1, <1>3, <1>5 DEF ChanOK, s

\* What ChanOK says of one element of the channel.
LEMMA Elem ==
    ASSUME NEW p \in Party, NEW q \in Party, ChanOK(p, q), chan[<<p, q>>] \in Seq(Message),
           NEW i \in 1..Len(chan[<<p, q>>]), NEW m, m = chan[<<p, q>>][i]
    PROVE  /\ m[1] \in Nat /\ m[3] \in Nat /\ m = Chunk(m[1], p, m[3])
           /\ UnderWay(p, q, m[1], m[3])
<1>1. m \in Message
  BY ElementOfSeq
<1> QED BY <1>1 DEF Message, ChanOK, IsUnderWay

\* A chunk goes into the channel behind all that were sent before.
LEMMA SendsChan ==
    ASSUME IInv, StageInv, NEW p \in Party, NEW q \in Party, p # q, Sends(p, q), ChanOK(p, q)
    PROVE  ChanOK(p, q)'
<1> DEFINE s == chan[<<p, q>>]
           d == call[p]
           l == Moved(p, Send(q)) + 1
<1>1. PICK c0 \in Nat, k0 \in Nat : c0 = d /\ k0 = l
  <2>1. Send(q) \in Op
    BY DEF Op, Send
  <2> QED BY <2>1, Stages
<1>2. <<p, q>> \in Link /\ s \in Seq(Message) /\ Len(s) \in Nat
  BY DEF Link, StageInv
<1>3. PICK n : n = Chunk(c0, p, k0)
  OBVIOUS
<1>4. n[1] = c0 /\ n[3] = k0
  BY <1>3 DEF Chunk
<1>5. PICK t : t = Append(s, n)
  OBVIOUS
<1>6. chan'[<<p, q>>] = t /\ Len(t) = Len(s) + 1 /\ t[Len(s) + 1] = n
      /\ \A i \in 1..Len(s) : t[i] = s[i]
  BY <1>1, <1>2, <1>3, <1>5 DEF Sends, StageInv
<1>7. \A c, k \in Nat : Has(Send(q), p, c, k)' <=> Has(Send(q), p, c, k) \/ (c = c0 /\ k = k0)
  BY <1>1, MoveAdds DEF Sends, Adds, Op, Send
<1>8. \A c, k \in Nat : Has(Recv(p), q, c, k)' <=> Has(Recv(p), q, c, k)
  BY MoveAdds DEF Sends, Adds, Op, Send, Recv
<1>9. Has(Send(q), p, c0, k0)' /\ ~Has(Send(q), p, c0, k0)
  BY <1>1, <1>7, Stages DEF Has, Op, Send
<1>10. ~Has(Recv(p), q, c0, k0)
  BY <1>9 DEF ChanOK
<1>11. \A c, k \in Nat : UnderWay(p, q, c, k)' <=> UnderWay(p, q, c, k) \/ (c = c0 /\ k = k0)
  BY <1>7, <1>8, <1>10 DEF UnderWay
<1>12. ASSUME NEW i \in 1..Len(s)
       PROVE  IsUnderWay(t[i], p, q)' /\ Before(t[i], n)
  <2>1. PICK m : m = s[i]
    OBVIOUS
  <2>2. m[1] \in Nat /\ m[3] \in Nat /\ m = Chunk(m[1], p, m[3]) /\ UnderWay(p, q, m[1], m[3])
    BY <1>2, <2>1, Elem
  <2>3. t[i] = m
    BY <1>6, <2>1
  <2>4. IsUnderWay(m, p, q)'
    BY <1>11, <2>2 DEF IsUnderWay
  <2>5. Before(m, n)
    <3>1. m[1] < call[p] \/ (m[1] = call[p] /\ m[3] <= Moved(p, Send(q)))
      BY <2>2 DEF UnderWay, Has
    <3>2. Moved(p, Send(q)) \in Nat
      BY Stages DEF Op, Send
    <3> QED BY <1>1, <1>4, <2>2, <3>1, <3>2 DEF Before
  <2> QED BY <2>3, <2>4, <2>5
<1>13. IsUnderWay(n, p, q)'
  BY <1>3, <1>4, <1>11 DEF IsUnderWay
<1>14. \A i \in 1..Len(t) : IsUnderWay(t[i], p, q)'
  <2> HIDE DEF s
  <2> QED BY <1>2, <1>6, <1>12, <1>13
<1>15. Increasing(t)
  <2> SUFFICES ASSUME NEW i \in 1..Len(t), NEW j \in 1..Len(t), i < j PROVE Before(t[i], t[j])
    BY DEF Increasing
  <2>1. i \in 1..Len(s)
    BY <1>2, <1>6
  <2>2. CASE j \in 1..Len(s)
    BY <1>6, <2>1, <2>2 DEF ChanOK, Increasing
  <2>3. CASE j = Len(s) + 1
    BY <1>6, <1>12, <2>1, <2>3
  <2> QED BY <1>2, <1>6, <2>2, <2>3
<1>16. ASSUME NEW c \in Nat, NEW k \in Nat, UnderWay(p, q, c, k)'
       PROVE  \E i \in 1..Len(t) : t[i] = Chunk(c, p, k)
  <2>1. CASE c = c0 /\ k = k0
    BY <1>2, <1>3, <1>6, <2>1
  <2>2. CASE UnderWay(p, q, c, k)
    <3>1. PICK i \in 1..Len(s) : s[i] = Chunk(c, p, k)
      BY <2>2 DEF ChanOK
    <3>2. i \in 1..Len(t) /\ t[i] = Chunk(c, p, k)
      BY <1>2, <1>6, <3>1
    <3> QED BY <3>2
  <2> QED BY <1>11, <1>16, <2>1, <2>2
<1>17. \A c, k \in Nat : Has(Recv(p), q, c, k)' => Has(Send(q), p, c, k)'
  BY <1>7, <1>8 DEF ChanOK
<1> HIDE DEF s
<1> QED BY <1>6, <1>14, <1>15, <1>16, <1>17 DEF ChanOK, IsUnderWay

\* The chunk at the head of the channel is the next one that the receiver expects.
LEMMA HeadIsNext ==
    ASSUME IInv, StageInv, NEW p \in Party, NEW q \in Party, p # q, ChanOK(q, p),
           chan[<<q, p>>] # <<>>,
           Within(p), Recv(q) \in Ops(p, call[p]), Moved(p, Recv(q)) < Chunks(call[p])
    PROVE  Head(chan[<<q, p>>]) = Chunk(call[p], q, Moved(p, Recv(q)) + 1)
<1> DEFINE s == chan[<<q, p>>]
<1>1. /\ call[p] \in 1..Len(Calls) /\ Chunks(call[p]) \in Nat /\ Moved(p, Recv(q)) \in Nat
      /\ call[q] \in Nat /\ Moved(q, Send(p)) \in Nat /\ Len(Calls) \in Nat
  BY CallInRange, Stages DEF IInv, Within, Op, Send, Recv
<1>2. PICK c0 \in Nat, k0 \in Nat : c0 = call[p] /\ k0 = Moved(p, Recv(q)) + 1
  BY <1>1
<1>3. <<q, p>> \in Link /\ s \in Seq(Message) /\ Len(s) \in Nat /\ 1 \in 1..Len(s) /\ Head(s) = s[1]
  BY DEF Link, StageInv
<1>4. PICK m : m = s[1]
  OBVIOUS
<1>5. m[1] \in Nat /\ m[3] \in Nat /\ m = Chunk(m[1], q, m[3]) /\ UnderWay(q, p, m[1], m[3])
  BY <1>3, <1>4, Elem
<1>6. m[1] \in 1..Len(Calls) /\ Recv(q) \in Ops(p, m[1]) /\ m[3] \in 1..Chunks(m[1])
      /\ Has(Send(p), q, m[1], m[3]) /\ ~Has(Recv(q), p, m[1], m[3])
  BY <1>5, OpsMatch DEF UnderWay, Has
<1>7. m[1] > c0 \/ (m[1] = c0 /\ m[3] >= k0)
  BY <1>1, <1>2, <1>5, <1>6 DEF Has
<1>8. Has(Send(p), q, c0, k0) /\ ~Has(Recv(q), p, c0, k0)
  <2>1. Send(p) \in Ops(q, c0) /\ c0 \in 1..Len(Calls) /\ k0 \in 1..Chunks(c0)
    BY <1>1, <1>2, OpsMatch
  <2>2. c0 < call[q] \/ (c0 = call[q] /\ k0 <= Moved(q, Send(p)))
    <3>1. m[1] < call[q] \/ (m[1] = call[q] /\ m[3] <= Moved(q, Send(p)))
      BY <1>6 DEF Has
    <3> QED BY <1>1, <1>5, <1>7, <3>1
  <2> QED BY <1>1, <1>2, <2>1, <2>2 DEF Has
<1>9. PICK i \in 1..Len(s) : s[i] = Chunk(c0, q, k0)
  BY <1>8 DEF ChanOK, UnderWay
<1>10. i = 1
  <2> SUFFICES ASSUME 1 < i PROVE FALSE
    BY <1>3
  <2>1. Before(m, s[i])
    BY <1>3, <1>4 DEF ChanOK, Increasing
  <2>2. s[i][1] = c0 /\ s[i][3] = k0
    BY <1>9 DEF Chunk
  <2> QED BY <1>2, <1>5, <1>7, <2>1, <2>2 DEF Before
<1> QED BY <1>2, <1>3, <1>9, <1>10

LEMMA ReceivesChan ==
    ASSUME IInv, StageInv, NEW p \in Party, NEW q \in Party, p # q, Receives(p, q), ChanOK(q, p)
    PROVE  ChanOK(q, p)'
<1> DEFINE s == chan[<<q, p>>]
<1>1. PICK c0 \in Nat, k0 \in Nat : c0 = call[p] /\ k0 = Moved(p, Recv(q)) + 1
  BY Stages DEF Op, Recv
<1>2. <<q, p>> \in Link /\ s \in Seq(Message) /\ Len(s) \in Nat /\ 1 \in 1..Len(s) /\ Head(s) = s[1]
  BY DEF Link, StageInv, Receives
<1>3. s[1] = Chunk(c0, q, k0)
  BY <1>1, <1>2, HeadIsNext DEF Receives, OnlyMoves
<1>4. PICK t : t = Tail(s)
  OBVIOUS
<1>5. chan'[<<q, p>>] = t /\ Len(t) = Len(s) - 1 /\ \A i \in 1..Len(t) : t[i] = s[i + 1]
  BY <1>2, <1>4 DEF Receives, StageInv
<1>6. \A c, k \in Nat : Has(Recv(q), p, c, k)' <=> Has(Recv(q), p, c, k) \/ (c = c0 /\ k = k0)
  BY <1>1, MoveAdds DEF Receives, Adds, Op, Recv
<1>7. \A c, k \in Nat : Has(Send(p), q, c, k)' <=> Has(Send(p), q, c, k)
  BY MoveAdds DEF Receives, Adds, Op, Send, Recv
<1>8. \A c, k \in Nat : UnderWay(q, p, c, k)' <=> UnderWay(q, p, c, k) /\ ~(c = c0 /\ k = k0)
  BY <1>6, <1>7 DEF UnderWay
<1>9. \A i \in 1..Len(s) : i # 1 => Before(s[1], s[i])
  BY <1>2 DEF ChanOK, Increasing
<1>10. ASSUME NEW i \in 1..Len(t) PROVE IsUnderWay(t[i], q, p)'
  <2>1. i + 1 \in 1..Len(s) /\ i + 1 # 1
    BY <1>2, <1>5
  <2>2. PICK m : m = s[i + 1]
    OBVIOUS
  <2>3. m[1] \in Nat /\ m[3] \in Nat /\ m = Chunk(m[1], q, m[3]) /\ UnderWay(q, p, m[1], m[3])
    BY <1>2, <2>1, <2>2, Elem
  <2>4. ~(m[1] = c0 /\ m[3] = k0)
    <3>1. Before(Chunk(c0, q, k0), m)
      BY <1>3, <1>9, <2>1, <2>2
    <3> QED BY <1>1, <3>1 DEF Before, Chunk
  <2>5. t[i] = m
    BY <1>5, <2>2
  <2> QED BY <1>8, <2>3, <2>4, <2>5 DEF IsUnderWay
<1>11. Increasing(t)
  <2> SUFFICES ASSUME NEW i \in 1..Len(t), NEW j \in 1..Len(t), i < j PROVE Before(t[i], t[j])
    BY DEF Increasing
  <2>1. i + 1 \in 1..Len(s) /\ j + 1 \in 1..Len(s) /\ i + 1 < j + 1
    BY <1>2, <1>5
  <2> QED BY <1>5, <2>1 DEF ChanOK, Increasing
<1>12. ASSUME NEW c \in Nat, NEW k \in Nat, UnderWay(q, p, c, k)'
       PROVE  \E i \in 1..Len(t) : t[i] = Chunk(c, q, k)
  <2>1. UnderWay(q, p, c, k) /\ ~(c = c0 /\ k = k0)
    BY <1>8, <1>12
  <2>2. PICK i \in 1..Len(s) : s[i] = Chunk(c, q, k)
    BY <2>1 DEF ChanOK
  <2>3. i # 1
    BY <1>3, <2>1, <2>2 DEF Chunk
  <2>4. i - 1 \in 1..Len(t) /\ (i - 1) + 1 = i
    BY <1>2, <1>5, <2>3
  <2>5. t[i - 1] = s[i]
    BY <1>5, <2>4
  <2> QED BY <2>2, <2>4, <2>5
<1>13. Has(Send(p), q, c0, k0)
  <2>1. PICK m : m = s[1]
    OBVIOUS
  <2>2. m[1] = c0 /\ m[3] = k0
    BY <1>3, <2>1 DEF Chunk
  <2> QED BY <1>2, <2>1, <2>2, Elem DEF UnderWay
<1>14. \A c, k \in Nat : Has(Recv(q), p, c, k)' => Has(Send(p), q, c, k)'
  BY <1>6, <1>7, <1>13 DEF ChanOK
<1> HIDE DEF s
<1> QED BY <1>5, <1>10, <1>11, <1>12, <1>14 DEF ChanOK, IsUnderWay

LEMMA NothingChan ==
    ASSUME StageInv, NEW p \in Party, NEW q \in Party, p # q, AddsNothing, chan' = chan, ChanOK(p, q)
    PROVE  ChanOK(p, q)'
<1>1. Send(q) \in Op /\ Recv(p) \in Op /\ <<p, q>> \in Link
  BY DEF Op, Send, Recv, Link
<1>2. \A c, k \in Nat : Has(Send(q), p, c, k)' <=> Has(Send(q), p, c, k)
  BY <1>1 DEF AddsNothing
<1>3. \A c, k \in Nat : Has(Recv(p), q, c, k)' <=> Has(Recv(p), q, c, k)
  BY <1>1 DEF AddsNothing
<1> QED BY <1>1, <1>2, <1>3, ChanUntouched DEF StageInv

\* A channel other than the one that a transfer uses.
LEMMA OtherChan ==
    ASSUME IInv, StageInv, NEW p \in Party, NEW q \in Party, p # q,
           NEW a \in Party, NEW b \in Party, a # b, ChanOK(a, b),
           \/ Sends(p, q) /\ ~(a = p /\ b = q)
           \/ Receives(p, q) /\ ~(a = q /\ b = p)
    PROVE  ChanOK(a, b)'
<1> USE DEF Op, Send, Recv
<1>1. <<a, b>> \in Link
  BY DEF Link
<1>2. chan'[<<a, b>>] = chan[<<a, b>>]
  BY <1>1 DEF Sends, Receives, StageInv
<1>3. CASE Sends(p, q) /\ ~(a = p /\ b = q)
  <2>1. Adds(p, Send(q))
    BY <1>3, MoveAdds DEF Sends
  <2>2. \A c, k \in Nat : Has(Send(b), a, c, k)' <=> Has(Send(b), a, c, k)
    BY <1>3, <2>1 DEF Adds
  <2>3. \A c, k \in Nat : Has(Recv(a), b, c, k)' <=> Has(Recv(a), b, c, k)
    BY <1>3, <2>1 DEF Adds
  <2> QED BY <1>1, <1>2, <2>2, <2>3, ChanUntouched DEF StageInv
<1>4. CASE Receives(p, q) /\ ~(a = q /\ b = p)
  <2>1. Adds(p, Recv(q))
    BY <1>4, MoveAdds DEF Receives
  <2>2. \A c, k \in Nat : Has(Send(b), a, c, k)' <=> Has(Send(b), a, c, k)
    BY <1>4, <2>1 DEF Adds
  <2>3. \A c, k \in Nat : Has(Recv(a), b, c, k)' <=> Has(Recv(a), b, c, k)
    BY <1>4, <2>1 DEF Adds
  <2> QED BY <1>1, <1>2, <2>2, <2>3, ChanUntouched DEF StageInv
<1> QED BY <1>3, <1>4

LEMMA ChansStep ==
    ASSUME IInv, StageInv, Effect, \A p, q \in Party : p # q => ChanOK(p, q)
    PROVE  \A p, q \in Party : p # q => ChanOK(p, q)'
<1> SUFFICES ASSUME NEW a \in Party, NEW b \in Party, a # b PROVE ChanOK(a, b)'
  OBVIOUS
<1>1. CASE Quiet
  BY <1>1, QuietAddsNothing, NothingChan DEF Quiet
<1>2. ASSUME NEW p \in Party, NEW q \in Party, p # q, Sends(p, q) \/ Receives(p, q)
      PROVE  ChanOK(a, b)'
  BY <1>2, SendsChan, ReceivesChan, OtherChan
<1>3. ASSUME NEW p \in Party, Returns(p)
      PROVE  ChanOK(a, b)'
  BY <1>3, ReturnAddsNothing, NothingChan DEF Returns
<1> QED BY <1>1, <1>2, <1>3 DEF Effect

LEMMA GotSame ==
    ASSUME StageInv, NEW a \in Party, GotOK(a), call'[a] = call[a], got'[a] = got[a],
           \A q \in Party : Moved(a, Recv(q))' = Moved(a, Recv(q)),
           call[a] <= Len(Calls) => Source(a, call[a]) \in Party
    PROVE  GotOK(a)'
<1> SUFFICES ASSUME call[a] <= Len(Calls) PROVE GotOK(a)'
  BY DEF GotOK
<1>1. PICK from \in Party : from = Source(a, call[a])
  OBVIOUS
<1>2. Source(a, call'[a]) = from
  BY <1>1 DEF Source
<1> QED BY <1>1, <1>2 DEF GotOK

LEMMA GotStep ==
    ASSUME IInv, StageInv, Effect, NEW a \in Party, GotOK(a), \A p, q \in Party : p # q => ChanOK(p, q)
    PROVE  GotOK(a)'
<1> USE DEF Op, Send, Recv
<1>0. call[a] <= Len(Calls) => Source(a, call[a]) \in Party
  BY CallInRange, OpsMatch DEF IInv
<1>1. CASE Quiet
  BY <1>0, <1>1, GotSame DEF Quiet
<1>2. ASSUME NEW p \in Party, NEW q \in Party, p # q, Sends(p, q) \/ Receives(p, q), p # a \/ Sends(p, q)
      PROVE  GotOK(a)'
  <2>1. call' = call /\ got'[a] = got[a]
    BY <1>2 DEF Sends, Receives, OnlyMoves, StageInv
  <2>2. \A r \in Party : Moved(a, Recv(r))' = Moved(a, Recv(r))
    BY <1>2 DEF Sends, Receives, OnlyMoves
  <2> QED BY <1>0, <2>1, <2>2, GotSame
<1>3. ASSUME NEW q \in Party, a # q, Receives(a, q)
      PROVE  GotOK(a)'
  <2>1. /\ call' = call /\ Within(a) /\ Recv(q) \in Ops(a, call[a]) /\ Moved(a, Recv(q)) < Chunks(call[a])
        /\ Moved(a, Recv(q))' = Moved(a, Recv(q)) + 1
    BY <1>3 DEF Receives, OnlyMoves
  <2>2. call[a] \in 1..Len(Calls) /\ Moved(a, Recv(q)) \in Nat
    BY <2>1, CallInRange, Stages DEF IInv, Within
  <2>3. q = Source(a, call[a])
    BY <2>1, <2>2, OpsMatch
  <2>4. Head(chan[<<q, a>>]) = Chunk(call[a], q, Moved(a, Recv(q)) + 1)
    BY <1>3, <2>1, HeadIsNext DEF Receives
  <2>5. got'[a] = Append(got[a], Chunk(call[a], q, Moved(a, Recv(q)) + 1)) /\ got[a] \in Seq(Message)
    BY <1>3, <2>4 DEF Receives, StageInv
  <2>6. Len(got[a]) = Moved(a, Recv(q)) /\ \A k \in 1..Len(got[a]) : got[a][k] = Chunk(call[a], q, k)
    BY <2>2, <2>3 DEF GotOK
  <2>7. Len(got'[a]) = Moved(a, Recv(q))' /\ \A k \in 1..Len(got'[a]) : got'[a][k] = Chunk(call[a], q, k)
    <3> HIDE DEF Recv
    <3>1. PICK x, g : x = Chunk(call[a], q, Moved(a, Recv(q)) + 1) /\ g = got[a]
      OBVIOUS
    <3>2. got'[a] = Append(g, x) /\ g \in Seq(Message) /\ Len(g) \in Nat
      BY <2>5, <3>1
    <3>3. Len(got'[a]) = Len(g) + 1
      BY <3>2
    <3>4. \A k \in 1..Len(g) + 1 : got'[a][k] = IF k = Len(g) + 1 THEN x ELSE g[k]
      BY <3>2
    <3>5. ASSUME NEW k \in 1..Len(g) + 1 PROVE got'[a][k] = Chunk(call[a], q, k)
      <4>1. CASE k = Len(g) + 1
        BY <2>6, <3>1, <3>4, <4>1
      <4>2. CASE k # Len(g) + 1
        <5>1. k \in 1..Len(g)
          BY <3>2, <4>2
        <5> QED BY <2>6, <3>1, <3>4, <4>2, <5>1
      <4> QED BY <4>1, <4>2
    <3> QED BY <2>1, <2>6, <3>1, <3>3, <3>5
  <2>8. Source(a, call'[a]) = q
    BY <2>1, <2>3
  <2> QED BY <2>1, <2>7, <2>8 DEF GotOK
<1>4. ASSUME NEW p \in Party, Returns(p)
      PROVE  GotOK(a)'
  <2>1. CASE p = a
    <3>1. got'[a] = <<>> /\ \A o \in Op : Moved(a, o)' = 0
      BY <1>4, <2>1 DEF Returns, StageInv
    <3>2. call'[a] = call[a] + 1 /\ call[a] \in Nat /\ Len(Calls) \in Nat
      BY <1>4, <2>1, CallsAssumption DEF Returns, IInv, TypeOK
    <3>3. ASSUME call'[a] <= Len(Calls) PROVE Source(a, call'[a]) \in Party
      <4>1. call'[a] \in 1..Len(Calls)
        BY <3>2, <3>3
      <4> QED BY <4>1, OpsMatch
    <3>4. ASSUME NEW from \in Party PROVE Moved(a, Recv(from))' = 0
      BY <3>1
    <3> QED BY <3>1, <3>3, <3>4 DEF GotOK
  <2>2. CASE p # a
    <3>1. call'[a] = call[a] /\ got'[a] = got[a]
      BY <1>4, <2>2 DEF Returns, IInv, TypeOK, StageInv
    <3>2. \A q \in Party : Moved(a, Recv(q))' = Moved(a, Recv(q))
      BY <1>4, <2>2 DEF Returns
    <3> QED BY <1>0, <3>1, <3>2, GotSame
  <2> QED BY <2>1, <2>2
<1> QED BY <1>1, <1>2, <1>3, <1>4 DEF Effect

LEMMA InitStream == Init => StreamInv
<1> SUFFICES ASSUME Init PROVE StreamInv
  OBVIOUS
<1>1. \A p \in Party : call[p] = 1 /\ got[p] = <<>> /\ \A o : Moved(p, o) = 0
  BY DEF Init, Moved, Within
<1>2. \A p \in Party : GotOK(p)
  BY <1>1 DEF GotOK
<1>3. ASSUME NEW o, NEW p \in Party, NEW c, NEW k PROVE ~Has(o, p, c, k)
  <2>1. ~(c \in 1..Len(Calls) /\ c < 1) /\ ~(k \in 1..Chunks(c) /\ k <= 0)
    OBVIOUS
  <2> QED BY <1>1, <2>1 DEF Has
<1>4. ASSUME NEW p \in Party, NEW q \in Party, p # q PROVE ChanOK(p, q)
  <2>1. chan[<<p, q>>] = <<>>
    BY <1>4 DEF Init, Link
  <2> QED BY <1>3, <2>1 DEF ChanOK, Increasing, UnderWay
<1> QED BY <1>2, <1>4 DEF StreamInv

\* The chunks in the channels and in the buffers are those of the protocol.
THEOREM StreamAlways == Spec => [](IInv /\ StageInv /\ StreamInv)
<1>1. Init => IInv /\ StageInv /\ StreamInv
  BY InitIInv, InitStage, InitStream
<1>2. IInv /\ StageInv /\ StreamInv /\ [Next]_vars => (IInv /\ StageInv /\ StreamInv)'
  <2> SUFFICES ASSUME IInv, StageInv, StreamInv, [Next]_vars PROVE (IInv /\ StageInv /\ StreamInv)'
    OBVIOUS
  <2>1. IInv' /\ StageInv' /\ Effect
    BY NextIInv, StepEffect
  <2>2. StreamInv'
    BY <2>1, ChansStep, GotStep DEF StreamInv
  <2> QED BY <2>1, <2>2
<1> QED BY <1>1, <1>2, PTL DEF Spec

THEOREM DataIsRight == Spec => []RightDataArrives
<1>1. IInv /\ StageInv /\ StreamInv => RightDataArrives
  <2> SUFFICES ASSUME IInv, StageInv, StreamInv, NEW p \in Party, pc[p] = "check", failed[p] = {}
               PROVE  got[p] = Expected(p, call[p])
    BY DEF RightDataArrives
  <2>1. Within(p) /\ call[p] \in 1..Len(Calls) /\ Chunks(call[p]) \in Nat
    BY CallInRange DEF IInv, MainOK, Within
  <2>2. PICK o : o = Recv(Source(p, call[p]))
    OBVIOUS
  <2>3. o \in Ops(p, call[p]) /\ o[1] = "recv"
    BY <2>1, <2>2, OpsMatch DEF Recv
  <2>4. Moved(p, o) = Chunks(call[p])
    BY <2>1, <2>3, AllMoved
  <2>5. Expected(p, call[p]) = [k \in 1..Chunks(call[p]) |-> Chunk(call[p], Source(p, call[p]), k)]
    BY DEF Expected, Source, Buffer, Chunks
  <2>6. got[p] \in Seq(Message) /\ Len(got[p]) = Chunks(call[p])
        /\ \A k \in 1..Len(got[p]) : got[p][k] = Chunk(call[p], Source(p, call[p]), k)
    BY <2>1, <2>2, <2>4 DEF StageInv, StreamInv, GotOK
  <2> HIDE DEF Chunks
  <2> QED BY <2>5, <2>6
<1> QED BY <1>1, StreamAlways, PTL

-----------------------------------------------------------------------------
\* Wakeups.

\* No wakeup is lost: a thread sleeps only while what it waits for is not so.  A
\* worker exits only after shutdown, which raised its flag for good.
SleepOf(p, w) ==
    /\ "main" \in asleep[p][w] => pc[p] = WaitAt(w) /\ ~done[p][w]
    /\ "worker" \in asleep[p][w] => worker[p][w] = "wait" /\ ~ready[p][w]
    /\ worker[p][w] = "exited" => shutdown[p]
    /\ pc[p] \in {"join", "gone"} \/ (pc[p] = "stop" /\ w = "send") => ready[p][w]

\* While the connections hold nothing is thrown.
HealthyOf(p) ==
    broken = {} =>
        /\ failed[p] = {} /\ pc[p] # "thrown"
        /\ pc[p] \in Stopping => call[p] > Len(Calls)

WakeInv == \A p \in Party : HealthyOf(p) /\ \A w \in Worker : SleepOf(p, w)

\* A notification reaches the only thread that may sleep on a condition variable.
LEMMA Woken ==
    ASSUME TypeOK, NEW p \in Party, NEW w \in Worker, NotifyOne(p, w),
           NEW t, asleep[p][w] \subseteq {t}
    PROVE  /\ asleep'[p][w] = {}
           /\ \A q \in Party, v \in Worker : q # p \/ v # w => asleep'[q][v] = asleep[q][v]
<1>1. CASE asleep[p][w] = {} /\ asleep' = asleep
  BY <1>1
<1>2. ASSUME NEW s \in asleep[p][w], asleep' = [asleep EXCEPT ![p][w] = asleep[p][w] \ {s}]
      PROVE  /\ asleep'[p][w] = {}
             /\ \A q \in Party, v \in Worker : q # p \/ v # w => asleep'[q][v] = asleep[q][v]
  <2>1. asleep[p][w] \ {s} = {}
    OBVIOUS
  <2> QED BY <1>2, <2>1 DEF TypeOK
<1> QED BY <1>1, <1>2 DEF NotifyOne, Set

\* A thread that wakes up for no reason harms nothing.
LEMMA FewerAsleep ==
    ASSUME TypeOK, NEW p \in Party, NEW w \in Worker, NotifyOne(p, w)
    PROVE  \A q \in Party, v \in Worker : asleep'[q][v] \subseteq asleep[q][v]
<1>1. CASE asleep' = asleep
  BY <1>1
<1>2. ASSUME NEW s, asleep' = [asleep EXCEPT ![p][w] = asleep[p][w] \ {s}]
      PROVE  \A q \in Party, v \in Worker : asleep'[q][v] \subseteq asleep[q][v]
  BY <1>2 DEF TypeOK
<1> QED BY <1>1, <1>2 DEF NotifyOne, Set

LEMMA InitWake == Init => WakeInv
  BY DEF Init, WakeInv, SleepOf, HealthyOf, WaitAt

\* Steps that only move the protocol thread, between positions where it does not wait.
LEMMA MoveWake ==
    ASSUME TypeOK, WakeInv, NEW p \in Party, NEW to,
           pc' = [pc EXCEPT ![p] = to], UNCHANGED <<asleep, done, ready, worker, failed, broken>>,
           \A q \in Party : shutdown[q] => shutdown'[q],
           pc[p] \notin {"wait_send", "wait_recv"} \/ \A w \in Worker : "main" \notin asleep[p][w],
           to = "gone" => pc[p] = "join",
           to \notin {"stop", "join"},
           to = "thrown" => broken # {},
           \A q \in Party : call'[q] = call[q] \/ (q = p /\ to = "caller")
    PROVE  WakeInv'
<1>1. ASSUME NEW q \in Party, NEW w \in Worker PROVE SleepOf(q, w)'
  BY DEF WakeInv, SleepOf, WaitAt, TypeOK
<1>2. ASSUME NEW q \in Party PROVE HealthyOf(q)'
  BY DEF WakeInv, HealthyOf, TypeOK
<1> QED BY <1>1, <1>2 DEF WakeInv

LEMMA MainWake ==
    ASSUME IInv, WakeInv, NEW p \in Party, MainThread(p)
    PROVE  WakeInv'
<1> USE DEF IInv
<1>0. pc[p] \notin {"wait_send", "wait_recv"} => \A w \in Worker : "main" \notin asleep[p][w]
  BY DEF WakeInv, SleepOf, WaitAt
<1>a. \A w \in Worker : asleep[p][w] \subseteq {"main", "worker"}
  BY DEF TypeOK
<1>1. CASE CallScript(p)
  BY <1>1, MoveWake DEF CallScript, Step, flags, net
<1>2. CASE ScriptTransfer(p)
  <2>1. PICK to \in {"script", "check"} : pc' = [pc EXCEPT ![p] = to]
    <3>1. PICK last : last \in BOOLEAN /\ pc' = [pc EXCEPT ![p] = IF last THEN "check" ELSE @]
      BY <1>2, Zenon DEF ScriptTransfer
    <3>2. pc[p] = "script"
      BY <1>2 DEF ScriptTransfer
    <3> QED BY <3>1, <3>2
  <2>2. pc[p] = "script" /\ UNCHANGED <<call, asleep, done, ready, worker, failed, broken, shutdown>>
    BY <1>2 DEF ScriptTransfer, Transfer, Transmit, Receive, flags
  <2> QED BY <2>1, <2>2, MoveWake
<1>3. CASE ScriptThrow(p)
  BY <1>3, MoveWake DEF ScriptThrow, Up, flags, net
<1>4. ASSUME NEW w \in Worker, NEW to \in {"post_recv", "wait_send"},
             pc[p] \in {"caller", "post_recv"}, pc' = [pc EXCEPT ![p] = to], HandOver(p, w),
             UNCHANGED <<call, done, failed, shutdown, worker, broken>>
      PROVE  WakeInv'
  <2>1. asleep[p][w] \subseteq {"worker"}
    BY <1>0, <1>4, <1>a
  <2>2. /\ asleep'[p][w] = {}
        /\ \A q \in Party, v \in Worker : q # p \/ v # w => asleep'[q][v] = asleep[q][v]
    BY <1>4, <2>1, Woken DEF HandOver
  <2>3. ASSUME NEW q \in Party, NEW v \in Worker PROVE SleepOf(q, v)'
    BY <1>0, <1>4, <2>2 DEF WakeInv, SleepOf, WaitAt, HandOver, Set, TypeOK
  <2>4. ASSUME NEW q \in Party PROVE HealthyOf(q)'
    BY <1>4 DEF WakeInv, HealthyOf, TypeOK
  <2> QED BY <2>3, <2>4 DEF WakeInv
<1>5. CASE PostSend(p)
  BY <1>4, <1>5 DEF PostSend, Step, net
<1>6. CASE PostRecv(p)
  BY <1>4, <1>6 DEF PostRecv, Step, net
<1>7. ASSUME NEW w \in Worker, WaitSleep(p, w) PROVE WakeInv'
  <2>1. asleep' = [asleep EXCEPT ![p][w] = asleep[p][w] \cup {"main"}] /\ pc[p] = WaitAt(w) /\ ~done[p][w]
        /\ UNCHANGED <<pc, call, done, ready, failed, shutdown, worker, broken>>
    BY <1>7 DEF WaitSleep, Sleep, Set, flags, net
  <2>2. ASSUME NEW q \in Party, NEW v \in Worker PROVE SleepOf(q, v)'
    BY <2>1 DEF WakeInv, SleepOf, TypeOK
  <2> QED BY <2>1, <2>2 DEF WakeInv, HealthyOf
<1>8. ASSUME NEW w \in Worker, WaitDone(p, w) PROVE WakeInv'
  <2>1. /\ pc[p] = WaitAt(w) /\ pc' = [pc EXCEPT ![p] = AfterWait(w)] /\ "main" \notin asleep[p][w]
        /\ done' = [done EXCEPT ![p][w] = FALSE]
        /\ UNCHANGED <<call, ready, failed, shutdown, worker, asleep, broken>>
    BY <1>8 DEF WaitDone, Step, Reset, Set, Awake, net
  <2>2. \A v \in Worker : "main" \notin asleep[p][v]
    BY <2>1 DEF WakeInv, SleepOf, WaitAt
  <2>3. ASSUME NEW q \in Party, NEW v \in Worker PROVE SleepOf(q, v)'
    BY <2>1, <2>2 DEF WakeInv, SleepOf, WaitAt, AfterWait, TypeOK
  <2>4. ASSUME NEW q \in Party PROVE HealthyOf(q)'
    BY <2>1 DEF WakeInv, HealthyOf, AfterWait, TypeOK
  <2> QED BY <2>3, <2>4 DEF WakeInv
<1>9. CASE Return(p)
  <2>1. CASE failed[p] = {}
    BY <1>9, <2>1, MoveWake DEF Return, TypeOK, flags
  <2>2. CASE failed[p] # {}
    <3>1. broken # {}
      BY <2>2 DEF WakeInv, HealthyOf
    <3> QED BY <1>9, <2>2, <3>1, MoveWake DEF Return, flags
  <2> QED BY <2>1, <2>2
<1>10. ASSUME NEW w \in Worker, NEW to \in {"stop", "join"},
              w = "send" => to = "stop" /\ (pc[p] = "thrown" \/ (pc[p] = "caller" /\ call[p] > Len(Calls))),
              w = "recv" => to = "join" /\ pc[p] = "stop",
              pc' = [pc EXCEPT ![p] = to], ready' = Set(ready, p, w, TRUE), NotifyOne(p, w),
              \A q \in Party : shutdown[q] => shutdown'[q],
              UNCHANGED <<call, done, failed, worker, broken>>
       PROVE  WakeInv'
  <2>1. asleep[p][w] \subseteq {"worker"}
    BY <1>0, <1>10, <1>a
  <2>2. /\ asleep'[p][w] = {}
        /\ \A q \in Party, v \in Worker : q # p \/ v # w => asleep'[q][v] = asleep[q][v]
    BY <1>10, <2>1, Woken
  <2>3. ASSUME NEW q \in Party, NEW v \in Worker PROVE SleepOf(q, v)'
    BY <1>0, <1>10, <2>2 DEF WakeInv, SleepOf, WaitAt, Set, TypeOK
  <2>4. ASSUME NEW q \in Party PROVE HealthyOf(q)'
    BY <1>10 DEF WakeInv, HealthyOf, TypeOK
  <2> QED BY <2>3, <2>4 DEF WakeInv
<1>11. CASE ShutdownSend(p)
  <2>1. \A q \in Party : shutdown[q] => shutdown'[q]
    BY <1>11 DEF ShutdownSend, TypeOK
  <2> QED BY <1>10, <1>11, <2>1 DEF ShutdownSend, net
<1>12. CASE ShutdownRecv(p)
  BY <1>10, <1>12 DEF ShutdownRecv, WakeRecv, Step, net
<1>13. CASE Join(p)
  BY <1>13, MoveWake DEF Join, Step, flags, net
<1> QED
  BY <1>1, <1>2, <1>3, <1>5, <1>6, <1>7, <1>8, <1>9, <1>11, <1>12, <1>13 DEF MainThread

LEMMA WorkerWake ==
    ASSUME IInv, WakeInv, NEW p \in Party, NEW w \in Worker, WorkerThread(p, w)
    PROVE  WakeInv'
<1> USE DEF IInv
<1>1. CASE WorkerSleep(p, w)
  <2>1. asleep' = [asleep EXCEPT ![p][w] = asleep[p][w] \cup {"worker"}] /\ worker[p][w] = "wait" /\ ~ready[p][w]
        /\ UNCHANGED <<pc, call, done, ready, failed, shutdown, worker, broken>>
    BY <1>1 DEF WorkerSleep, Sleep, Set, flags, net
  <2>2. ASSUME NEW q \in Party, NEW v \in Worker PROVE SleepOf(q, v)'
    BY <2>1 DEF WakeInv, SleepOf, TypeOK
  <2> QED BY <2>1, <2>2 DEF WakeInv, HealthyOf
<1>2. CASE WorkerStart(p, w)
  <2>1. PICK to \in {"exited", "work"} :
          worker' = [worker EXCEPT ![p][w] = to] /\ (to = "exited" => shutdown[p])
    BY <1>2 DEF WorkerStart, Move, Set
  <2>2. "worker" \notin asleep[p][w] /\ UNCHANGED <<pc, call, done, ready, failed, shutdown, asleep, broken>>
    BY <1>2 DEF WorkerStart, Awake, flags, net
  <2>3. ASSUME NEW q \in Party, NEW v \in Worker PROVE SleepOf(q, v)'
    BY <2>1, <2>2 DEF WakeInv, SleepOf, TypeOK
  <2> QED BY <2>2, <2>3 DEF WakeInv, HealthyOf
<1>3. CASE WorkerTransfer(p, w)
  BY <1>3 DEF WorkerTransfer, Transfer, Transmit, Receive, flags, WakeInv, SleepOf, HealthyOf
<1>4. ASSUME NEW E \in SUBSET Worker, WorkerFinish(p, w, E), broken # {} \/ E = {}
      PROVE  WakeInv'
  <2>1. /\ worker[p][w] = "work" /\ worker' = [worker EXCEPT ![p][w] = "wait"]
        /\ ready' = [ready EXCEPT ![p][w] = FALSE] /\ done' = [done EXCEPT ![p][w] = TRUE]
        /\ failed' = [failed EXCEPT ![p] = failed[p] \cup E]
        /\ NotifyOne(p, w)
        /\ UNCHANGED <<pc, call, shutdown, broken>>
    BY <1>4 DEF WorkerFinish, Move, ReadyAfter, Set, net
  <2>2. asleep[p][w] \subseteq {"main"}
    BY <2>1 DEF WakeInv, SleepOf, TypeOK
  <2>3. /\ asleep'[p][w] = {}
        /\ \A q \in Party, v \in Worker : q # p \/ v # w => asleep'[q][v] = asleep[q][v]
    BY <2>1, <2>2, Woken
  <2>4. pc[p] \notin Stopping
    BY <2>1 DEF Handshake, HandshakeOf, HandedOver
  <2>5. ASSUME NEW q \in Party, NEW v \in Worker PROVE SleepOf(q, v)'
    BY <2>1, <2>3, <2>4 DEF WakeInv, SleepOf, TypeOK
  <2>6. ASSUME NEW q \in Party PROVE HealthyOf(q)'
    BY <1>4, <2>1 DEF WakeInv, HealthyOf, TypeOK
  <2> QED BY <2>5, <2>6 DEF WakeInv
<1>5. CASE WorkerEnd(p, w)
  BY <1>4, <1>5 DEF WorkerEnd
<1>6. CASE WorkerThrow(p, w)
  BY <1>4, <1>6 DEF WorkerThrow, Up
<1> QED BY <1>1, <1>2, <1>3, <1>5, <1>6 DEF WorkerThread

LEMMA StepWake ==
    ASSUME IInv, WakeInv, [Next]_vars
    PROVE  WakeInv'
<1>1. CASE UNCHANGED vars
  BY <1>1 DEF vars, flags, net, WakeInv, SleepOf, HealthyOf
<1>2. ASSUME NEW p \in Party, NEW w \in Worker, SpuriousWakeup(p, w) PROVE WakeInv'
  <2>1. \A q \in Party, v \in Worker : asleep'[q][v] \subseteq asleep[q][v]
    BY <1>2, FewerAsleep DEF IInv, SpuriousWakeup
  <2> QED BY <1>2, <2>1 DEF SpuriousWakeup, flags, net, WakeInv, SleepOf, HealthyOf
<1>3. ASSUME NEW l, Break(l) PROVE WakeInv'
  BY <1>3 DEF Break, flags, WakeInv, SleepOf, HealthyOf
<1> QED BY <1>1, <1>2, <1>3, MainWake, WorkerWake DEF Next

-----------------------------------------------------------------------------
\* Nobody waits for ever: the parties furthest behind do not wait for each other.

Inv == IInv /\ StageInv /\ StreamInv /\ WakeInv

\* A transfer of the call that p is in and has not finished, and one that p cannot
\* go on with.
Pending(p, op) ==
    /\ Within(p) /\ call[p] \in 1..Len(Calls)
    /\ op \in Ops(p, call[p]) /\ Moved(p, op) < Chunks(call[p])
Blocked(p, op) == Pending(p, op) /\ ~CanTransfer(p, op)

\* The calls of the parties that are furthest behind.
Last(p) == \A q \in Party : call[p] <= call[q]

LEMMA PendingFacts ==
    ASSUME Inv, NEW p \in Party, NEW op, Pending(p, op)
    PROVE  /\ op \in Op /\ op[2] # p /\ call[p] \in 1..Len(Calls)
           /\ Chunks(call[p]) \in Nat \ {0} /\ Moved(p, op) \in Nat
           /\ \A q \in Party : call[q] \in Nat
<1>1. op \in Op /\ op[2] # p /\ call[p] \in 1..Len(Calls)
  BY OpsMatch DEF Pending
<1>2. Chunks(call[p]) \in Nat \ {0}
  BY CallInRange DEF Pending, Within, Inv, IInv
<1>3. Moved(p, op) \in Nat
  BY <1>1, Stages DEF Inv
<1> QED BY <1>1, <1>2, <1>3 DEF Inv, IInv, TypeOK

\* A party whose transfer is pending is not behind one that waits in the same call.
LEMMA PendingToo ==
    ASSUME Inv, NEW q \in Party, NEW c \in 1..Len(Calls), NEW op \in Ops(q, c), NEW k \in 1..Chunks(c),
           c <= call[q], ~Has(op, q, c, k)
    PROVE  call[q] = c /\ k > Moved(q, op) /\ (pc[q] # "caller" => Pending(q, op))
<1>1. op \in Op
  BY OpsMatch
<1>2. Moved(q, op) \in Nat /\ call[q] \in Nat
  BY <1>1, Stages DEF Inv
<1>3. call[q] = c /\ k > Moved(q, op)
  BY <1>2 DEF Has
<1>4. Chunks(c) \in Nat
  BY <1>2, <1>3, CallInRange DEF Inv, IInv
<1> QED BY <1>2, <1>3, <1>4 DEF Pending, Within

\* Whoever waits to receive waits for a peer that has still to send in the same call.
LEMMA RecvWaits ==
    ASSUME Inv, NEW p \in Party, NEW q \in Party, Last(p), Blocked(p, Recv(q))
    PROVE  /\ chan[<<q, p>>] = <<>> /\ call[q] = call[p]
           /\ pc[q] # "caller" => Pending(q, Send(p))
<1>1. /\ Pending(p, Recv(q)) /\ p # q /\ call[p] \in 1..Len(Calls) /\ Chunks(call[p]) \in Nat \ {0}
      /\ Moved(p, Recv(q)) \in Nat
  BY PendingFacts DEF Blocked, Recv
<1>2. chan[<<q, p>>] = <<>>
  BY DEF Blocked, CanTransfer, CanReceive, Recv
<1>3. PICK c \in Nat, k \in Nat : c = call[p] /\ k = Moved(p, Recv(q)) + 1
  BY <1>1
<1>4. Recv(q) \in Ops(p, c) /\ Send(p) \in Ops(q, c) /\ k \in 1..Chunks(c) /\ c \in 1..Len(Calls)
  BY <1>1, <1>3, OpsMatch DEF Pending
<1>5. ~Has(Recv(q), p, c, k)
  BY <1>1, <1>3 DEF Has
<1>6. ~Has(Send(p), q, c, k)
  <2>1. ~UnderWay(q, p, c, k)
    <3>1. ChanOK(q, p) /\ Len(chan[<<q, p>>]) = 0
      BY <1>1, <1>2 DEF Inv, StreamInv
    <3> QED BY <3>1 DEF ChanOK
  <2> QED BY <1>5, <2>1 DEF UnderWay
<1>7. c <= call[q]
  BY <1>3 DEF Last
<1> QED BY <1>2, <1>3, <1>4, <1>6, <1>7, PendingToo

\* Whoever waits to send, while the connection holds, waits for a peer that has
\* still to receive in the same call, and at least one chunk was sent before.
LEMMA SendWaits ==
    ASSUME Inv, broken = {}, NEW p \in Party, NEW q \in Party, Last(p), Blocked(p, Send(q))
    PROVE  /\ chan[<<p, q>>] # <<>> /\ call[q] = call[p] /\ Moved(p, Send(q)) > 0
           /\ pc[q] # "caller" => Pending(q, Recv(p))
<1>1. /\ Pending(p, Send(q)) /\ p # q /\ call[p] \in 1..Len(Calls) /\ Chunks(call[p]) \in Nat \ {0}
      /\ Moved(p, Send(q)) \in Nat /\ <<p, q>> \in Link
  BY PendingFacts DEF Blocked, Send, Link
<1>2. chan[<<p, q>>] \in Seq(Message) /\ ~(Len(chan[<<p, q>>]) < Capacity)
  BY <1>1 DEF Blocked, CanTransfer, CanTransmit, Up, Send, Inv, StageInv
<1>3. Len(chan[<<p, q>>]) > 0 /\ 1 \in 1..Len(chan[<<p, q>>])
  BY <1>2, CapacityAssumption
<1>4. PICK m : m = chan[<<p, q>>][1]
  OBVIOUS
<1>5. m[1] \in Nat /\ m[3] \in Nat /\ UnderWay(p, q, m[1], m[3])
  BY <1>1, <1>2, <1>3, <1>4, Elem DEF Inv, StreamInv
<1>6. /\ m[1] \in 1..Len(Calls) /\ Send(q) \in Ops(p, m[1]) /\ Recv(p) \in Ops(q, m[1]) /\ m[3] \in 1..Chunks(m[1])
      /\ m[1] < call[p] \/ (m[1] = call[p] /\ m[3] <= Moved(p, Send(q)))
      /\ ~Has(Recv(p), q, m[1], m[3])
  BY <1>5, OpsMatch DEF UnderWay, Has
<1>7. call[p] <= call[q] /\ call[q] \in Nat /\ call[p] \in Nat
  BY <1>1, PendingFacts DEF Last
<1>8. call[q] = m[1]
  BY <1>5, <1>6, <1>7, PendingToo
<1>9. m[1] = call[p] /\ m[3] <= Moved(p, Send(q)) /\ m[3] > 0
  BY <1>5, <1>6, <1>7, <1>8
<1>10. pc[q] # "caller" => Pending(q, Recv(p))
  BY <1>5, <1>6, <1>7, <1>8, PendingToo
<1> QED BY <1>1, <1>3, <1>5, <1>8, <1>9, <1>10

\* Two parties do not wait for each other on one channel.
LEMMA NotBoth ==
    ASSUME Inv, broken = {}, NEW p \in Party, NEW q \in Party, Last(p), Last(q),
           Blocked(p, Send(q)), Blocked(q, Recv(p))
    PROVE  FALSE
  BY RecvWaits, SendWaits

-----------------------------------------------------------------------------
\* A party none of whose threads can go on.
LEMMA Stuck ==
    ASSUME Inv, NEW p \in Party, ~GoesOn(p)
    PROVE  /\ pc[p] \in {"script", "wait_send", "wait_recv", "gone"}
           /\ \A w \in Worker : pc[p] = WaitAt(w) => ~done[p][w]
           /\ \A w \in Worker : pc[p] \in HandedOver(w) /\ ~done[p][w] => worker[p][w] = "work"
           /\ \A w \in Worker : worker[p][w] = "work" => Blocked(p, WorkerOp(p, w))
           /\ pc[p] = "script" => Blocked(p, Head(todo[p]))
<1> USE DEF Inv, IInv
<1>1. pc[p] \in {"script", "wait_send", "wait_recv", "join", "gone"}
  BY DEF GoesOn, MainGoesOn, TypeOK
<1>2. ASSUME NEW w \in Worker, worker[p][w] = "wait" PROVE ~ready[p][w]
  BY <1>2 DEF GoesOn, WorkerGoesOn, Awake, WakeInv, SleepOf
<1>3. ASSUME NEW w \in Worker, worker[p][w] = "exited" PROVE pc[p] \in {"join", "gone"}
  BY <1>1, <1>3 DEF WakeInv, SleepOf, MainOK
<1>4. ASSUME NEW w \in Worker, worker[p][w] = "work" PROVE Blocked(p, WorkerOp(p, w))
  <2>1. /\ Within(p) /\ Kind(p) = "vector" /\ total[p][w] = Chunks(call[p])
        /\ call[p] \in 1..Len(Calls) /\ VectorOK(p) /\ Chunks(call[p]) \in Nat
        /\ WorkerOp(p, w) \in Ops(p, call[p]) /\ WorkerOp(p, w)[1] = w
    BY <1>4, AtWork
  <2>2. ~(off[p][w] = total[p][w] \/ CanTransfer(p, WorkerOp(p, w)))
    BY <1>4 DEF GoesOn, WorkerGoesOn
  <2>3. Moved(p, WorkerOp(p, w)) = off[p][w] /\ off[p][w] \in Nat /\ off[p][w] <= Chunks(call[p])
    BY <2>1 DEF Moved, TypeOK, VectorOK
  <2> QED BY <2>1, <2>2, <2>3 DEF Blocked, Pending
<1>5. pc[p] # "join"
  <2> SUFFICES ASSUME pc[p] = "join" PROVE FALSE
    OBVIOUS
  <2>1. \A w \in Worker : ready[p][w]
    BY DEF WakeInv, SleepOf
  <2>2. \A w \in Worker : worker[p][w] # "work"
    BY DEF Handshake, HandshakeOf, HandedOver
  <2>3. \A w \in Worker : worker[p][w] = "exited"
    BY <1>2, <2>1, <2>2 DEF TypeOK
  <2> QED BY <2>3 DEF GoesOn, MainGoesOn
<1>6. ASSUME NEW w \in Worker, pc[p] = WaitAt(w) PROVE ~done[p][w]
  BY <1>6 DEF GoesOn, MainGoesOn, Awake, WakeInv, SleepOf
<1>8. ASSUME NEW w \in Worker, pc[p] \in HandedOver(w), ~done[p][w] PROVE worker[p][w] = "work"
  <2>1. ready[p][w]
    BY <1>8 DEF Handshake, HandshakeOf
  <2>2. worker[p][w] # "exited"
    BY <1>3, <1>8 DEF HandedOver
  <2> QED BY <1>2, <2>1, <2>2 DEF TypeOK
<1>7. ASSUME pc[p] = "script" PROVE Blocked(p, Head(todo[p]))
  <2>1. /\ Within(p) /\ call[p] <= Len(Calls) /\ Kind(p) # "vector" /\ todo[p] # <<>>
        /\ ScriptOK(p) /\ ~CanTransfer(p, Head(todo[p]))
    BY <1>7 DEF MainOK, StageInv, StageOf, Within, GoesOn, MainGoesOn
  <2>2. call[p] \in 1..Len(Calls)
    BY <2>1, CallInRange
  <2>3. Head(todo[p]) \in Ops(p, call[p]) /\ off[p][Head(todo[p])[1]] < Chunks(call[p])
    BY <2>1, <2>2, TailFacts DEF ScriptOK
  <2>4. Moved(p, Head(todo[p])) = off[p][Head(todo[p])[1]]
    BY <2>1, <2>3 DEF Moved
  <2> QED BY <2>1, <2>2, <2>3, <2>4 DEF Blocked, Pending
<1> QED BY <1>1, <1>4, <1>5, <1>6, <1>7, <1>8

\* A stuck party with a transfer pending is at it, or before it in its script.
LEMMA StuckPending ==
    ASSUME Inv, broken = {}, NEW p \in Party, ~GoesOn(p), NEW op, Pending(p, op)
    PROVE  \/ Blocked(p, op)
           \/ /\ Kind(p) # "vector"
              /\ \E h \in Ops(p, call[p]) : Blocked(p, h) /\ Rank(p, call[p], h) < Rank(p, call[p], op)
<1> USE DEF Inv, IInv
<1>1. /\ Within(p) /\ call[p] \in 1..Len(Calls) /\ op \in Ops(p, call[p]) /\ Moved(p, op) < Chunks(call[p])
      /\ Chunks(call[p]) \in Nat
  BY PendingFacts DEF Pending
<1>2. failed[p] = {} /\ pc[p] # "gone"
  BY <1>1 DEF WakeInv, HealthyOf
<1>3. CASE pc[p] \in {"wait_send", "wait_recv"}
  <2>1. Kind(p) = "vector" /\ VectorOK(p)
    BY <1>1, <1>3 DEF StageInv, StageOf, InVector
  <2>2. PICK w \in Worker : op = WorkerOp(p, w) /\ op[1] = w
    BY <1>1, <2>1 DEF Ops, Kind, WorkerOp, Send, Recv
  <2>3. ~Served(p, w)
    <3>1. Moved(p, op) = off[p][w]
      BY <1>1, <2>1, <2>2 DEF Moved
    <3> QED BY <1>1, <2>1, <3>1 DEF VectorOK
  <2>4. pc[p] \in HandedOver(w) /\ ~done[p][w]
    BY <1>2, <1>3, <2>3 DEF Served, HandedOver
  <2>5. worker[p][w] = "work"
    BY <2>4, Stuck
  <2> QED BY <2>2, <2>5, Stuck
<1>4. CASE pc[p] = "script"
  <2>1. Kind(p) # "vector" /\ todo[p] # <<>> /\ todo[p] \in Rest(p, call[p])
    BY <1>1, <1>4 DEF StageInv, StageOf, ScriptOK
  <2>2. PICK h : h = Head(todo[p])
    OBVIOUS
  <2>3. /\ h \in Ops(p, call[p]) /\ Blocked(p, h)
        /\ Elements(todo[p]) = Elements(Tail(todo[p])) \cup {h}
        /\ \A o \in Elements(Tail(todo[p])) : Rank(p, call[p], h) < Rank(p, call[p], o)
    BY <1>1, <1>4, <2>1, <2>2, Stuck, TailFacts
  <2>4. op = h \/ op \in Elements(todo[p])
    BY <1>1, <2>1, <2>2 DEF Moved
  <2> QED BY <2>1, <2>3, <2>4
<1> QED BY <1>2, <1>3, <1>4, Stuck

\* While the connections hold, every transfer at which a party that is furthest
\* behind is blocked waits for an earlier one of its peer.
LEMMA Earlier ==
    ASSUME Inv, broken = {}, \A r \in Party : ~GoesOn(r),
           NEW p \in Party, Last(p), NEW op, Blocked(p, op)
    PROVE  LET q == op[2]
               back == IF op[1] = "send" THEN Recv(p) ELSE Send(p)
           IN  /\ q \in Party /\ Last(q) /\ call[q] = call[p] /\ Kind(p) # "vector"
               /\ op[1] = "send" => Kind(p) # "scalar"
               /\ \E h \in Ops(q, call[p]) : Blocked(q, h) /\ Rank(q, call[p], h) < Rank(q, call[p], back)
<1>1. op \in Op /\ call[p] \in 1..Len(Calls) /\ Chunks(call[p]) \in Nat /\ Moved(p, op) \in Nat
      /\ Moved(p, op) < Chunks(call[p])
  BY PendingFacts DEF Blocked, Pending
<1>2. PICK q \in Party : q = op[2]
  BY <1>1 DEF Op
<1>3. PICK back : back = IF op[1] = "send" THEN Recv(p) ELSE Send(p)
  OBVIOUS
<1>4. op = Send(q) \/ op = Recv(q)
  BY <1>1, <1>2 DEF Op, Send, Recv
<1>5. pc[q] # "caller"
  BY Stuck
<1>6. call[q] = call[p] /\ Pending(q, back) /\ Last(q)
  <2>1. call[q] = call[p] /\ Pending(q, back)
    <3>1. CASE op = Send(q)
      <4>1. Blocked(p, Send(q)) /\ back = Recv(p)
        BY <1>3, <3>1 DEF Send
      <4> QED BY <1>5, <4>1, SendWaits
    <3>2. CASE op = Recv(q)
      <4>1. Blocked(p, Recv(q)) /\ back = Send(p)
        BY <1>3, <3>2 DEF Recv
      <4> QED BY <1>5, <4>1, RecvWaits
    <3> QED BY <1>4, <3>1, <3>2
  <2> QED BY <2>1 DEF Last
<1>7. ~Blocked(q, back)
  BY <1>3, <1>4, <1>6, NotBoth DEF Send, Recv
<1>8. /\ Kind(q) # "vector" /\ Kind(q) = Kind(p)
      /\ \E h \in Ops(q, call[p]) : Blocked(q, h) /\ Rank(q, call[p], h) < Rank(q, call[p], back)
  BY <1>6, <1>7, StuckPending DEF Kind
<1>9. ASSUME op[1] = "send", Kind(p) = "scalar" PROVE FALSE
  <2>1. Chunks(call[p]) = 1
    BY <1>1, <1>9, CallInRange DEF Inv, IInv
  <2>2. op = Send(q)
    BY <1>4, <1>9 DEF Recv
  <2>3. Blocked(p, Send(q)) /\ Moved(p, Send(q)) = Moved(p, op)
    BY <2>2
  <2>4. Moved(p, Send(q)) > 0
    BY <2>3, SendWaits
  <2> QED BY <1>1, <2>1, <2>3, <2>4
<1> QED BY <1>2, <1>3, <1>6, <1>8, <1>9

\* The three scripts of revealAll do not wait for each other in a circle, and those
\* of a scalar call send before they receive.
LEMMA NoCircle ==
    ASSUME Inv, broken = {}, \A r \in Party : ~GoesOn(r),
           NEW p \in Party, Last(p), NEW op, Blocked(p, op)
    PROVE  FALSE
<1> DEFINE c == call[p]
<1>1. c \in 1..Len(Calls) /\ op \in Ops(p, c) /\ Kind(p) \in {"scalar", "reveal"}
  BY PendingFacts, Earlier, CallInRange DEF Blocked, Pending, Inv, IInv
<1>2. ASSUME NEW r \in Party, Last(r), call[r] = c, NEW o, Blocked(r, o)
      PROVE  LET q == o[2]
                 back == IF o[1] = "send" THEN Recv(r) ELSE Send(r)
             IN  /\ q \in Party /\ Last(q) /\ call[q] = c /\ o \in Ops(r, c)
                 /\ o[1] = "send" => Kind(p) # "scalar"
                 /\ \E h \in Ops(q, c) : Blocked(q, h) /\ Rank(q, c, h) < Rank(q, c, back)
  <2>1. o \in Ops(r, c) /\ Kind(r) = Kind(p)
    BY <1>2 DEF Blocked, Pending, Kind
  <2> QED BY <1>2, <2>1, Earlier
<1>3. CASE Kind(p) = "scalar"
  <2>1. ASSUME NEW r \in Party, Last(r), call[r] = c, NEW o, Blocked(r, o)
        PROVE  o = Recv(NEXT(r))
    BY <1>2, <1>3, <2>1 DEF Ops, Kind, Send, Recv
  <2>2. op = Recv(NEXT(p))
    BY <2>1
  <2>3. \E q \in Party : \E h :
             Blocked(q, h) /\ Rank(q, c, h) < Rank(q, c, Send(p)) /\ Last(q) /\ call[q] = c
    <3>1. op[1] = "recv" /\ op[2] = NEXT(p)
      BY <2>2 DEF Recv
    <3>2. NEXT(p) \in Party /\ Last(NEXT(p)) /\ call[NEXT(p)] = c
          /\ \E h \in Ops(NEXT(p), c) :
                Blocked(NEXT(p), h) /\ Rank(NEXT(p), c, h) < Rank(NEXT(p), c, Send(p))
      BY <1>2, <3>1
    <3> HIDE DEF c
    <3> QED BY <3>2
  <2>4. PICK q \in Party : \E h :
             Blocked(q, h) /\ Rank(q, c, h) < Rank(q, c, Send(p)) /\ Last(q) /\ call[q] = c
    BY <2>3
  <2>5. PICK h : Blocked(q, h) /\ Rank(q, c, h) < Rank(q, c, Send(p)) /\ Last(q) /\ call[q] = c
    BY <2>4
  <2>6. h = Recv(NEXT(q))
    BY <2>1, <2>5
  <2>7. Rank(q, c, h) = 4
    BY <1>3, <2>6 DEF Rank, Recv, Kind
  <2>8. Rank(q, c, Send(p)) = p + 1 /\ p + 1 <= 3
    BY Parties DEF Rank, Send
  <2> QED BY <2>5, <2>7, <2>8, Parties
<1>4. CASE Kind(p) = "reveal"
  <2>0. /\ Ops(0, c) = {Recv(1), Send(1), Send(2)} /\ Ops(1, c) = {Send(0), Recv(0)} /\ Ops(2, c) = {Recv(0)}
        /\ Rank(0, c, Recv(1)) = 0 /\ Rank(0, c, Send(1)) = 2 /\ Rank(0, c, Send(2)) = 3
        /\ Rank(1, c, Send(0)) = 1 /\ Rank(1, c, Recv(0)) = 4 /\ Rank(2, c, Recv(0)) = 4
    BY <1>4 DEF Ops, RevealOps, Rank, Kind, Send, Recv
  <2> DEFINE At(r, o) == Last(r) /\ call[r] = c /\ Blocked(r, o)
  <2>1. ASSUME NEW r \in Party, NEW o, At(r, o)
        PROVE  /\ o \in Ops(r, c)
               /\ \E h \in Ops(o[2], c) :
                      At(o[2], h) /\ Rank(o[2], c, h) < Rank(o[2], c, IF o[1] = "send" THEN Recv(r) ELSE Send(r))
    BY <1>2, <2>1
  <2> HIDE DEF At
  <2> USE Parties
  <2>2. ~At(0, Recv(1))
    BY <2>0, <2>1 DEF Recv
  <2>3. ~At(1, Send(0))
    BY <2>0, <2>1 DEF Send
  <2>4. ~At(0, Send(1))
    BY <2>0, <2>1, <2>3 DEF Send
  <2>5. ~At(1, Recv(0))
    BY <2>0, <2>1, <2>2 DEF Recv
  <2>6. ~At(0, Send(2))
    BY <2>0, <2>1 DEF Send
  <2>7. ~At(2, Recv(0))
    BY <2>0, <2>1, <2>2, <2>4 DEF Recv
  <2>8. At(p, op)
    BY DEF At
  <2> QED BY <2>0, <2>1, <2>2, <2>3, <2>4, <2>5, <2>6, <2>7, <2>8
<1> QED BY <1>1, <1>3, <1>4

LEMMA NobodyStuck == Inv => NobodyIsStuck
<1> SUFFICES ASSUME Inv, \A p \in Party : ~GoesOn(p), NEW p \in Party, pc[p] # "gone"
             PROVE  broken # {} /\ AtChannel(p)
  BY DEF NobodyIsStuck
<1>1. AtChannel(p)
  BY Stuck DEF AtChannel, WaitAt, HandedOver
<1>2. ASSUME broken = {} PROVE FALSE
  <2>1. \A q \in Party : call[q] \in Nat
    BY DEF Inv, IInv, TypeOK
  <2>2. PICK q \in Party : Last(q)
    BY <2>1, Parties DEF Last
  <2>3. call[p] <= Len(Calls)
    BY Stuck DEF Inv, IInv, MainOK
  <2>4. pc[q] # "gone"
    <3>1. call[q] <= call[p] /\ Len(Calls) \in Nat
      BY <2>2, CallsAssumption DEF Last
    <3> QED BY <1>2, <2>1, <2>3, <3>1 DEF Inv, WakeInv, HealthyOf
  <2>5. PICK op : Blocked(q, op)
    BY <2>4, Stuck DEF WaitAt, HandedOver
  <2> QED BY <1>2, <2>2, <2>5, NoCircle
<1> QED BY <1>1, <1>2

THEOREM InvAlways == Spec => []Inv
<1>1. Init => WakeInv
  BY InitWake
<1>2. IInv /\ WakeInv /\ [Next]_vars => WakeInv'
  BY StepWake
<1> QED BY <1>1, <1>2, StreamAlways, PTL DEF Spec, Inv

THEOREM NobodyGetsStuck == Spec => []NobodyIsStuck
  BY NobodyStuck, InvAlways, PTL

=============================================================================
