---------------------------- MODULE ReshareRing ----------------------------
(***************************************************************************)
(* The ring of three Aby3 objects (include/ref_impl/shr_rep3/aby3.hpp),    *)
(* one per Agent, and the threads inside each: the protocol thread and the *)
(* two persistent workers that send to PREV and receive from NEXT for      *)
(* _reshare_ring.  The three parties make the same calls in the same       *)
(* order.  A call moves data that the callers compute from shares; here a  *)
(* chunk of a buffer is <<call, sender, index>>, enough to tell whether a  *)
(* party received what its peer meant to send it in that call.             *)
(*                                                                         *)
(* A condition variable is the set of threads that sleep on it.  wait with *)
(* a predicate tests it under the mutex and goes to sleep in one step;     *)
(* notify_one wakes one sleeper or is lost.  The code calls it just after  *)
(* it released the mutex; here it is part of the step that changes the     *)
(* flags, because a notification that comes later only makes a sleeper     *)
(* test its predicate once more, which SpuriousWakeup allows anyway.  The  *)
(* channels (emp::NetIO over TCP) are external: FIFO buffers of bounded    *)
(* size that block a sender when full, and that throw once the connection  *)
(* is broken.                                                              *)
(***************************************************************************)
EXTENDS Naturals, Sequences, FiniteSets

CONSTANTS
    Calls,      \* the protocol: a sequence of [kind, chunks]
    Capacity,   \* chunks a channel holds before its sender blocks
    Breakable   \* the connections that may break, as pairs of parties

Party == 0..2
PREV(p) == (p + 2) % 3
NEXT(p) == (p + 1) % 3
Worker == {"send", "recv"}

\* A scalar is one byte.
ASSUME CallsAssumption ==
    /\ Calls \in Seq([kind : {"vector", "scalar", "reveal"}, chunks : Nat \ {0}])
    /\ \A c \in 1..Len(Calls) : Calls[c].kind = "scalar" => Calls[c].chunks = 1
ASSUME CapacityAssumption == Capacity \in Nat \ {0}
ASSUME BreakableAssumption == Breakable \subseteq SUBSET Party

VARIABLES
    pc,         \* protocol thread of each party
    call,       \* index of the call it is in, or about to make
    todo,       \* sends and receives left in a call without workers
    off,        \* chunks that the running send and receive have moved
    total,      \* sendTotal_ and recvTotal_
    ready,      \* sendReady_ and recvReady_
    done,       \* sendDone_ and recvDone_
    failed,     \* workers with sendErr_ or recvErr_ set
    shutdown,   \* shutdown_
    worker,     \* position of each worker
    asleep,     \* threads that sleep on sendCv_ and recvCv_
    chan,       \* chunks under way from one party to another
    got,        \* chunks that arrived in the receive buffer of this call
    broken      \* pairs of parties whose connection is broken

flags == <<total, ready, done, failed, shutdown>>
net == <<chan, got, broken>>
vars == <<pc, call, todo, off, flags, worker, asleep, net>>

Link == {l \in Party \X Party : l[1] # l[2]}
Chunk(c, p, k) == <<c, p, k>>
Buffer(c, p) == [k \in 1..Calls[c].chunks |-> Chunk(c, p, k)]
Up(p, q) == {p, q} \notin broken

Set(f, p, w, v) == [f EXCEPT ![p][w] = v]

-----------------------------------------------------------------------------
\* Condition variables: cv w of party p is sendCv_ or recvCv_.

\* Mutant of NotifyOne: the notification is forgotten.
NotifyNobody(p, w) == UNCHANGED asleep

NotifyOne(p, w) ==
    \/ asleep[p][w] = {} /\ UNCHANGED asleep
    \/ \E t \in asleep[p][w] : asleep' = Set(asleep, p, w, asleep[p][w] \ {t})

Awake(p, w, t) == t \notin asleep[p][w]
Sleep(p, w, t) == asleep' = Set(asleep, p, w, asleep[p][w] \cup {t})

\* The standard allows a wait to wake up for no reason.
SpuriousWakeup(p, w) ==
    /\ asleep[p][w] # {}
    /\ NotifyOne(p, w)
    /\ UNCHANGED <<pc, call, todo, off, flags, worker, net>>

-----------------------------------------------------------------------------
\* _reshare_ring

Step(p, from, to) ==
    /\ pc[p] = from
    /\ pc' = [pc EXCEPT ![p] = to]

\* Where the protocol thread waits for w, and where it goes next.
WaitAt(w) == IF w = "send" THEN "wait_send" ELSE "wait_recv"
AfterWait(w) == IF w = "send" THEN "wait_recv" ELSE "check"

\* sendBuf_, sendTotal_ and sendReady_, or their counterparts, are set.
HandOver(p, w) ==
    /\ ready' = Set(ready, p, w, TRUE)
    /\ total' = Set(total, p, w, Calls[call[p]].chunks)
    /\ NotifyOne(p, w)

Calling(p, kinds) == call[p] <= Len(Calls) /\ Calls[call[p]].kind \in kinds

PostSend(p) ==
    /\ Step(p, "caller", "post_recv")
    /\ Calling(p, {"vector"})
    /\ HandOver(p, "send")
    /\ UNCHANGED <<call, todo, off, done, failed, shutdown, worker, net>>

PostRecv(p) ==
    /\ Step(p, "post_recv", "wait_send")
    /\ HandOver(p, "recv")
    /\ UNCHANGED <<call, todo, off, done, failed, shutdown, worker, net>>

WaitSleep(p, w) ==
    /\ pc[p] = WaitAt(w)
    /\ Awake(p, w, "main")
    /\ ~done[p][w]
    /\ Sleep(p, w, "main")
    /\ UNCHANGED <<pc, call, todo, off, flags, worker, net>>

\* Mutant of Reset: sendDone_ and recvDone_ stay set for the next call.
KeepDone(p, w) == UNCHANGED done

Reset(p, w) == done' = Set(done, p, w, FALSE)

WaitDone(p, w) ==
    /\ Step(p, WaitAt(w), AfterWait(w))
    /\ Awake(p, w, "main")
    /\ done[p][w]
    /\ Reset(p, w)
    /\ UNCHANGED <<call, todo, off, total, ready, failed, shutdown, worker, asleep, net>>

\* Back in the caller with a result, or with the exception of a worker.
Return(p) ==
    /\ pc[p] = "check"
    /\ IF failed[p] = {}
       THEN /\ pc' = [pc EXCEPT ![p] = "caller"]
            /\ call' = [call EXCEPT ![p] = @ + 1]
            /\ off' = [off EXCEPT ![p] = [w \in Worker |-> 0]]
            /\ got' = [got EXCEPT ![p] = <<>>]
       ELSE pc' = [pc EXCEPT ![p] = "thrown"] /\ UNCHANGED <<call, off, got>>
    /\ UNCHANGED <<todo, flags, worker, asleep, chan, broken>>

-----------------------------------------------------------------------------
\* The calls.  A "vector" call (share, recvShare, reshare, hadamard, a round of
\* ringConv) goes through _reshare_ring.  The scalar versions send to PREV and
\* then receive from NEXT on the protocol thread itself.  revealAll collects the
\* missing share at P0, which sends the plaintext to the other two.

Send(q) == <<"send", q>>
Recv(q) == <<"recv", q>>

RevealScript(p) ==
    IF p = 0 THEN <<Recv(1), Send(1), Send(2)>> ELSE IF p = 1 THEN <<Send(0), Recv(0)>> ELSE <<Recv(0)>>

Script(p, kind) == IF kind = "reveal" THEN RevealScript(p) ELSE <<Send(PREV(p)), Recv(NEXT(p))>>

CallScript(p) ==
    /\ Step(p, "caller", "script")
    /\ Calling(p, {"scalar", "reveal"})
    /\ todo' = [todo EXCEPT ![p] = Script(p, Calls[call[p]].kind)]
    /\ UNCHANGED <<call, off, flags, worker, asleep, net>>

\* One chunk from p to q, or from q to p: the next one of the buffer.
CanTransmit(p, q) == Up(p, q) /\ Len(chan[<<p, q>>]) < Capacity
CanReceive(p, q) == chan[<<q, p>>] # <<>>

Transmit(p, q) ==
    /\ CanTransmit(p, q)
    /\ chan' = [chan EXCEPT ![<<p, q>>] = Append(@, Chunk(call[p], p, off[p]["send"] + 1))]
    /\ UNCHANGED <<got, broken>>

Receive(p, q) ==
    /\ CanReceive(p, q)
    /\ got' = [got EXCEPT ![p] = Append(@, Head(chan[<<q, p>>]))]
    /\ chan' = [chan EXCEPT ![<<q, p>>] = Tail(@)]
    /\ UNCHANGED broken

Transfer(p, op) ==
    \/ op[1] = "send" /\ Transmit(p, op[2])
    \/ op[1] = "recv" /\ Receive(p, op[2])

\* One chunk; after the last one the thread goes on to the next line.
ScriptTransfer(p) ==
    LET op == Head(todo[p])
        last == off[p][op[1]] + 1 = Calls[call[p]].chunks
    IN  /\ pc[p] = "script"
        /\ Transfer(p, op)
        /\ off' = Set(off, p, op[1], IF last THEN 0 ELSE off[p][op[1]] + 1)
        /\ todo' = [todo EXCEPT ![p] = IF last THEN Tail(@) ELSE @]
        /\ pc' = [pc EXCEPT ![p] = IF last /\ Tail(todo[p]) = <<>> THEN "check" ELSE @]
        /\ UNCHANGED <<call, flags, worker, asleep>>

ScriptThrow(p) ==
    /\ pc[p] = "script"
    /\ ~Up(p, Head(todo[p])[2])
    /\ pc' = [pc EXCEPT ![p] = "thrown"]
    /\ UNCHANGED <<call, todo, off, flags, worker, asleep, net>>

-----------------------------------------------------------------------------
\* sendLoop and recvLoop

Move(p, w, from, to) ==
    /\ worker[p][w] = from
    /\ worker' = Set(worker, p, w, to)

WorkerOp(p, w) == IF w = "send" THEN Send(PREV(p)) ELSE Recv(NEXT(p))

WorkerSleep(p, w) ==
    /\ worker[p][w] = "wait"
    /\ Awake(p, w, "worker")
    /\ ~ready[p][w]
    /\ Sleep(p, w, "worker")
    /\ UNCHANGED <<pc, call, todo, off, flags, worker, net>>

WorkerStart(p, w) ==
    /\ Move(p, w, "wait", IF shutdown[p] THEN "exited" ELSE "work")
    /\ Awake(p, w, "worker")
    /\ ready[p][w]
    /\ UNCHANGED <<pc, call, todo, off, flags, asleep, net>>

WorkerTransfer(p, w) ==
    /\ worker[p][w] = "work"
    /\ off[p][w] < total[p][w]
    /\ Transfer(p, WorkerOp(p, w))
    /\ off' = Set(off, p, w, off[p][w] + 1)
    /\ UNCHANGED <<pc, call, todo, flags, worker, asleep>>

\* Mutant of ReadyAfter: sendReady_ and recvReady_ stay set.
ReadyStays(p, w) == TRUE

ReadyAfter(p, w) == FALSE

\* The work is done or has thrown; E is what the catch clause recorded.
WorkerFinish(p, w, E) ==
    /\ Move(p, w, "work", "wait")
    /\ failed' = [failed EXCEPT ![p] = @ \cup E]
    /\ ready' = Set(ready, p, w, ReadyAfter(p, w))
    /\ done' = Set(done, p, w, TRUE)
    /\ NotifyOne(p, w)
    /\ UNCHANGED <<pc, call, todo, off, total, shutdown, net>>

WorkerEnd(p, w) ==
    /\ off[p][w] = total[p][w]
    /\ WorkerFinish(p, w, {})

WorkerThrow(p, w) ==
    /\ off[p][w] < total[p][w]
    /\ ~Up(p, WorkerOp(p, w)[2])
    /\ WorkerFinish(p, w, {w})

-----------------------------------------------------------------------------
\* shutdown, called by the destructor when the protocol is over or has thrown.

ShutdownSend(p) ==
    /\ \/ pc[p] = "thrown"
       \/ pc[p] = "caller" /\ call[p] > Len(Calls)
    /\ pc' = [pc EXCEPT ![p] = "stop"]
    /\ shutdown' = [shutdown EXCEPT ![p] = TRUE]
    /\ ready' = Set(ready, p, "send", TRUE)
    /\ NotifyOne(p, "send")
    /\ UNCHANGED <<call, todo, off, total, done, failed, worker, net>>

\* Mutant of WakeRecv: only the flag of the send worker is raised.
WakeRecvNot(p) == UNCHANGED ready

WakeRecv(p) == ready' = Set(ready, p, "recv", TRUE)

ShutdownRecv(p) ==
    /\ Step(p, "stop", "join")
    /\ WakeRecv(p)
    /\ NotifyOne(p, "recv")
    /\ UNCHANGED <<call, todo, off, total, done, failed, shutdown, worker, net>>

Join(p) ==
    /\ Step(p, "join", "gone")
    /\ \A w \in Worker : worker[p][w] = "exited"
    /\ UNCHANGED <<call, todo, off, flags, worker, asleep, net>>

\* A connection breaks: sends on it throw, receives may first return chunks that
\* had arrived.
Break(l) ==
    /\ broken' = broken \cup {l}
    /\ UNCHANGED <<pc, call, todo, off, flags, worker, asleep, chan, got>>

-----------------------------------------------------------------------------
\* The constructors have exchanged keys and started the workers.
Init ==
    /\ pc = [p \in Party |-> "caller"]
    /\ call = [p \in Party |-> 1]
    /\ todo = [p \in Party |-> <<>>]
    /\ off = [p \in Party |-> [w \in Worker |-> 0]]
    /\ total = [p \in Party |-> [w \in Worker |-> 0]]
    /\ ready = [p \in Party |-> [w \in Worker |-> FALSE]]
    /\ done = [p \in Party |-> [w \in Worker |-> FALSE]]
    /\ failed = [p \in Party |-> {}]
    /\ shutdown = [p \in Party |-> FALSE]
    /\ worker = [p \in Party |-> [w \in Worker |-> "wait"]]
    /\ asleep = [p \in Party |-> [w \in Worker |-> {}]]
    /\ chan = [l \in Link |-> <<>>]
    /\ got = [p \in Party |-> <<>>]
    /\ broken = {}

MainThread(p) ==
    \/ CallScript(p) \/ ScriptTransfer(p) \/ ScriptThrow(p)
    \/ PostSend(p) \/ PostRecv(p)
    \/ \E w \in Worker : WaitSleep(p, w) \/ WaitDone(p, w)
    \/ Return(p)
    \/ ShutdownSend(p) \/ ShutdownRecv(p) \/ Join(p)

WorkerThread(p, w) ==
    \/ WorkerSleep(p, w) \/ WorkerStart(p, w)
    \/ WorkerTransfer(p, w) \/ WorkerThrow(p, w) \/ WorkerEnd(p, w)

Next ==
    \/ \E p \in Party : MainThread(p)
    \/ \E p \in Party, w \in Worker : WorkerThread(p, w) \/ SpuriousWakeup(p, w)
    \/ \E l \in Breakable \ broken : Break(l)

Spec == Init /\ [][Next]_vars

-----------------------------------------------------------------------------
\* Properties

PcValues == {"caller", "script", "post_recv", "wait_send", "wait_recv",
             "check", "thrown", "stop", "join", "gone"}

WorkerValues == {"wait", "work", "exited"}

\* Every variable has its type.
TypeOK ==
    /\ pc \in [Party -> PcValues]
    /\ call \in [Party -> Nat \ {0}]
    /\ off \in [Party -> [Worker -> Nat]]
    /\ total \in [Party -> [Worker -> Nat]]
    /\ ready \in [Party -> [Worker -> BOOLEAN]]
    /\ done \in [Party -> [Worker -> BOOLEAN]]
    /\ failed \in [Party -> SUBSET Worker]
    /\ shutdown \in [Party -> BOOLEAN]
    /\ worker \in [Party -> [Worker -> WorkerValues]]
    /\ asleep \in [Party -> [Worker -> SUBSET {"main", "worker"}]]

\* The part of _reshare_ring between the hand-over to w and the end of the wait.
HandedOver(w) ==
    IF w = "send" THEN {"post_recv", "wait_send"} ELSE {"wait_send", "wait_recv"}

\* A worker reads or writes the caller's buffer only while the caller is inside
\* the call that lent it, and moves as many chunks as that call asked for.  The
\* workers use sendBuf_ and recvBuf_ outside the mutexes.
BufferIsLent ==
    \A p \in Party, w \in Worker :
        worker[p][w] = "work" =>
            /\ pc[p] \in HandedOver(w)
            /\ total[p][w] = Calls[call[p]].chunks

\* What party p must have received when a call returns.
Expected(p, c) ==
    IF Calls[c].kind = "reveal"
    THEN Buffer(c, IF p = 0 THEN 1 ELSE 0)
    ELSE Buffer(c, NEXT(p))

\* A call that returns without an exception has filled the buffer with exactly
\* what its peer sent in the same call, although the peers run ahead or behind
\* and workers and protocol threads share the channels.
RightDataArrives ==
    \A p \in Party :
        pc[p] = "check" /\ failed[p] = {} => got[p] = Expected(p, call[p])

\* A send or a receive that goes on, or throws.
CanTransfer(p, op) ==
    \/ op[1] = "send" /\ CanTransmit(p, op[2])
    \/ op[1] = "recv" /\ CanReceive(p, op[2])
    \/ ~Up(p, op[2])

\* The protocol thread of p, or its worker w, has a step to take: the guards of
\* MainThread and of WorkerThread.
MainGoesOn(p) ==
    \/ pc[p] \in {"caller", "post_recv", "check", "thrown", "stop"}
    \/ pc[p] = "script" /\ CanTransfer(p, Head(todo[p]))
    \/ \E w \in Worker : pc[p] = WaitAt(w) /\ Awake(p, w, "main")
    \/ pc[p] = "join" /\ \A w \in Worker : worker[p][w] = "exited"

WorkerGoesOn(p, w) ==
    \/ worker[p][w] = "wait" /\ Awake(p, w, "worker")
    \/ worker[p][w] = "work" /\ (off[p][w] = total[p][w] \/ CanTransfer(p, WorkerOp(p, w)))

GoesOn(p) == MainGoesOn(p) \/ \E w \in Worker : WorkerGoesOn(p, w)

\* Party p waits for a peer to send, or to make room.
AtChannel(p) == pc[p] = "script" \/ \E w \in Worker : worker[p][w] = "work"

\* No notification is lost and no send blocks for ever: while the connections hold
\* some thread can always take a step until all parties have shut down; after one
\* broke, only a party that waits for data of a peer can be stuck, never one that
\* waits for its own workers.
NobodyIsStuck ==
    (\E p \in Party : GoesOn(p)) \/ \A p \in Party : pc[p] = "gone" \/ (broken # {} /\ AtChannel(p))

=============================================================================
