------------------------- MODULE ManageServerProofs -------------------------
(***************************************************************************)
(* Proofs about ManageServer, for any number of users, Agents, HTTP        *)
(* requests, operations, SYNCs and crashes.                                *)
(***************************************************************************)
EXTENDS ManageServer, NumberLemmas, SequenceTheorems

Client == User \cup Querier
Row == [status : Live \cup Final \cup {"NONE"}, user : Client \cup {"none"},
        prot : {"JOIN", "UPDATE", "QUIT", "QUERY", "none"}, pos : Nat]

-----------------------------------------------------------------------------
\* The inductive invariant

\* Where a handler keeps self._lock between two steps, and where it has an operation.
Held == {"evict", "reorder", "quit", "ports"}
WithOp == {"enqueue", "locked"} \cup Held

\* What a handler knows of its request.
ReqOK ==
    req \in [Conn -> {NoReq}
                     \cup [at : {"reserve"}, user : Client, prot : {"JOIN", "UPDATE", "QUIT", "QUERY"}]
                     \cup [at : WithOp, op : OpId]]

\* A handler that keeps self._lock has it alone.  Before the promotion its operation is
\* queued and nothing is active; then the operation is ACTIVE.
HeldOK ==
    \A c \in Conn : req[c].at \in Held =>
        /\ proc = "up" /\ ~cracked /\ lock = c
        /\ req[c].at \in {"evict", "reorder"} =>
               Status(req[c].op) = "QUEUED" /\ get_active = {} /\ thread[SyncReq] = "none"
        /\ req[c].at \in {"quit", "ports"} => Status(req[c].op) = "ACTIVE"

\* There is one thread.  Until it cracks the task it belongs to the BUSY operation, or
\* to a SYNC that runs while no operation is active.
ThreadOK ==
    /\ \A x, y \in Request : thread[x] # "none" /\ thread[y] # "none" => x = y
    /\ \A x \in Request :
          /\ thread[x] # "none" => proc = "up"
          /\ thread[x] \in {"run", "collect", "crack_flag"} => ~cracked
          /\ thread[x] \in {"crack_op", "crack_status", "crack_live"} => cracked
    /\ \A o \in OpId :
          thread[o] \in {"run", "collect", "crack_flag", "crack_op"} => Status(o) = "BUSY"
    /\ thread[SyncReq] \in {"run", "collect", "crack_flag"} => get_active = {}
    /\ thread[SyncReq] # "crack_op"

OneActive == \A o, p \in get_active : o = p

\* The flag and the file.
CrackOK ==
    /\ cracked => proc = "up"
    /\ task_status = "cracked" => proc = "down" \/ cracked

\* An operation that an Agent may have received is not started again.
PendingOK ==
    /\ \A o \in OpId \cap pending : Status(o) \in {"BUSY"} \cup Final /\ thread[o] # "run"
    /\ \A o \in OpId : thread[o] = "crack_status" => Status(o) \in {"BUSY", "FAILED"}

\* Where a request without confirmation is recorded.
Recorded(x) ==
    \/ task_status = "cracked" \/ proc = "uncertain"
    \/ thread[x] = "crack_status"
    \/ x # SyncReq /\ Status(x) = "BUSY"
    \/ x = SyncReq /\ thread[x] \in {"collect", "crack_flag"}

RecordOK ==
    ~forgotten =>
        /\ \A x \in pending : Recorded(x)
        /\ \A x \in Request : thread[x] = "crack_live" => task_status = "cracked"

\* Requests name rows that exist; live rows are of clients, and no two of them of the
\* same user and protocol.
RowsOK ==
    /\ \A c \in Conn : req[c].at \in WithOp => Status(req[c].op) # "NONE"
    /\ \A o \in WithStatus(Live) : ops[o].user \in Client
    /\ \A o, p \in WithStatus(Live) : ops[o].user = ops[p].user /\ ops[o].prot = ops[p].prot => o = p

\* What was checked before an operation was queued is still true when it runs.
Permitted(o) ==
    /\ ops[o].prot = "JOIN" => user_status[ops[o].user] # "JOINED"
    /\ ops[o].prot = "QUIT" => user_status[ops[o].user] = "JOINED"

PermittedOK ==
    /\ \A o \in WithStatus({"QUEUED", "ACTIVE", "BUSY"}) : Permitted(o)
    /\ \A c \in Conn : req[c].at = "enqueue" /\ Status(req[c].op) = "RESERVED" => Permitted(req[c].op)

\* What an Agent runs was sent and is not confirmed; it answers after it ran.
JobOK ==
    /\ \A x \in Request : thread[x] = "collect" => x \in pending
    /\ \A r \in Role :
        /\ job[r].at = "running" => job[r].req \in pending /\ answer[r] # "DONE"
        /\ job[r].at = "running" /\ job[r].req \in OpId /\ thread[job[r].req] = "collect" =>
               job[r].live /\ answer[r] = "none"
        /\ job[r].live => job[r].at = "running" /\ thread[job[r].req] = "collect"

\* The leaves an Agent has of a user while operation x is collected and everything else is
\* confirmed.
Unconfirmed == pending \ {SyncReq}
Base(u) == IF user_status[u] = "JOINED" THEN 1 ELSE 0
LeavesDuring(x, r, u) ==
    IF ops[x].user = u /\ answer[r] = "DONE" /\ ops[x].prot \in {"JOIN", "QUIT"}
    THEN (IF ops[x].prot = "JOIN" THEN 1 ELSE 0) ELSE Base(u)

LeavesOK ==
    /\ Unconfirmed = {} =>
          \A u \in User : /\ tokens[u] = IF user_status[u] = "JOINED" THEN Role ELSE {}
                          /\ \A r \in Role : leaves[r][u] = Base(u)
    /\ \A x \in OpId : thread[x] = "collect" /\ Unconfirmed = {x} =>
          \A u \in User : /\ tokens[u] = IF user_status[u] = "JOINED" THEN Role ELSE {}
                          /\ \A r \in Role : leaves[r][u] = LeavesDuring(x, r, u)

\* An operation enters the queue once.
ArrivalOK ==
    /\ \A i \in 1..Len(arrival) : Status(arrival[i]) \notin {"NONE", "RESERVED"}
    /\ \A o \in Queued : \E i \in 1..Len(arrival) : arrival[i] = o

IInv ==
    /\ TypeOK /\ ReqOK
    /\ HeldOK /\ ThreadOK /\ OneActive /\ CrackOK
    /\ PendingOK /\ RecordOK
    /\ ArrivalOK /\ QueueIsFifo
    /\ RowsOK /\ PermittedOK /\ JobOK /\ LeavesOK

-----------------------------------------------------------------------------
\* The operations table

LEMMA OpIdFinite == \A S \in SUBSET OpId : IsFiniteSet(S) /\ Cardinality(S) \in Nat
<1>1. IsFiniteSet(OpId)
  BY BoundsAssumption, FS_Interval DEF OpId
<1> QED BY <1>1, FS_Subset, FS_CardinalityType

LEMMA SetFinalRows ==
    ASSUME NEW f \in [OpId -> Row], NEW S, NEW st \in Final
    PROVE  /\ SetFinal(f, S, st) \in [OpId -> Row]
           /\ \A o \in OpId :
                 /\ SetFinal(f, S, st)[o].status = IF o \in S THEN st ELSE f[o].status
                 /\ SetFinal(f, S, st)[o].user = f[o].user
                 /\ SetFinal(f, S, st)[o].prot = f[o].prot
                 /\ o \notin S => SetFinal(f, S, st)[o].pos = f[o].pos
  BY DEF SetFinal, Row, Final

LEMMA KeepPosRows ==
    ASSUME NEW f \in [OpId -> Row], NEW o \in OpId, NEW st \in Live
    PROVE  /\ KeepPos(f, o, st) \in [OpId -> Row]
           /\ \A p \in OpId :
                 /\ KeepPos(f, o, st)[p].status = IF p = o THEN st ELSE f[p].status
                 /\ KeepPos(f, o, st)[p].user = f[p].user
                 /\ KeepPos(f, o, st)[p].prot = f[p].prot
                 /\ KeepPos(f, o, st)[p].pos = f[p].pos
  BY DEF KeepPos, Row, Live

LEMMA NextPosRows ==
    ASSUME NEW f \in [OpId -> Row]
    PROVE  /\ NextPos(f) \in Nat
           /\ \A o \in OpId : f[o].status = "QUEUED" => f[o].pos < NextPos(f)
<1> DEFINE W == {p \in OpId : f[p].status \in {"QUEUED", "ACTIVE", "BUSY"}}
           used == {f[o].pos : o \in W}
<1>1. used \subseteq Nat
  BY DEF Row
<1>2. \E m \in used \cup {0} : \A k \in used : k <= m
  <2>1. CASE W = {}
    BY <2>1
  <2>2. CASE W # {}
    <3> DEFINE g == [o \in W |-> f[o].pos]
    <3>1. IsFiniteSet(W) /\ g \in [W -> Nat]
      BY OpIdFinite DEF Row
    <3>2. PICK x \in W : \A y \in W : g[y] <= g[x]
      <4> HIDE DEF W, g
      <4> QED BY <2>2, <3>1, FiniteMax
    <3> QED BY <3>2
  <2> QED BY <2>1, <2>2
<1> DEFINE m == CHOOSE m \in used \cup {0} : \A k \in used : k <= m
<1>3. m \in used \cup {0} /\ \A k \in used : k <= m
  <2> HIDE DEF used
  <2> QED BY <1>2
<1>4. NextPos(f) = 1 + m
  BY DEF NextPos
<1>5. m \in Nat
  BY <1>1, <1>3
<1>6. \A o \in OpId : f[o].status = "QUEUED" => f[o].pos \in used
  OBVIOUS
<1> HIDE DEF m, used
<1>7. \A k \in used : k < 1 + m
  BY <1>1, <1>3, <1>5
<1> QED BY <1>4, <1>5, <1>6, <1>7

LEMMA EnqueueRows ==
    ASSUME NEW f \in [OpId -> Row], NEW o \in OpId
    PROVE  /\ enqueue_reserved(f, o) \in [OpId -> Row]
           /\ \A p \in OpId :
                 /\ enqueue_reserved(f, o)[p].status = IF p = o THEN "QUEUED" ELSE f[p].status
                 /\ enqueue_reserved(f, o)[p].user = f[p].user
                 /\ enqueue_reserved(f, o)[p].prot = f[p].prot
                 /\ enqueue_reserved(f, o)[p].pos = IF p = o THEN NextPos(f) ELSE f[p].pos
<1>1. NextPos(f) \in Nat
  BY NextPosRows
<1> QED BY <1>1 DEF enqueue_reserved, Row, Live

\* reorder_queue numbers the queue again and keeps its order.
LEMMA ReorderRows ==
    ASSUME NEW f \in [OpId -> Row]
    PROVE  /\ reorder_queue(f) \in [OpId -> Row]
           /\ \A o \in OpId :
                 /\ reorder_queue(f)[o].status = f[o].status
                 /\ reorder_queue(f)[o].user = f[o].user
                 /\ reorder_queue(f)[o].prot = f[o].prot
           /\ \A o, p \in OpId :
                 f[o].status = "QUEUED" /\ f[p].status = "QUEUED" /\ f[o].pos < f[p].pos =>
                     reorder_queue(f)[o].pos < reorder_queue(f)[p].pos
<1> DEFINE Upto(o) == {p \in OpId : f[p].status = "QUEUED" /\ f[p].pos <= f[o].pos}
<1>1. \A o \in OpId : IsFiniteSet(Upto(o)) /\ Cardinality(Upto(o)) \in Nat
  BY OpIdFinite
<1>2. \A o \in OpId : reorder_queue(f)[o] =
          IF f[o].status # "QUEUED" THEN f[o] ELSE [f[o] EXCEPT !.pos = Cardinality(Upto(o))]
  BY DEF reorder_queue
<1>3. reorder_queue(f) = [o \in OpId |->
          IF f[o].status # "QUEUED" THEN f[o] ELSE [f[o] EXCEPT !.pos = Cardinality(Upto(o))]]
  BY DEF reorder_queue
<1>4. ASSUME NEW o \in OpId, NEW p \in OpId,
             f[o].status = "QUEUED", f[p].status = "QUEUED", f[o].pos < f[p].pos
      PROVE  Cardinality(Upto(o)) < Cardinality(Upto(p))
  <2>1. \A q \in OpId : f[q].pos \in Nat
    BY DEF Row
  <2>2. Upto(o) \subseteq Upto(p) /\ p \in Upto(p) /\ p \notin Upto(o)
    BY <1>4, <2>1
  <2> HIDE DEF Upto
  <2>3. Cardinality(Upto(o)) <= Cardinality(Upto(p)) /\ Cardinality(Upto(o)) # Cardinality(Upto(p))
    BY <1>1, <2>2, FS_Subset
  <2> QED BY <1>1, <2>3
<1> HIDE DEF Upto
<1>5. reorder_queue(f) \in [OpId -> Row]
  BY <1>1, <1>3 DEF Row
<1>6. \A o \in OpId : /\ reorder_queue(f)[o].status = f[o].status
                      /\ reorder_queue(f)[o].user = f[o].user
                      /\ reorder_queue(f)[o].prot = f[o].prot
                      /\ f[o].status = "QUEUED" => reorder_queue(f)[o].pos = Cardinality(Upto(o))
  BY <1>2 DEF Row
<1> QED BY <1>4, <1>5, <1>6

\* What an operation of the table does to those that stay in the queue.
OrderKept(f, g) ==
    \A o, p \in OpId : g[o].status = "QUEUED" /\ g[p].status = "QUEUED" /\ f[o].pos < f[p].pos =>
        g[o].pos < g[p].pos

LEMMA PromoteRows ==
    ASSUME NEW f \in [OpId -> Row], NEW o \in OpId, f[o].status = "QUEUED"
    PROVE  LET g == promote_first_queued(f, o)
           IN  /\ g \in [OpId -> Row]
               /\ \A p \in OpId : /\ g[p].status = IF p = o THEN "ACTIVE" ELSE f[p].status
                                  /\ g[p].user = f[p].user /\ g[p].prot = f[p].prot
               /\ OrderKept(f, g)
<1> DEFINE h == KeepPos(f, o, "ACTIVE")
<1>1. promote_first_queued(f, o) = reorder_queue(h)
  BY DEF promote_first_queued
<1>2. /\ h \in [OpId -> Row]
      /\ \A p \in OpId : /\ h[p].status = IF p = o THEN "ACTIVE" ELSE f[p].status
                         /\ h[p].user = f[p].user /\ h[p].prot = f[p].prot /\ h[p].pos = f[p].pos
  BY KeepPosRows DEF Live
<1> HIDE DEF h
<1> QED BY <1>1, <1>2, ReorderRows DEF OrderKept

\* The rows in S went from one status to another.
Moved(S, from, to) ==
    /\ ops' \in [OpId -> Row]
    /\ \A o \in S \cap OpId : Status(o) \in from
    /\ \A o \in OpId : /\ ops'[o].status = IF o \in S THEN to ELSE ops[o].status
                       /\ ops'[o].user = ops[o].user /\ ops'[o].prot = ops[o].prot

LEMMA OpsType == TypeOK => ops \in [OpId -> Row]
  BY DEF TypeOK, Row, Client

LEMMA ReqType ==
    ASSUME ReqOK, NEW c \in Conn
    PROVE  /\ req[c].at \in WithOp => req[c].op \in OpId
           /\ req[c].at = "reserve" => /\ req[c].user \in Client
                                       /\ req[c].prot \in {"JOIN", "UPDATE", "QUIT", "QUERY"}
<1>1. req[c] \in {NoReq}
                 \cup [at : {"reserve"}, user : Client, prot : {"JOIN", "UPDATE", "QUIT", "QUERY"}]
                 \cup [at : WithOp, op : OpId]
  BY DEF ReqOK
<1> QED BY <1>1 DEF NoReq, WithOp, Held

LEMMA CreateEffect ==
    ASSUME TypeOK, ReqOK, NEW c \in Conn, ReserveCreate(c)
    PROVE  \/ UNCHANGED ops
           \/ \E o \in OpId :
                 /\ Status(o) = "NONE" /\ LiveOf(req[c].user, req[c].prot) = {}
                 /\ ops' \in [OpId -> Row]
                 /\ ops' = [ops EXCEPT ![o] = [status |-> "RESERVED", user |-> req[c].user,
                                               prot |-> req[c].prot, pos |-> 0]]
<1> DEFINE fresh == WithStatus({"NONE"})
           o == CHOOSE o \in fresh : \A n \in fresh : o <= n
<1> SUFFICES ASSUME ops' # ops
             PROVE  \E p \in OpId :
                       /\ Status(p) = "NONE" /\ LiveOf(req[c].user, req[c].prot) = {}
                       /\ ops' \in [OpId -> Row]
                       /\ ops' = [ops EXCEPT ![p] = [status |-> "RESERVED", user |-> req[c].user,
                                                     prot |-> req[c].prot, pos |-> 0]]
  OBVIOUS
<1>1. /\ req[c].at = "reserve" /\ LiveOf(req[c].user, req[c].prot) = {} /\ fresh # {}
      /\ ops' = [ops EXCEPT ![o] = [status |-> "RESERVED", user |-> req[c].user,
                                    prot |-> req[c].prot, pos |-> 0]]
  BY DEF ReserveCreate
<1>2. \E p \in fresh : \A n \in fresh : p <= n
  <2>1. fresh \in SUBSET OpId /\ OpId \subseteq Nat
    BY DEF WithStatus, OpId
  <2> DEFINE top == MaxOp
             g == [p \in fresh |-> top - p]
  <2>2. IsFiniteSet(fresh) /\ g \in [fresh -> Nat]
    BY <2>1, OpIdFinite, BoundsAssumption DEF OpId
  <2>3. PICK p \in fresh : \A n \in fresh : g[n] <= g[p]
    <3> HIDE DEF g, fresh
    <3> QED BY <1>1, <2>2, FiniteMax
  <2>4. \A n \in fresh : p <= n
    <3>1. \A n \in fresh : g[n] = MaxOp - n /\ n \in Nat
      BY <2>1
    <3> HIDE DEF g, fresh
    <3> QED BY <2>3, <3>1, BoundsAssumption
  <2> QED BY <2>4
<1>3. o \in fresh
  <2> HIDE DEF fresh
  <2> QED BY <1>2
<1>4. o \in OpId /\ Status(o) = "NONE"
  BY <1>3 DEF WithStatus, Status
<1> HIDE DEF o
<1>5. ops' \in [OpId -> Row]
  BY <1>1, <1>4, OpsType, ReqType DEF Row, Live
<1> QED BY <1>1, <1>4, <1>5

LEMMA EnqueueEffect ==
    ASSUME TypeOK, ReqOK, NEW c \in Conn, ExecuteEnqueue(c)
    PROVE  \/ UNCHANGED <<ops, arrival>>
           \/ /\ Moved({req[c].op}, {"RESERVED"}, "QUEUED")
              /\ arrival' = Append(arrival, req[c].op)
              /\ \A o \in OpId : o # req[c].op => ops'[o].pos = ops[o].pos
              /\ \A o \in OpId : Status(o) = "QUEUED" => ops[o].pos < ops'[req[c].op].pos
<1>1. req[c].op \in OpId
  BY ReqType DEF ExecuteEnqueue, WithOp
<1>2. ops \in [OpId -> Row]
  BY OpsType
<1>3. \/ UNCHANGED <<ops, arrival>>
      \/ /\ ops' = enqueue_reserved(ops, req[c].op) /\ Status(req[c].op) = "RESERVED"
         /\ arrival' = Append(arrival, req[c].op)
  BY DEF ExecuteEnqueue, StillReserved
<1> QED BY <1>1, <1>2, <1>3, EnqueueRows, NextPosRows DEF Moved, Status

\* Rows that become final.
LEMMA FinalEffect ==
    ASSUME TypeOK, NEW S, NEW from, NEW st \in Final,
           \A o \in S \cap OpId : Status(o) \in from, ops' = SetFinal(ops, S, st)
    PROVE  Moved(S, from, st) /\ \A o \in OpId \ S : ops'[o].pos = ops[o].pos
  BY OpsType, SetFinalRows DEF Moved

\* self._lock is free, or this handler has it.
LEMMA OthersOut ==
    ASSUME HeldOK, NEW c \in Conn, LockFree \/ req[c].at \in Held
    PROVE  /\ \A d \in Conn \ {c} : req[d].at \notin Held
           /\ LockFree => req[c].at \notin Held
  BY ConnAssumption DEF HeldOK, LockFree

LEMMA AtQueueMeans ==
    ASSUME TypeOK, ReqOK, HeldOK, NEW c \in Conn, AtQueue(c)
    PROVE  /\ req[c].at \in {"locked", "evict"} /\ (LockFree \/ req[c].at \in Held)
           /\ req[c].op \in OpId /\ Status(req[c].op) = "QUEUED"
           /\ proc = "up" /\ ~cracked /\ get_active = {} /\ thread[SyncReq] = "none"
<1>1. CASE TryActivate(c) /\ MayActivate
  BY <1>1, ReqType DEF TryActivate, InCriticalSection, Serving, MayActivate, WithOp
<1>2. CASE Holding(c, "evict")
  BY <1>2, ReqType DEF Holding, Serving, HeldOK, Held, WithOp
<1> QED BY <1>1, <1>2 DEF AtQueue

LEMMA EvictEffect ==
    ASSUME TypeOK, NEW c \in Conn, EvictHead(c)
    PROVE  \E o \in OpId : /\ o # req[c].op /\ Moved({o}, {"QUEUED"}, "REMOVED")
                           /\ \A p \in OpId \ {o} : ops'[p].pos = ops[p].pos
<1>1. PICK o \in StaleHead(expired \ {req[c].op}) : ops' = SetFinal(ops, {o}, "REMOVED")
  BY DEF EvictHead
<1>2. o \in OpId /\ o # req[c].op /\ Status(o) = "QUEUED"
  BY DEF StaleHead, IsFirst, TypeOK, Status
<1>3. \A p \in {o} \cap OpId : Status(p) \in {"QUEUED"}
  BY <1>2
<1> QED BY <1>1, <1>2, <1>3, FinalEffect DEF Final

LEMMA PromoteEffect ==
    ASSUME TypeOK, ReqOK, HeldOK, NEW c \in Conn, Promote(c)
    PROVE  Moved({req[c].op}, {"QUEUED"}, "ACTIVE") /\ OrderKept(ops, ops')
<1>1. req[c].op \in OpId /\ Status(req[c].op) = "QUEUED"
  BY AtQueueMeans DEF Promote
<1>2. ops' = promote_first_queued(ops, req[c].op)
  BY DEF Promote
<1> QED BY <1>1, <1>2, OpsType, PromoteRows DEF Moved, Status

LEMMA BusyEffect ==
    ASSUME TypeOK, ReqOK, HeldOK, NEW c \in Conn, QuitBusy(c) \/ PortsReserved(c)
    PROVE  /\ req[c].op \in OpId /\ Moved({req[c].op}, {"ACTIVE"}, "BUSY")
           /\ \A o \in OpId : ops'[o].pos = ops[o].pos
<1>1. req[c].op \in OpId /\ Status(req[c].op) = "ACTIVE"
  BY ReqType DEF QuitBusy, PortsReserved, Holding, HeldOK, Held, WithOp
<1>2. ops' = KeepPos(ops, req[c].op, "BUSY")
  BY DEF QuitBusy, PortsReserved, Busy
<1> QED BY <1>1, <1>2, OpsType, KeepPosRows DEF Moved, Live, Status

LEMMA FailedEffect ==
    ASSUME TypeOK, ReqOK, HeldOK, NEW c \in Conn, PortsFailed(c)
    PROVE  /\ req[c].op \in OpId /\ Moved({req[c].op}, {"ACTIVE"}, "FAILED")
           /\ \A o \in OpId \ {req[c].op} : ops'[o].pos = ops[o].pos
<1>1. req[c].op \in OpId /\ Status(req[c].op) = "ACTIVE"
  BY ReqType DEF PortsFailed, Holding, HeldOK, Held, WithOp
<1>2. ops' = SetFinal(ops, {req[c].op}, "FAILED")
  BY DEF PortsFailed
<1>3. \A o \in {req[c].op} \cap OpId : Status(o) \in {"ACTIVE"}
  BY <1>1
<1> QED BY <1>1, <1>2, <1>3, FinalEffect DEF Final

\* The steps of a handler that commit no row, and all that do after enqueue_reserved.
Silent(c) ==
    ExecuteAnswer(c) \/ ExecuteWait(c) \/ KeepWaiting(c) \/ ExecuteRetryActive(c) \/ HandlerRaised(c)

Locked(c) ==
    \/ Silent(c)
    \/ EvictHead(c) \/ EvictReorder(c) \/ Promote(c)
    \/ QuitBusy(c) \/ PortsReserved(c) \/ PortsFailed(c)

LEMMA HandlerSplit ==
    ASSUME NEW c \in Conn, Handler(c)
    PROVE  ReserveCreate(c) \/ ExecuteEnqueue(c) \/ Locked(c)
  BY DEF Handler, Locked, Silent

LEMMA SilentOps == \A c \in Conn : Silent(c) => ops' = ops
  BY DEF Silent, ExecuteAnswer, ExecuteWait, KeepWaiting, ExecuteRetryActive, HandlerRaised, database

\* Under the lock a row goes from QUEUED to ACTIVE or REMOVED and from ACTIVE to BUSY or
\* FAILED, and those that stay in the queue keep their order.
LEMMA LockedRows ==
    ASSUME TypeOK, ReqOK, HeldOK, NEW c \in Conn, Locked(c)
    PROVE  /\ ops' \in [OpId -> Row] /\ OrderKept(ops, ops')
           /\ \A o \in OpId :
                 /\ ops'[o].user = ops[o].user /\ ops'[o].prot = ops[o].prot
                 /\ \/ ops'[o].status = Status(o)
                    \/ Status(o) = "QUEUED" /\ ops'[o].status \in {"ACTIVE", "REMOVED"}
                    \/ Status(o) = "ACTIVE" /\ ops'[o].status \in {"BUSY", "FAILED"}
<1>0. ops \in [OpId -> Row]
  BY OpsType
<1>1. CASE Silent(c)
  BY <1>0, <1>1, SilentOps DEF OrderKept, Status
<1>2. CASE EvictHead(c)
  BY <1>2, EvictEffect DEF Moved, OrderKept, Status
<1>3. CASE EvictReorder(c)
  BY <1>0, <1>3, ReorderRows DEF EvictReorder, OrderKept, Status
<1>4. CASE Promote(c)
  BY <1>4, PromoteEffect DEF Moved, Status
<1>5. CASE QuitBusy(c) \/ PortsReserved(c)
  BY <1>5, BusyEffect DEF Moved, OrderKept, Status
<1>6. CASE PortsFailed(c)
  BY <1>6, FailedEffect DEF Moved, OrderKept, Status
<1> QED BY <1>1, <1>2, <1>3, <1>4, <1>5, <1>6 DEF Locked

\* Only a commit of BUSY starts a thread.
LEMMA LockedThread ==
    ASSUME TypeOK, ReqOK, HeldOK, NEW c \in Conn, Locked(c)
    PROVE  /\ ~QuitBusy(c) /\ ~PortsReserved(c) => thread' = thread
           /\ QuitBusy(c) \/ PortsReserved(c) => thread' = [thread EXCEPT ![req[c].op] = "run"]
           /\ UNCHANGED <<user_status, tokens, task_status, proc, cracked, sync_queue, agents, dead,
                          arrival, pending, forgotten>>
           /\ expired' \subseteq expired
<1> DEFINE Rests == /\ UNCHANGED <<user_status, tokens, task_status, proc, cracked, sync_queue, agents,
                                   dead, arrival, pending, forgotten>>
                    /\ expired' \subseteq expired
<1> SUFFICES Rests /\ (thread' = thread \/ QuitBusy(c) \/ PortsReserved(c))
  BY DEF QuitBusy, PortsReserved, Busy
<1>1. CASE Silent(c)
  BY <1>1 DEF Silent, ExecuteAnswer, ExecuteWait, KeepWaiting, ExecuteRetryActive, HandlerRaised,
              Touch, database, flags, clients, agents, hist
<1>2. CASE EvictHead(c) \/ EvictReorder(c) \/ Promote(c)
  BY <1>2 DEF EvictHead, EvictReorder, Promote, Touch, database, flags, clients, agents, hist
<1>3. CASE QuitBusy(c) \/ PortsReserved(c) \/ PortsFailed(c)
  BY <1>3 DEF QuitBusy, PortsReserved, PortsFailed, Busy, flags, clients, agents, hist
<1> QED BY <1>1, <1>2, <1>3 DEF Locked

\* What a handler does to its request and to the lock: it answers, or goes on with the
\* same operation and keeps the lock.
LEMMA LockedReq ==
    ASSUME TypeOK, ReqOK, HeldOK, NEW c \in Conn, Locked(c)
    PROVE  /\ req[c].at \in {"locked"} \cup Held /\ req[c].op \in OpId
           /\ LockFree \/ req[c].at \in Held
           /\ \/ req' = [req EXCEPT ![c] = NoReq] /\ lock' \in {lock, NoConn}
              \/ \E at \in Held : req' = [req EXCEPT ![c].at = at] /\ lock' = c
<1> SUFFICES /\ req[c].at \in {"locked"} \cup Held
             /\ LockFree \/ req[c].at \in Held
             /\ \/ req' = [req EXCEPT ![c] = NoReq] /\ lock' \in {lock, NoConn}
                \/ \E at \in Held : req' = [req EXCEPT ![c].at = at] /\ lock' = c
  BY ReqType DEF WithOp
<1>1. CASE ExecuteAnswer(c) \/ ExecuteWait(c)
  BY <1>1 DEF ExecuteAnswer, ExecuteWait, TryActivate, InCriticalSection, EndRequest
<1>2. CASE EvictHead(c) \/ KeepWaiting(c) \/ Promote(c)
  <2>1. req[c].at \in {"locked", "evict"} /\ (LockFree \/ req[c].at \in Held)
    BY <1>2, AtQueueMeans DEF EvictHead, KeepWaiting, Promote
  <2>2. LeaveLock(c) \/ \E at \in Held : Hold(c, at)
    BY <1>2 DEF EvictHead, KeepWaiting, Promote, StartsWith, Held
  <2> QED BY <2>1, <2>2 DEF LeaveLock, EndRequest, Hold, Held
<1>3. CASE ExecuteRetryActive(c)
  <2>1. req[c].at = "locked" /\ LockFree /\ \E at \in Held : Hold(c, at)
    BY <1>3 DEF ExecuteRetryActive, InCriticalSection, StartsWith, Held
  <2> QED BY <2>1 DEF Hold
<1>4. CASE EvictReorder(c)
  BY <1>4 DEF EvictReorder, Holding, Hold, Held
<1>5. CASE QuitBusy(c) \/ PortsReserved(c) \/ PortsFailed(c) \/ HandlerRaised(c)
  BY <1>5 DEF QuitBusy, PortsReserved, PortsFailed, HandlerRaised, Busy, Holding, LeaveLock, EndRequest, Held
<1> QED BY <1>1, <1>2, <1>3, <1>4, <1>5 DEF Locked, Silent

-----------------------------------------------------------------------------
\* Types

LEMMA ThreadType ==
    ASSUME TypeOK, NEW x \in Request, NEW label \in Labels, GoTo(x, label)
    PROVE  thread' \in [Request -> Labels]
  BY DEF TypeOK, GoTo

LEMMA StopType ==
    ASSUME TypeOK, StopCollecting
    PROVE  /\ job' \in [Role -> [at : {"idle", "running", "sent"}, req : Request, live : BOOLEAN]]
           /\ answer' \in [Role -> {"none", "DONE", "ERROR"}]
  BY DEF TypeOK, StopCollecting

LEMMA DeliverType ==
    ASSUME TypeOK, NEW x \in Request, NEW S \in SUBSET Role, Deliver(x, S)
    PROVE  /\ job' \in [Role -> [at : {"idle", "running", "sent"}, req : Request, live : BOOLEAN]]
           /\ answer' \in [Role -> {"none", "DONE", "ERROR"}]
           /\ pending' \subseteq Request
  BY DEF TypeOK, Deliver

LEMMA HandlerType ==
    ASSUME TypeOK, ReqOK, HeldOK, NEW c \in Conn, Handler(c)
    PROVE  TypeOK' /\ ReqOK'
<1>0. ops \in [OpId -> Row] /\ OpId \subseteq Request /\ "run" \in Labels
  BY OpsType DEF Request, Labels
<1>1. CASE ReserveCreate(c)
  <2>1. ops' \in [OpId -> Row]
    BY <1>0, <1>1, CreateEffect
  <2> QED BY <1>1, <2>1 DEF ReserveCreate, TypeOK, ReqOK, Row, Client, flags, clients, agents, hist
<1>2. CASE ExecuteEnqueue(c)
  <2>1. ops' \in [OpId -> Row] /\ arrival' \in Seq(OpId)
    <3>1. req[c].op \in OpId /\ arrival \in Seq(OpId)
      BY <1>2, ReqType DEF ExecuteEnqueue, TypeOK, WithOp
    <3>2. Append(arrival, req[c].op) \in Seq(OpId)
      BY <3>1, AppendProperties
    <3>3. arrival' \in Seq(OpId)
      BY <1>2, <3>1, <3>2, EnqueueEffect
    <3>4. ops' \in [OpId -> Row]
      BY <1>0, <1>2, EnqueueEffect DEF Moved
    <3> QED BY <3>3, <3>4
  <2>2. req' = [req EXCEPT ![c].at = "locked"] /\ req[c].at = "enqueue"
    BY <1>2 DEF ExecuteEnqueue
  <2>3. ReqOK'
    BY <2>2 DEF ReqOK, NoReq, WithOp
  <2> QED BY <1>2, <2>1, <2>3 DEF ExecuteEnqueue, TypeOK, Row, Client, flags, clients, agents
<1>3. CASE Locked(c)
  <2>1. ops' \in [OpId -> Row]
    BY <1>3, LockedRows
  <2>2. /\ thread' \in [Request -> Labels] /\ expired' \subseteq OpId
        /\ UNCHANGED <<user_status, tokens, task_status, proc, cracked, sync_queue, agents, dead,
                       arrival, pending, forgotten>>
    <3>1. req[c].op \in Request /\ expired' \subseteq expired
      BY <1>0, <1>3, LockedReq, LockedThread
    <3>2. thread' = thread \/ thread' = [thread EXCEPT ![req[c].op] = "run"]
      BY <1>3, LockedThread
    <3> QED BY <1>0, <1>3, <3>1, <3>2, LockedThread DEF TypeOK
  <2>3. ReqOK' /\ lock' \in Conn \cup {NoConn}
    <3>1. CASE req' = [req EXCEPT ![c] = NoReq] /\ lock' \in {lock, NoConn}
      BY <3>1 DEF ReqOK, TypeOK
    <3>2. ASSUME NEW at \in Held, req' = [req EXCEPT ![c].at = at], lock' = c
          PROVE  ReqOK' /\ lock' \in Conn \cup {NoConn}
      <4>1. req[c] \in [at : WithOp, op : OpId]
        BY <1>3, LockedReq DEF ReqOK, NoReq, Held
      <4>2. req'[c] \in [at : WithOp, op : OpId]
        BY <3>2, <4>1 DEF WithOp, ReqOK
      <4> QED BY <3>2, <4>2 DEF ReqOK
    <3> QED BY <1>3, <3>1, <3>2, LockedReq
  <2>4. available' \in BOOLEAN /\ saw_available' \in BOOLEAN /\ fault' \in BOOLEAN
    BY <1>3 DEF Locked, Silent, ExecuteAnswer, ExecuteWait, KeepWaiting, ExecuteRetryActive, HandlerRaised,
                EvictHead, EvictReorder, Promote, QuitBusy, PortsReserved, Busy, PortsFailed, TypeOK,
                flags, hist
  <2> QED BY <2>1, <2>2, <2>3, <2>4 DEF TypeOK, Row, Client, agents
<1> QED BY <1>1, <1>2, <1>3, HandlerSplit

LEMMA WorkerType ==
    ASSUME TypeOK, ReqOK, NEW x \in Request, Worker(x)
    PROVE  TypeOK' /\ ReqOK'
<1>0. ops \in [OpId -> Row] /\ {"none", "collect", "crack_flag", "crack_op", "crack_status", "crack_live"} \subseteq Labels
  BY OpsType DEF Labels
<1>1. ReqOK'
  BY DEF ReqOK, Worker, MissingToken, Dispatch, DispatchFails, Complete, CollectError, CollectFails,
         CollectRaised, CrackFlag, CrackOp, CrackStatus, CrackLive, web
<1> SUFFICES TypeOK'
  BY <1>1
<1>2. CASE MissingToken(x)
  <2>1. ops' \in [OpId -> Row] /\ thread' \in [Request -> Labels]
    BY <1>0, <1>2, SetFinalRows, ThreadType DEF MissingToken, Final
  <2>2. UNCHANGED <<user_status, tokens, task_status, flags, lock, sync_queue, clients, agents, hist>>
    BY <1>2 DEF MissingToken, web
  <2> QED BY <2>1, <2>2 DEF TypeOK, Row, Client, flags, clients, agents, hist
<1>3. CASE Dispatch(x) \/ DispatchFails(x)
  <2>1. PICK S \in SUBSET Role : Deliver(x, S)
    BY <1>3 DEF Dispatch, DispatchFails
  <2>2. thread' \in [Request -> Labels]
    BY <1>0, <1>3, ThreadType DEF Dispatch, DispatchFails
  <2>3. /\ job' \in [Role -> [at : {"idle", "running", "sent"}, req : Request, live : BOOLEAN]]
        /\ answer' \in [Role -> {"none", "DONE", "ERROR"}]
        /\ pending' \subseteq Request
    BY <2>1, DeliverType
  <2> QED BY <1>3, <2>2, <2>3, ZenonT(30) DEF Dispatch, DispatchFails, TypeOK, database, flags, web, clients
<1>4. CASE Complete(x)
  <2>1. ops' \in [OpId -> Row] /\ thread' \in [Request -> Labels]
    BY <1>0, <1>4, SetFinalRows, ThreadType DEF Complete, WithDone, Final
  <2>2. user_status' \in [Client -> {"NOT_JOINED", "JOINED", "QUITTED", "ACTIVE"}]
        /\ tokens' \in [Client -> SUBSET Role]
    BY <1>4 DEF Complete, TypeOK, Client
  <2>3. pending' \subseteq Request
    BY <1>4 DEF Complete, TypeOK
  <2>4. /\ job' \in [Role -> [at : {"idle", "running", "sent"}, req : Request, live : BOOLEAN]]
        /\ answer' \in [Role -> {"none", "DONE", "ERROR"}]
    BY <1>4, StopType DEF Complete
  <2> QED BY <1>4, <2>1, <2>2, <2>3, <2>4 DEF Complete, TypeOK, Row, Client, flags, web, clients
<1>5. CASE CollectError(x) \/ CollectFails(x) \/ CollectRaised(x)
  <2>1. StopCollecting /\ thread' \in [Request -> Labels]
    BY <1>0, <1>5, ThreadType DEF CollectError, CollectFails, CollectRaised
  <2>2. forgotten' \in BOOLEAN /\ fault' \in BOOLEAN
    BY <1>5 DEF CollectError, CollectFails, CollectRaised, TypeOK, hist
  <2> QED BY <1>5, <2>1, <2>2, StopType
          DEF CollectError, CollectFails, CollectRaised, TypeOK, database, flags, web, clients, hist
<1>6. CASE CrackFlag(x) \/ CrackStatus(x)
  <2>1. thread' \in [Request -> Labels]
    BY <1>0, <1>6, ThreadType DEF CrackFlag, CrackStatus
  <2>2. /\ cracked' \in BOOLEAN /\ task_status' \in {"active", "cracked"} /\ forgotten' \in BOOLEAN
        /\ UNCHANGED <<database, proc, available, saw_available, lock, sync_queue, clients, agents,
                       arrival, pending, fault>>
    BY <1>6 DEF CrackFlag, CrackStatus, TypeOK, flags, web, hist
  <2> QED BY <2>1, <2>2 DEF TypeOK, database, clients, agents
<1>7. CASE CrackOp(x) \/ CrackLive(x)
  <2>1. ops' \in [OpId -> Row] /\ thread' \in [Request -> Labels]
    BY <1>0, <1>7, SetFinalRows, ThreadType DEF CrackOp, CrackLive, Final
  <2>2. expired' \subseteq OpId
    BY <1>7 DEF CrackOp, CrackLive, TypeOK, clients
  <2> QED BY <1>7, <2>1, <2>2 DEF CrackOp, CrackLive, TypeOK, Row, Client, flags, web, clients, agents, hist
<1> QED BY <1>2, <1>3, <1>4, <1>5, <1>6, <1>7 DEF Worker

LEMMA CounterType ==
    ASSUME NEW g \in [User -> Nat], NEW u
    PROVE  /\ [g EXCEPT ![u] = @ + 1] \in [User -> Nat]
           /\ (u \in User => g[u] > 0) => [g EXCEPT ![u] = @ - 1] \in [User -> Nat]
<1>1. CASE u \in User
  <2>1. g[u] \in Nat /\ g[u] + 1 \in Nat /\ (g[u] > 0 => g[u] - 1 \in Nat)
    BY <1>1
  <2> QED BY <1>1, <2>1
<1>2. CASE u \notin User
  BY <1>2
<1> QED BY <1>1, <1>2

LEMMA AgentType ==
    ASSUME TypeOK, ReqOK, NEW r \in Role, Agent(r)
    PROVE  TypeOK' /\ ReqOK'
<1>1. \A ev \in {"DONE", "ERROR"} : Event(r, ev) => answer' \in [Role -> {"none", "DONE", "ERROR"}]
  BY DEF Event, TypeOK
<1>2. SyncReq \in Request
  BY DEF Request
<1>3. Sent(r) \/ job' = [job EXCEPT ![r] = Idle] =>
          job' \in [Role -> [at : {"idle", "running", "sent"}, req : Request, live : BOOLEAN]]
  <2> DEFINE J == [at : {"idle", "running", "sent"}, req : Request, live : BOOLEAN]
  <2>1. Idle \in J /\ [Idle EXCEPT !.at = "sent"] \in J
    BY <1>2 DEF Idle
  <2>2. job \in [Role -> J]
    BY DEF TypeOK
  <2> HIDE DEF J
  <2>3. Sent(r) \/ job' = [job EXCEPT ![r] = Idle] => job' \in [Role -> J]
    BY <2>1, <2>2 DEF Sent
  <2> QED BY <2>3 DEF J
<1>4. CASE AgentDone(r)
  <2>1. leaves' \in [Role -> [User -> Nat]]
    <3> DEFINE u == ops[job[r].req].user
               p == ProtOf(job[r].req)
    <3>1. /\ leaves \in [Role -> [User -> Nat]] /\ leaves[r] \in [User -> Nat]
      BY DEF TypeOK
    <3>2. p = "QUIT" => leaves[r][u] > 0
      BY <1>4 DEF AgentDone, HasLeaf
    <3>3. leaves' = IF p = "JOIN" THEN [leaves EXCEPT ![r] = [leaves[r] EXCEPT ![u] = @ + 1]]
                    ELSE IF p = "QUIT" THEN [leaves EXCEPT ![r] = [leaves[r] EXCEPT ![u] = @ - 1]]
                    ELSE leaves
      BY <1>4 DEF AgentDone
    <3> HIDE DEF u, p
    <3>4. [leaves[r] EXCEPT ![u] = @ + 1] \in [User -> Nat]
      BY <3>1, CounterType
    <3>5. p = "QUIT" => [leaves[r] EXCEPT ![u] = @ - 1] \in [User -> Nat]
      BY <3>1, <3>2, CounterType
    <3> QED BY <3>1, <3>3, <3>4, <3>5
  <2> QED BY <1>1, <1>3, <1>4, <2>1
          DEF AgentDone, TypeOK, ReqOK, database, flags, web, clients, hist
<1>5. CASE AgentError(r) \/ AgentRelease(r)
  <2>1. job' \in [Role -> [at : {"idle", "running", "sent"}, req : Request, live : BOOLEAN]]
    BY <1>3, <1>5 DEF AgentError, AgentRelease
  <2>2. answer' \in [Role -> {"none", "DONE", "ERROR"}]
    BY <1>1, <1>5 DEF AgentError, AgentRelease, TypeOK
  <2>3. fault' \in BOOLEAN
    BY <1>5 DEF AgentError, AgentRelease, TypeOK, hist
  <2>4. UNCHANGED <<ops, user_status, tokens, task_status, flags, web, thread, sync_queue, clients,
                    leaves, arrival, pending, forgotten>>
    BY <1>5 DEF AgentError, AgentRelease, database, hist
  <2> QED BY <2>1, <2>2, <2>3, <2>4 DEF TypeOK, ReqOK, flags, web, clients
<1> QED BY <1>4, <1>5 DEF Agent

\* Everything else: the checks before the lock, clocks, the control panel, start and stop.
Rest ==
    \/ \E c \in Conn, u \in User \cup Querier : \E p \in Prots(u) : ReserveCheck(c, u, p)
    \/ \E o \in OpId : Poll(o) \/ Expire(o) \/ ClientDies(o)
    \/ CmdSync \/ SchedulerStart \/ SchedulerSkip \/ CmdStart
    \/ Start \/ UncertainStart \/ Crash

LEMMA RestType == TypeOK /\ ReqOK /\ Rest => TypeOK' /\ ReqOK'
<1> SUFFICES ASSUME TypeOK, ReqOK, Rest PROVE TypeOK' /\ ReqOK'
  OBVIOUS
<1>1. ASSUME NEW c \in Conn, NEW u \in User \cup Querier, NEW p \in Prots(u), ReserveCheck(c, u, p)
      PROVE  TypeOK' /\ ReqOK'
  <2>1. [at |-> "reserve", user |-> u, prot |-> p] \in
            [at : {"reserve"}, user : Client, prot : {"JOIN", "UPDATE", "QUIT", "QUERY"}]
    BY DEF Prots, Client
  <2> QED BY <1>1, <2>1 DEF ReserveCheck, TypeOK, ReqOK, database, flags, clients, agents, hist
<1>2. ASSUME NEW o \in OpId, Poll(o) PROVE TypeOK' /\ ReqOK'
  <2>1. PICK c \in Conn : ExecuteCheck(c, o)
    BY <1>2 DEF Poll
  <2>2. [at |-> IF Status(o) = "RESERVED" THEN "enqueue" ELSE "locked", op |-> o] \in
            [at : WithOp, op : OpId]
    BY DEF WithOp
  <2> QED BY <2>1, <2>2 DEF ExecuteCheck, TypeOK, ReqOK, database, flags, clients, agents, hist
<1>3. ASSUME NEW o \in OpId, Expire(o) \/ ClientDies(o) PROVE TypeOK' /\ ReqOK'
  BY <1>3 DEF Expire, ClientDies, TypeOK, ReqOK, database, flags, web, agents, hist
<1>4. CASE CmdSync \/ SchedulerStart \/ SchedulerSkip \/ CmdStart
  <2>1. thread' \in [Request -> Labels]
    BY <1>4 DEF CmdSync, SchedulerStart, SchedulerSkip, CmdStart, GoTo, TypeOK, Labels
  <2>2. /\ proc' \in {"down", "uncertain", "panel", "up"} /\ available' \in BOOLEAN
        /\ saw_available' \in BOOLEAN /\ sync_queue' \in BOOLEAN
        /\ UNCHANGED <<database, task_status, cracked, web, clients, agents, hist>>
    BY <1>4 DEF CmdSync, SchedulerStart, SchedulerSkip, CmdStart, TypeOK, flags
  <2> QED BY <2>1, <2>2 DEF TypeOK, ReqOK, database, web, clients, agents, hist
<1>5. CASE Start \/ UncertainStart
  <2>1. ops' \in [OpId -> Row]
    BY <1>5, OpsType, SetFinalRows DEF Start, UncertainStart, Final, database
  <2> QED BY <1>5, <2>1
          DEF Start, UncertainStart, TypeOK, ReqOK, Row, Client, database, web, clients, agents, hist
<1>6. CASE Crash
  <2>1. thread' \in [Request -> Labels]
    BY <1>6 DEF Crash, Labels
  <2> QED BY <1>6, <2>1, StopType DEF Crash, TypeOK, ReqOK, database, clients
<1> QED BY <1>1, <1>2, <1>3, <1>4, <1>5, <1>6 DEF Rest

LEMMA NextSplit ==
    Next <=> \/ \E c \in Conn : Handler(c)
             \/ \E x \in Request : Worker(x)
             \/ \E r \in Role : Agent(r)
             \/ Rest
  BY DEF Next, Rest

LEMMA TypeKept == TypeOK /\ ReqOK /\ HeldOK /\ [Next]_vars => TypeOK' /\ ReqOK'
<1>1. CASE UNCHANGED vars
  BY <1>1 DEF vars, TypeOK, ReqOK, database, web, flags, clients, agents, hist
<1> QED BY <1>1, NextSplit, HandlerType, WorkerType, AgentType, RestType

-----------------------------------------------------------------------------
\* One user of the connections, one active operation

Core == HeldOK /\ ThreadOK /\ OneActive /\ CrackOK

LEMMA ActiveDef == \A o : o \in get_active <=> o \in OpId /\ Status(o) \in {"ACTIVE", "BUSY"}
  BY DEF get_active, WithStatus, Status

LEMMA ActiveDefPrime == \A o : o \in get_active' <=> o \in OpId /\ ops'[o].status \in {"ACTIVE", "BUSY"}
  BY DEF get_active, WithStatus

LEMMA RequestDef == Request = OpId \cup {SyncReq} /\ SyncReq \notin OpId /\ SyncReq \in Request
  BY BoundsAssumption DEF Request, OpId, SyncReq

\* A step that leaves the threads, the flags and the active operations alone.
LEMMA CoreQuiet ==
    ASSUME TypeOK, Core, HeldOK', UNCHANGED <<proc, cracked, task_status, thread>>,
           \A o \in OpId : Status(o) \in {"ACTIVE", "BUSY"} \/ ops'[o].status \in {"ACTIVE", "BUSY"}
                               => ops'[o].status = Status(o)
    PROVE  Core'
<1>1. get_active' = get_active
  BY ActiveDef, ActiveDefPrime
<1>2. ThreadOK'
  BY <1>1 DEF Core, ThreadOK, Status
<1> QED BY <1>1, <1>2 DEF Core, OneActive, CrackOK

\* When an operation is ACTIVE, or nothing is active and no SYNC runs, no thread is there.
LEMMA NoThread ==
    ASSUME TypeOK, Core, ~cracked,
           \/ \E o \in OpId : Status(o) = "ACTIVE"
           \/ get_active = {} /\ thread[SyncReq] = "none"
    PROVE  \A x \in Request : thread[x] = "none"
<1> SUFFICES ASSUME NEW x \in Request, thread[x] # "none" PROVE FALSE
  OBVIOUS
<1>1. thread[x] \in {"run", "collect", "crack_flag"}
  BY DEF Core, ThreadOK, TypeOK, Labels
<1>2. CASE x = SyncReq
  BY <1>1, <1>2, ActiveDef DEF Core, ThreadOK
<1>3. CASE x \in OpId
  <2>1. Status(x) = "BUSY" /\ x \in get_active
    BY <1>1, <1>3, ActiveDef DEF Core, ThreadOK
  <2> QED BY <2>1, ActiveDef DEF Core, OneActive
<1> QED BY <1>2, <1>3, RequestDef

LEMMA CoreHandler ==
    ASSUME TypeOK, ReqOK, Core, NEW c \in Conn, Handler(c)
    PROVE  Core'
<1>0. HeldOK /\ ReqOK' /\ ops \in [OpId -> Row]
  BY HandlerType, OpsType DEF Core
<1>1. CASE ReserveCreate(c)
  <2>1. req' = [req EXCEPT ![c] = NoReq] /\ LockFree /\ UNCHANGED <<flags, task_status, thread>>
    BY <1>1 DEF ReserveCreate
  <2>2. \A o \in OpId : Status(o) \in {"ACTIVE", "BUSY"} \/ ops'[o].status \in {"ACTIVE", "BUSY"}
                            => ops'[o].status = Status(o)
    BY <1>1, OpsType, CreateEffect DEF Status
  <2>3. HeldOK'
    BY <1>0, <2>1, OthersOut DEF HeldOK, NoReq, Held, ReqOK
  <2> QED BY <2>1, <2>2, <2>3, CoreQuiet DEF flags
<1>2. CASE ExecuteEnqueue(c)
  <2>1. /\ req' = [req EXCEPT ![c].at = "locked"] /\ req[c].at = "enqueue" /\ LockFree
        /\ UNCHANGED <<flags, task_status, thread>>
    BY <1>2 DEF ExecuteEnqueue
  <2>2. \A o \in OpId : Status(o) \in {"ACTIVE", "BUSY"} \/ ops'[o].status \in {"ACTIVE", "BUSY"}
                            => ops'[o].status = Status(o)
    BY <1>2, EnqueueEffect DEF Moved, Status
  <2>3. HeldOK'
    <3>1. req[c] \in [at : WithOp, op : OpId]
      BY <2>1 DEF ReqOK, NoReq
    <3>2. \A d \in Conn : req'[d].at \notin Held
      BY <1>0, <2>1, <3>1, OthersOut DEF Held, ReqOK
    <3> QED BY <3>2 DEF HeldOK
  <2> QED BY <2>1, <2>2, <2>3, CoreQuiet DEF flags
<1>3. CASE Locked(c)
  <2> DEFINE op == req[c].op
  <2>1. /\ op \in OpId /\ req[c].at \in {"locked"} \cup Held
        /\ \A d \in Conn \ {c} : req[d].at \notin Held
        /\ \/ req' = [req EXCEPT ![c] = NoReq]
           \/ \E at \in Held : req' = [req EXCEPT ![c].at = at] /\ lock' = c
    BY <1>0, <1>3, LockedReq, OthersOut
  <2>2. UNCHANGED <<proc, cracked, task_status>>
    BY <1>0, <1>3, LockedThread
  <2>3. \A d \in Conn \ {c} : req'[d].at \notin Held
    BY <2>1 DEF ReqOK
  <2>4. req'[c] = NoReq => HeldOK'
    BY <2>3 DEF HeldOK, NoReq, Held
  <2>5. \A at \in Held : req' = [req EXCEPT ![c].at = at] => req'[c].at = at /\ req'[c].op = op
    BY <2>1 DEF ReqOK, NoReq, WithOp, Held
  <2>6. CASE ExecuteAnswer(c) \/ ExecuteWait(c) \/ KeepWaiting(c) \/ HandlerRaised(c)
    <3>1. req' = [req EXCEPT ![c] = NoReq]
      BY <2>6 DEF ExecuteAnswer, ExecuteWait, KeepWaiting, HandlerRaised, LeaveLock, EndRequest
    <3>2. req'[c] = NoReq
      BY <3>1 DEF ReqOK
    <3>3. ops' = ops
      BY <2>6, SilentOps DEF Silent
    <3>4. thread' = thread
      BY <1>0, <1>3, <2>6, LockedThread
         DEF ExecuteAnswer, ExecuteWait, KeepWaiting, HandlerRaised, database
    <3> QED BY <2>2, <2>4, <3>2, <3>3, <3>4, CoreQuiet DEF Status
  <2>7. CASE EvictHead(c) \/ EvictReorder(c)
    <3>1. \E at \in {"evict", "reorder"} : Hold(c, at)
      BY <2>7 DEF EvictHead, EvictReorder
    <3>2. /\ req'[c].at \in {"evict", "reorder"} /\ req'[c].op = op /\ lock' = c
      BY <2>5, <3>1 DEF Hold, Held
    <3>3. /\ Status(op) = "QUEUED" /\ get_active = {} /\ thread[SyncReq] = "none"
          /\ proc = "up" /\ ~cracked
      <4>1. CASE EvictHead(c)
        BY <1>0, <4>1, AtQueueMeans DEF EvictHead
      <4>2. CASE EvictReorder(c)
        BY <1>0, <4>2 DEF EvictReorder, Holding, HeldOK, Held
      <4> QED BY <2>7, <4>1, <4>2
    <3>4. /\ ops'[op].status = "QUEUED" /\ thread' = thread
          /\ \A o \in OpId : Status(o) \in {"ACTIVE", "BUSY"} \/ ops'[o].status \in {"ACTIVE", "BUSY"}
                                => ops'[o].status = Status(o)
      <4>1. CASE EvictHead(c)
        BY <2>1, <3>3, <4>1, EvictEffect DEF Moved, Status, EvictHead
      <4>2. CASE EvictReorder(c)
        BY <1>0, <2>1, <3>3, <4>2, ReorderRows DEF EvictReorder, Status
      <4> QED BY <2>7, <4>1, <4>2
    <3>5. get_active' = {}
      BY <3>3, <3>4, ActiveDef, ActiveDefPrime
    <3>6. HeldOK'
      BY <2>2, <2>3, <3>2, <3>3, <3>4, <3>5 DEF HeldOK, Status, Held
    <3> QED BY <2>2, <3>4, <3>6, CoreQuiet
  <2>8. CASE Promote(c) \/ ExecuteRetryActive(c)
    <3>1. \E at \in {"quit", "ports"} : Hold(c, at)
      BY <2>8 DEF Promote, ExecuteRetryActive, StartsWith
    <3>2. req'[c].at \in {"quit", "ports"} /\ req'[c].op = op /\ lock' = c
      BY <2>5, <3>1 DEF Hold, Held
    <3>3. /\ proc = "up" /\ ~cracked
          /\ \/ get_active = {} /\ thread[SyncReq] = "none"
             \/ Status(op) = "ACTIVE"
      <4>1. CASE Promote(c)
        BY <1>0, <4>1, AtQueueMeans DEF Promote
      <4>2. CASE ExecuteRetryActive(c)
        BY <4>2 DEF ExecuteRetryActive, InCriticalSection, Serving
      <4> QED BY <2>8, <4>1, <4>2
    <3>4. \A x \in Request : thread[x] = "none"
      BY <2>1, <3>3, NoThread
    <3>5. get_active \subseteq {op}
      BY <2>1, <3>3, ActiveDef DEF Core, OneActive
    <3>6. ops'[op].status = "ACTIVE" /\ \A o \in OpId \ {op} : ops'[o].status = Status(o)
      <4>1. CASE Promote(c)
        BY <1>0, <2>1, <4>1, PromoteEffect DEF Moved, Status
      <4>2. CASE ExecuteRetryActive(c)
        BY <4>2, SilentOps DEF Silent, ExecuteRetryActive, Status
      <4> QED BY <2>8, <4>1, <4>2
    <3>7. get_active' \subseteq {op}
      BY <2>1, <3>5, <3>6, ActiveDef, ActiveDefPrime
    <3>8. thread' = thread
      BY <2>8 DEF Promote, ExecuteRetryActive
    <3>9. HeldOK'
      BY <2>2, <2>3, <3>2, <3>3, <3>6 DEF HeldOK, Status, Held
    <3>10. ThreadOK'
      BY <3>4, <3>8, RequestDef DEF ThreadOK
    <3> QED BY <2>2, <3>7, <3>9, <3>10 DEF Core, OneActive, CrackOK
  <2>9. CASE QuitBusy(c) \/ PortsReserved(c) \/ PortsFailed(c)
    <3>1. proc = "up" /\ ~cracked /\ Status(op) = "ACTIVE"
      BY <1>0, <2>9 DEF QuitBusy, PortsReserved, PortsFailed, Holding, HeldOK, Held
    <3>2. \A x \in Request : thread[x] = "none"
      BY <2>1, <3>1, NoThread
    <3>3. req' = [req EXCEPT ![c] = NoReq]
      BY <2>9 DEF QuitBusy, PortsReserved, Busy, PortsFailed, LeaveLock, EndRequest
    <3>4. HeldOK'
      BY <2>4, <3>3 DEF ReqOK
    <3>5. get_active \subseteq {op}
      BY <2>1, <3>1, ActiveDef DEF Core, OneActive
    <3>6. CASE QuitBusy(c) \/ PortsReserved(c)
      <4>1. ops'[op].status = "BUSY" /\ \A o \in OpId \ {op} : ops'[o].status = Status(o)
        BY <1>0, <2>1, <3>6, BusyEffect DEF Moved, Status
      <4>2. get_active' \subseteq {op}
        BY <3>5, <4>1, ActiveDef, ActiveDefPrime
      <4>3. thread' = [thread EXCEPT ![op] = "run"]
        BY <1>0, <1>3, <3>6, LockedThread
      <4>4. \A x \in Request : thread'[x] # "none" => x = op /\ thread'[x] = "run"
        BY <3>2, <4>3 DEF TypeOK
      <4>5. thread'[SyncReq] = "none"
        BY <2>1, <4>4, RequestDef
      <4>6. ThreadOK'
        BY <2>2, <3>1, <4>1, <4>4, <4>5, RequestDef DEF ThreadOK, Status
      <4> QED BY <2>2, <3>4, <4>2, <4>6 DEF Core, OneActive, CrackOK
    <3>7. CASE PortsFailed(c)
      <4>1. ops'[op].status = "FAILED" /\ \A o \in OpId \ {op} : ops'[o].status = Status(o)
        BY <1>0, <2>1, <3>7, FailedEffect DEF Moved, Status
      <4>2. get_active' = {}
        BY <3>5, <4>1, ActiveDef, ActiveDefPrime
      <4>3. thread' = thread
        BY <3>7 DEF PortsFailed
      <4>4. ThreadOK'
        BY <3>2, <4>3, RequestDef DEF ThreadOK
      <4> QED BY <2>2, <3>4, <4>2, <4>4 DEF Core, OneActive, CrackOK
    <3> QED BY <2>9, <3>6, <3>7
  <2> QED BY <1>3, <2>6, <2>7, <2>8, <2>9 DEF Locked, Silent
<1> QED BY <1>1, <1>2, <1>3, HandlerSplit

\* The thread x is the only one; no handler keeps the lock.
LEMMA OwnThread ==
    ASSUME TypeOK, ReqOK, Core, NEW x \in Request, thread[x] # "none"
    PROVE  /\ proc = "up"
           /\ \A y \in Request \ {x} : thread[y] = "none"
           /\ \A c \in Conn : req[c].at \notin Held
<1>1. proc = "up" /\ \A y \in Request \ {x} : thread[y] = "none"
  BY DEF Core, ThreadOK
<1>2. ASSUME NEW c \in Conn, req[c].at \in Held PROVE FALSE
  <2>1. /\ ~cracked /\ req[c].op \in OpId
        /\ Status(req[c].op) = "ACTIVE" \/ (get_active = {} /\ thread[SyncReq] = "none")
    BY <1>2, ReqType DEF Core, HeldOK, Held, WithOp
  <2> QED BY <2>1, NoThread
<1> QED BY <1>1, <1>2

\* A step of the only thread.
LEMMA CoreThread ==
    ASSUME TypeOK, ReqOK, Core, NEW x \in Request, thread[x] # "none",
           NEW label \in Labels, GoTo(x, label), UNCHANGED <<proc, web>>,
           cracked => cracked',
           task_status' = "cracked" => cracked',
           label \in {"run", "collect", "crack_flag"} => ~cracked',
           label \in {"crack_op", "crack_status", "crack_live"} => cracked',
           x \in OpId /\ label \in {"run", "collect", "crack_flag", "crack_op"} => ops'[x].status = "BUSY",
           x = SyncReq => label # "crack_op" /\ (label \in {"run", "collect", "crack_flag"} => get_active = {}),
           \A o \in OpId : ops'[o].status \in {"ACTIVE", "BUSY"} => ops'[o].status = Status(o)
    PROVE  Core'
<1>1. /\ proc' = "up" /\ thread'[x] = label
      /\ \A y \in Request \ {x} : thread'[y] = "none"
      /\ \A c \in Conn : req'[c].at \notin Held
  BY OwnThread DEF GoTo, TypeOK, web
<1>2. get_active' \subseteq get_active
  BY ActiveDef, ActiveDefPrime
<1>3. ThreadOK'
  BY <1>1, <1>2, RequestDef DEF ThreadOK, Status
<1>4. HeldOK'
  BY <1>1 DEF HeldOK
<1> QED BY <1>1, <1>2, <1>3, <1>4 DEF Core, OneActive, CrackOK

LEMMA CoreWorker ==
    ASSUME TypeOK, ReqOK, Core, NEW x \in Request, Worker(x)
    PROVE  Core'
<1>0. /\ {"none", "collect", "crack_flag", "crack_op", "crack_status", "crack_live"} \subseteq Labels
      /\ ops \in [OpId -> Row] /\ (task_status = "cracked" /\ proc = "up" => cracked)
  BY OpsType DEF Labels, Core, CrackOK
<1>1. thread[x] # "none" /\ Serving
  BY DEF Worker, MissingToken, Dispatch, DispatchFails, Complete, CollectError, CollectFails,
         CollectRaised, CrackFlag, CrackOp, CrackStatus, CrackLive
<1>2. /\ thread[x] \in {"run", "collect", "crack_flag"} => ~cracked
      /\ thread[x] \in {"crack_op", "crack_status", "crack_live"} => cracked
      /\ x \in OpId /\ thread[x] \in {"run", "collect", "crack_flag", "crack_op"} => Status(x) = "BUSY"
      /\ x = SyncReq => thread[x] # "crack_op"
      /\ x = SyncReq /\ thread[x] \in {"run", "collect", "crack_flag"} => get_active = {}
  BY DEF Core, ThreadOK
<1>3. ASSUME NEW S, NEW st \in Final, ops' = SetFinal(ops, S, st)
      PROVE  \A o \in OpId : ops'[o].status \in {"ACTIVE", "BUSY"} => ops'[o].status = Status(o)
  BY <1>0, <1>3, SetFinalRows DEF Status, Final
<1>4. UNCHANGED ops =>
          \A o \in OpId : ops'[o].status \in {"ACTIVE", "BUSY"} => ops'[o].status = Status(o)
  BY DEF Status
<1>5. CASE MissingToken(x) \/ Complete(x) \/ CrackLive(x)
  <2>1. \A o \in OpId : ops'[o].status \in {"ACTIVE", "BUSY"} => ops'[o].status = Status(o)
    BY <1>3, <1>4, <1>5 DEF MissingToken, Complete, WithDone, CrackLive, Final
  <2>2. GoTo(x, "none") /\ UNCHANGED <<proc, web, cracked, task_status>>
    BY <1>5 DEF MissingToken, Complete, CrackLive, flags
  <2> QED BY <1>0, <1>1, <1>2, <2>1, <2>2, CoreThread DEF Serving
<1>6. CASE Dispatch(x) \/ DispatchFails(x) \/ CollectError(x) \/ CollectFails(x) \/ CollectRaised(x)
  <2>1. UNCHANGED <<ops, proc, web, cracked, task_status>> /\ thread[x] \in {"run", "collect"}
    BY <1>6 DEF Dispatch, DispatchFails, CollectError, CollectFails, CollectRaised, flags, database
  <2>2. PICK label \in {"collect", "crack_flag", "none"} : GoTo(x, label)
    BY <1>6 DEF Dispatch, DispatchFails, CollectError, CollectFails, CollectRaised
  <2>3. x \in OpId => ops'[x].status = "BUSY"
    BY <1>2, <2>1 DEF Status
  <2> QED BY <1>0, <1>1, <1>2, <1>4, <2>1, <2>2, <2>3, CoreThread DEF Serving
<1>7. CASE CrackFlag(x)
  <2>1. /\ UNCHANGED <<ops, proc, web, task_status>> /\ cracked' /\ thread[x] = "crack_flag"
        /\ GoTo(x, IF x = SyncReq THEN "crack_status" ELSE "crack_op")
    BY <1>7 DEF CrackFlag, database
  <2>2. x \in OpId => ops'[x].status = "BUSY"
    BY <1>2, <2>1 DEF Status
  <2> DEFINE label == IF x = SyncReq THEN "crack_status" ELSE "crack_op"
  <2>3. label \in Labels /\ label \in {"crack_status", "crack_op"} /\ (x = SyncReq => label = "crack_status")
    BY <1>0
  <2>4. GoTo(x, label)
    BY <2>1
  <2> HIDE DEF label
  <2> QED BY <1>0, <1>1, <1>4, <2>1, <2>2, <2>3, <2>4, CoreThread
<1>8. CASE CrackOp(x)
  <2>1. /\ GoTo(x, "crack_status") /\ UNCHANGED <<proc, web, cracked, task_status>>
        /\ thread[x] = "crack_op"
    BY <1>8 DEF CrackOp, flags
  <2>2. \A o \in OpId : ops'[o].status \in {"ACTIVE", "BUSY"} => ops'[o].status = Status(o)
    BY <1>3, <1>4, <1>8 DEF CrackOp, Final
  <2> QED BY <1>0, <1>1, <1>2, <2>1, <2>2, CoreThread DEF Serving
<1>9. CASE CrackStatus(x)
  <2>1. /\ GoTo(x, "crack_live") /\ UNCHANGED <<ops, proc, web, cracked>> /\ thread[x] = "crack_status"
    BY <1>9 DEF CrackStatus, flags, database
  <2> QED BY <1>0, <1>1, <1>2, <1>4, <2>1, CoreThread DEF Serving
<1> QED BY <1>5, <1>6, <1>7, <1>8, <1>9 DEF Worker

LEMMA CoreRest == TypeOK /\ ReqOK /\ Core /\ Rest => Core'
<1> SUFFICES ASSUME TypeOK, ReqOK, Core, Rest PROVE Core'
  OBVIOUS
<1>1. ASSUME NEW c \in Conn, NEW v, req' = [req EXCEPT ![c] = v], v.at \notin Held,
             UNCHANGED <<flags, task_status, thread, lock, ops>>
      PROVE  Core'
  <2>1. \A d \in Conn : req'[d].at \in Held => req'[d] = req[d]
    BY <1>1 DEF ReqOK
  <2>2. HeldOK'
    BY <1>1, <2>1 DEF Core, HeldOK, Status, flags, get_active, WithStatus
  <2> QED BY <1>1, <2>2, CoreQuiet DEF flags, Status
<1>2. ASSUME UNCHANGED <<flags, task_status, thread, lock, req, ops>> PROVE Core'
  <2>1. HeldOK'
    BY <1>2 DEF Core, HeldOK, Status, flags, get_active, WithStatus
  <2> QED BY <1>2, <2>1, CoreQuiet DEF flags, Status
<1>3. ASSUME NEW c \in Conn, NEW u \in User \cup Querier, NEW p \in Prots(u), ReserveCheck(c, u, p)
      PROVE  Core'
  <2> DEFINE v == [at |-> "reserve", user |-> u, prot |-> p]
  <2>1. v.at \notin Held /\ req' = [req EXCEPT ![c] = v] /\ UNCHANGED <<flags, task_status, thread, lock, ops>>
    BY <1>3 DEF ReserveCheck, database, Held
  <2> HIDE DEF v
  <2> QED BY <1>1, <2>1
<1>4. ASSUME NEW o \in OpId, Poll(o) PROVE Core'
  <2>1. PICK c \in Conn : ExecuteCheck(c, o)
    BY <1>4 DEF Poll
  <2> DEFINE v == [at |-> IF Status(o) = "RESERVED" THEN "enqueue" ELSE "locked", op |-> o]
  <2>2. v.at \notin Held /\ req' = [req EXCEPT ![c] = v] /\ UNCHANGED <<flags, task_status, thread, lock, ops>>
    BY <2>1 DEF ExecuteCheck, database, Held
  <2> HIDE DEF v
  <2> QED BY <1>1, <2>2
<1>5. ASSUME NEW o \in OpId, Expire(o) \/ ClientDies(o) PROVE Core'
  BY <1>2, <1>5 DEF Expire, ClientDies, database, web
<1>6. CASE CmdSync
  BY <1>2, <1>6 DEF CmdSync, database, web
<1>7. CASE SchedulerStart
  <2>1. /\ proc = "up" /\ ~cracked /\ LockFree /\ get_active = {} /\ thread[SyncReq] = "none"
        /\ GoTo(SyncReq, "run") /\ UNCHANGED <<ops, task_status, proc, cracked, web>>
    BY <1>7 DEF SchedulerStart, MayStartSync, Serving, database
  <2>2. \A x \in Request : thread[x] = "none"
    BY <2>1, NoThread
  <2>3. \A c \in Conn : req[c].at \notin Held
    BY <2>1, OthersOut DEF Core
  <2>4. thread'[SyncReq] = "run" /\ \A x \in OpId : thread'[x] = "none"
    BY <2>1, <2>2, RequestDef DEF GoTo, TypeOK
  <2>5. get_active' = {}
    BY <2>1 DEF get_active, WithStatus
  <2>6. ThreadOK'
    BY <2>1, <2>4, <2>5, RequestDef DEF ThreadOK
  <2> QED BY <2>1, <2>3, <2>5, <2>6 DEF Core, HeldOK, OneActive, CrackOK, web
<1>10. CASE SchedulerSkip
  <2>1. UNCHANGED <<ops, proc, cracked, task_status, thread, req, lock>>
    BY <1>10 DEF SchedulerSkip, database, web
  <2>2. HeldOK'
    BY <2>1 DEF Core, HeldOK, Status, get_active, WithStatus
  <2> QED BY <2>1, <2>2, CoreQuiet DEF Status
<1>8. CASE CmdStart \/ Start \/ UncertainStart
  <2>1. proc # "up" /\ UNCHANGED <<cracked, thread, web>>
    BY <1>8 DEF CmdStart, Start, UncertainStart
  <2>2. /\ \A x \in Request : thread[x] = "none"
        /\ \A c \in Conn : req[c].at \notin Held
        /\ ~cracked
    BY <2>1 DEF Core, ThreadOK, HeldOK, CrackOK
  <2>3. ThreadOK' /\ HeldOK'
    BY <2>1, <2>2, RequestDef DEF ThreadOK, HeldOK, web
  <2>4. task_status' = "cracked" => proc' = "down"
    BY <1>8, <2>2
       DEF CmdStart, Start, UncertainStart, check_task_status, Core, CrackOK, flags, TypeOK
  <2>5. \A o \in OpId : ops'[o].status \in {"ACTIVE", "BUSY"} => ops'[o].status = Status(o)
    BY <1>8, OpsType, SetFinalRows DEF CmdStart, Start, UncertainStart, Final, Status, database
  <2>6. get_active' \subseteq get_active
    BY <2>5, ActiveDef, ActiveDefPrime
  <2> QED BY <2>1, <2>2, <2>3, <2>4, <2>6 DEF Core, OneActive, CrackOK
<1>9. CASE Crash
  <2>1. /\ proc' = "down" /\ cracked' = FALSE /\ req' = [c \in Conn |-> NoReq]
        /\ thread' = [x \in Request |-> "none"] /\ UNCHANGED ops
    BY <1>9 DEF Crash, database
  <2>2. ThreadOK' /\ HeldOK'
    BY <2>1, RequestDef DEF ThreadOK, HeldOK, NoReq, Held
  <2>3. get_active' = get_active
    BY <2>1 DEF get_active, WithStatus
  <2> QED BY <2>1, <2>2, <2>3 DEF Core, OneActive, CrackOK
<1> QED BY <1>3, <1>4, <1>5, <1>6, <1>7, <1>8, <1>9, <1>10 DEF Rest

LEMMA CoreKept == TypeOK /\ ReqOK /\ Core /\ [Next]_vars => Core'
<1> SUFFICES ASSUME TypeOK, ReqOK, Core, [Next]_vars PROVE Core'
  OBVIOUS
<1>1. CASE UNCHANGED vars
  <2>1. UNCHANGED <<ops, proc, cracked, task_status, thread, req, lock>>
    BY <1>1 DEF vars, database, web, flags
  <2>2. get_active' = get_active
    BY <2>1 DEF get_active, WithStatus
  <2> QED BY <2>1, <2>2 DEF Core, HeldOK, ThreadOK, OneActive, CrackOK, Status
<1>2. ASSUME NEW r \in Role, Agent(r) PROVE Core'
  <2>1. UNCHANGED <<ops, proc, cracked, task_status, thread, req, lock>>
    BY <1>2 DEF Agent, AgentDone, AgentError, AgentRelease, database, web, flags
  <2>2. get_active' = get_active
    BY <2>1 DEF get_active, WithStatus
  <2> QED BY <2>1, <2>2 DEF Core, HeldOK, ThreadOK, OneActive, CrackOK, Status
<1> QED BY <1>1, <1>2, NextSplit, CoreHandler, CoreWorker, CoreRest

-----------------------------------------------------------------------------
\* Terminal rows, and requests without confirmation

\* Handlers leave BUSY and terminal rows alone, and start only what was never sent.
LEMMA HandlerKeeps ==
    ASSUME TypeOK, ReqOK, HeldOK, NEW c \in Conn, Handler(c)
    PROVE  /\ \A o \in OpId : Status(o) \in {"BUSY"} \cup Final => ops'[o].status = Status(o)
           /\ \/ thread' = thread
              \/ \E op \in OpId : /\ Status(op) \in {"QUEUED", "ACTIVE"}
                                  /\ thread' = [thread EXCEPT ![op] = "run"]
           /\ UNCHANGED <<pending, task_status, proc, cracked, forgotten>>
<1>0. ops \in [OpId -> Row]
  BY OpsType
<1>1. CASE ReserveCreate(c)
  <2>1. \A o \in OpId : Status(o) \in {"BUSY"} \cup Final => ops'[o].status = Status(o)
    BY <1>0, <1>1, CreateEffect DEF Status, Final
  <2> QED BY <1>1, <2>1 DEF ReserveCreate, flags, hist
<1>2. CASE ExecuteEnqueue(c)
  <2>1. \A o \in OpId : Status(o) \in {"BUSY"} \cup Final => ops'[o].status = Status(o)
    BY <1>2, EnqueueEffect DEF Moved, Status, Final
  <2> QED BY <1>2, <2>1 DEF ExecuteEnqueue, flags
<1>3. CASE Locked(c)
  <2>1. \A o \in OpId : Status(o) \in {"BUSY"} \cup Final => ops'[o].status = Status(o)
    BY <1>3, LockedRows DEF Final
  <2>2. \/ thread' = thread
        \/ \E op \in OpId : /\ Status(op) \in {"QUEUED", "ACTIVE"}
                            /\ thread' = [thread EXCEPT ![op] = "run"]
    BY <1>3, LockedThread, BusyEffect DEF Moved
  <2> QED BY <1>3, <2>1, <2>2, LockedThread
<1> QED BY <1>1, <1>2, <1>3, HandlerSplit

\* What a step of the thread x does to the rows: x itself may end, and the end of a
\* crack fails every live one.
LEMMA WorkerKeeps ==
    ASSUME TypeOK, Core, NEW x \in Request, Worker(x)
    PROVE  /\ \A o \in OpId : Status(o) \in Final => ops'[o].status = Status(o)
           /\ \A o \in OpId : ops'[o].status \in {Status(o)} \cup Final
           /\ thread[x] # "crack_live" => \A o \in OpId : o # x => ops'[o].status = Status(o)
<1>0. ops \in [OpId -> Row]
  BY OpsType
<1>1. CASE MissingToken(x)
  <2>1. ops' = SetFinal(ops, {x}, "FAILED") /\ (x \in OpId => Status(x) = "BUSY")
    BY <1>1 DEF MissingToken, Core, ThreadOK
  <2> QED BY <1>0, <2>1, SetFinalRows DEF Final, Status
<1>2. CASE Complete(x)
  <2>1. (ops' = ops \/ ops' = SetFinal(ops, {x}, "DONE")) /\ (x \in OpId => Status(x) = "BUSY")
    BY <1>2 DEF Complete, WithDone, Core, ThreadOK
  <2> QED BY <1>0, <2>1, SetFinalRows DEF Final, Status
<1>3. CASE CrackOp(x)
  <2>1. (ops' = ops \/ ops' = SetFinal(ops, {x}, "FAILED")) /\ (x \in OpId => Status(x) = "BUSY")
    BY <1>3 DEF CrackOp, Core, ThreadOK
  <2> QED BY <1>0, <2>1, SetFinalRows DEF Final, Status
<1>4. CASE CrackLive(x)
  <2>1. (ops' = ops \/ ops' = SetFinal(ops, WithStatus(Live), "FAILED")) /\ thread[x] = "crack_live"
    BY <1>4 DEF CrackLive
  <2> QED BY <1>0, <2>1, SetFinalRows DEF Final, Live, WithStatus, Status
<1>5. CASE Dispatch(x) \/ DispatchFails(x) \/ CollectError(x) \/ CollectFails(x) \/ CollectRaised(x)
           \/ CrackFlag(x) \/ CrackStatus(x)
  BY <1>5 DEF Dispatch, DispatchFails, CollectError, CollectFails, CollectRaised, CrackFlag,
              CrackStatus, database, Status
<1> QED BY <1>1, <1>2, <1>3, <1>4, <1>5 DEF Worker

Pend == PendingOK /\ RecordOK

LEMMA PendHandler ==
    ASSUME TypeOK, ReqOK, Core, Pend, NEW c \in Conn, Handler(c)
    PROVE  Pend'
<1>1. /\ \A o \in OpId : Status(o) \in {"BUSY"} \cup Final => ops'[o].status = Status(o)
      /\ \/ thread' = thread
         \/ \E op \in OpId : /\ Status(op) \in {"QUEUED", "ACTIVE"}
                             /\ thread' = [thread EXCEPT ![op] = "run"]
      /\ UNCHANGED <<pending, task_status, proc, cracked, forgotten>>
  BY HandlerKeeps DEF Core
<1>2. \A o \in OpId \cap pending : Status(o) \in {"BUSY"} \cup Final /\ thread[o] # "run"
  BY DEF Pend, PendingOK
<1>3. \A x \in Request : /\ thread'[x] \in {thread[x], "run"}
                         /\ x \in pending => thread'[x] = thread[x]
  <2>1. CASE thread' = thread
    BY <2>1
  <2>2. ASSUME NEW op \in OpId, Status(op) \in {"QUEUED", "ACTIVE"}, thread' = [thread EXCEPT ![op] = "run"]
        PROVE  \A x \in Request : /\ thread'[x] \in {thread[x], "run"}
                                  /\ x \in pending => thread'[x] = thread[x]
    <3>1. op \notin pending
      BY <1>2, <2>2 DEF Final
    <3> QED BY <2>2, <3>1 DEF TypeOK
  <2> QED BY <1>1, <2>1, <2>2
<1>4. PendingOK'
  BY <1>1, <1>2, <1>3, RequestDef DEF Pend, PendingOK, Status, Final
<1>5. RecordOK'
  <2> SUFFICES ASSUME ~forgotten PROVE RecordOK'
    BY <1>1 DEF RecordOK
  <2>1. \A x \in pending : Recorded(x) /\ x \in Request
    BY DEF Pend, RecordOK, TypeOK
  <2>2. \A x \in Request : thread[x] = "crack_live" => task_status = "cracked"
    BY DEF Pend, RecordOK
  <2> QED BY <1>1, <1>3, <2>1, <2>2, RequestDef DEF RecordOK, Recorded, Status
<1> QED BY <1>4, <1>5 DEF Pend

LEMMA PendWorker ==
    ASSUME TypeOK, ReqOK, Core, Pend, NEW x \in Request, Worker(x)
    PROVE  Pend'
<1>1. /\ \A o \in OpId : Status(o) \in Final => ops'[o].status = Status(o)
      /\ \A o \in OpId : ops'[o].status \in {Status(o)} \cup Final
      /\ thread[x] # "crack_live" => \A o \in OpId : o # x => ops'[o].status = Status(o)
  BY WorkerKeeps
<1>2. /\ \A o \in OpId \cap pending : Status(o) \in {"BUSY"} \cup Final /\ thread[o] # "run"
      /\ \A o \in OpId : thread[o] = "crack_status" => Status(o) \in {"BUSY", "FAILED"}
      /\ ~forgotten => /\ \A y \in pending : Recorded(y)
                       /\ \A y \in Request : thread[y] = "crack_live" => task_status = "cracked"
  BY DEF Pend, PendingOK, RecordOK
<1>3. /\ x \in OpId /\ thread[x] \in {"run", "collect", "crack_flag", "crack_op"} => Status(x) = "BUSY"
      /\ x = SyncReq => thread[x] # "crack_op"
      /\ x \in OpId => x # SyncReq
  BY RequestDef DEF Core, ThreadOK
<1>4. PICK label : GoTo(x, label)
  BY DEF Worker, MissingToken, Dispatch, DispatchFails, Complete, CollectError, CollectFails,
         CollectRaised, CrackFlag, CrackOp, CrackStatus, CrackLive
<1>5. thread'[x] = label /\ \A y \in Request \ {x} : thread'[y] = thread[y] /\ thread[y] = "none"
  <2>1. thread[x] # "none"
    BY DEF Worker, MissingToken, Dispatch, DispatchFails, Complete, CollectError, CollectFails,
           CollectRaised, CrackFlag, CrackOp, CrackStatus, CrackLive
  <2> QED BY <1>4, <2>1, OwnThread DEF GoTo, TypeOK
<1>6. /\ pending' \subseteq pending \cup {x} /\ pending' \subseteq Request /\ pending \subseteq Request
      /\ OpId \cup {SyncReq} = Request
      /\ (forgotten => forgotten') /\ (task_status = "cracked" => task_status' = "cracked")
      /\ proc' = proc
  <2>1. /\ pending' \subseteq pending \cup {x} /\ pending \subseteq Request
        /\ (forgotten => forgotten') /\ (task_status = "cracked" => task_status' = "cracked")
        /\ proc' = proc
    BY DEF Worker, MissingToken, Dispatch, DispatchFails, Complete, CollectError, CollectFails,
           CollectRaised, CrackFlag, CrackOp, CrackStatus, CrackLive, Deliver, hist, flags, TypeOK
  <2> QED BY <2>1, RequestDef
\* The thread x itself.
<1>7. /\ x \in pending' /\ x \in OpId => ops'[x].status \in {"BUSY"} \cup Final /\ label # "run"
      /\ x \in OpId /\ label = "crack_status" => ops'[x].status \in {"BUSY", "FAILED"}
      /\ label = "crack_live" /\ ~forgotten' => task_status' = "cracked"
      /\ x \in pending' /\ ~forgotten' =>
             \/ task_status' = "cracked" \/ label = "crack_status"
             \/ x # SyncReq /\ ops'[x].status = "BUSY"
             \/ x = SyncReq /\ label \in {"collect", "crack_flag"}
  <2>1. CASE MissingToken(x)
    <3>1. x \in OpId /\ thread[x] = "run" /\ pending' = pending /\ thread'[x] = "none"
      BY <1>6, <2>1 DEF MissingToken, NeedsToken, ProtOf, GoTo, hist, TypeOK
    <3> QED BY <1>2, <1>5, <3>1
  <2>2. CASE Complete(x)
    <3>1. x \notin pending' /\ thread'[x] = "none"
      BY <2>2 DEF Complete, GoTo, TypeOK
    <3> QED BY <1>5, <3>1
  <2>3. CASE Dispatch(x) \/ DispatchFails(x)
    <3>1. thread[x] = "run" /\ thread'[x] \in {"collect", "crack_flag"} /\ ops' = ops
      BY <2>3 DEF Dispatch, DispatchFails, GoTo, database, TypeOK
    <3> QED BY <1>3, <1>5, <1>6, <3>1 DEF Status
  <2>4. CASE CollectError(x) \/ CollectFails(x)
    <3>1. thread[x] = "collect" /\ thread'[x] = "crack_flag" /\ ops' = ops
      BY <2>4 DEF CollectError, CollectFails, GoTo, database, TypeOK
    <3> QED BY <1>3, <1>5, <1>6, <3>1 DEF Status
  <2>5. CASE CollectRaised(x)
    <3>1. thread[x] = "collect" /\ thread'[x] = "none" /\ ops' = ops /\ (x = SyncReq => forgotten')
      BY <2>5 DEF CollectRaised, GoTo, database, TypeOK
    <3> QED BY <1>3, <1>5, <1>6, <3>1 DEF Status
  <2>6. CASE CrackFlag(x)
    <3>1. /\ thread[x] = "crack_flag" /\ ops' = ops
          /\ thread'[x] = IF x = SyncReq THEN "crack_status" ELSE "crack_op"
      BY <2>6 DEF CrackFlag, GoTo, database, TypeOK
    <3> QED BY <1>3, <1>5, <1>6, <3>1 DEF Status
  <2>7. CASE CrackOp(x)
    <3>1. thread[x] = "crack_op" /\ thread'[x] = "crack_status"
      BY <2>7 DEF CrackOp, GoTo, TypeOK
    <3>2. x \in OpId /\ Status(x) = "BUSY"
      BY <1>3, <1>6, <3>1
    <3>3. ops'[x].status \in {"BUSY", "FAILED"}
      BY <2>7, <3>2, OpsType, SetFinalRows DEF CrackOp, Final, Status
    <3> QED BY <1>5, <3>1, <3>3 DEF Final
  <2>8. CASE CrackStatus(x)
    <3>1. /\ thread[x] = "crack_status" /\ thread'[x] = "crack_live" /\ ops' = ops
          /\ (task_status' = "cracked" \/ forgotten') /\ pending' = pending
      BY <2>8 DEF CrackStatus, GoTo, database, TypeOK
    <3> QED BY <1>2, <1>5, <3>1 DEF Status
  <2>9. CASE CrackLive(x)
    <3>1. /\ thread[x] = "crack_live" /\ thread'[x] = "none" /\ task_status' = task_status
          /\ forgotten' = forgotten /\ pending' = pending
      BY <2>9 DEF CrackLive, GoTo, hist, TypeOK
    <3> QED BY <1>1, <1>2, <1>5, <3>1 DEF Final
  <2> QED BY <2>1, <2>2, <2>3, <2>4, <2>5, <2>6, <2>7, <2>8, <2>9 DEF Worker
<1>8. PendingOK'
  <2>1. ASSUME NEW o \in OpId, o # x
        PROVE  /\ o \in pending' => ops'[o].status \in {"BUSY"} \cup Final /\ thread'[o] # "run"
               /\ thread'[o] # "crack_status"
    BY <1>1, <1>2, <1>5, <1>6, <2>1
  <2> QED BY <1>5, <1>7, <2>1 DEF PendingOK, Status
<1>9. RecordOK'
  <2> SUFFICES ASSUME ~forgotten' PROVE RecordOK'
    BY DEF RecordOK
  <2>1. ASSUME NEW y \in pending', y # x PROVE Recorded(y)'
    <3>1. y \in pending /\ Recorded(y) /\ y \in Request /\ thread[y] = "none" /\ thread'[y] = "none"
      BY <1>2, <1>5, <1>6, <2>1
    <3>2. CASE task_status = "cracked" \/ proc = "uncertain"
      BY <1>6, <3>2 DEF Recorded
    <3>3. CASE task_status # "cracked" /\ y # SyncReq /\ Status(y) = "BUSY"
      <4>1. thread[x] # "crack_live" /\ y \in OpId
        BY <1>2, <1>6, <3>1, <3>3
      <4>2. ops'[y].status = "BUSY"
        BY <1>1, <2>1, <3>3, <4>1
      <4> QED BY <3>3, <4>2 DEF Recorded, Status
    <3> QED BY <3>1, <3>2, <3>3 DEF Recorded
  <2>2. x \in pending' => Recorded(x)'
    BY <1>5, <1>7 DEF Recorded, Status
  <2>3. \A y \in Request : thread'[y] = "crack_live" => task_status' = "cracked"
    BY <1>5, <1>7
  <2> QED BY <2>1, <2>2, <2>3 DEF RecordOK
<1> QED BY <1>8, <1>9 DEF Pend

LEMMA PendRest == TypeOK /\ ReqOK /\ Core /\ Pend /\ Rest => Pend'
<1> SUFFICES ASSUME TypeOK, ReqOK, Core, Pend, Rest PROVE Pend'
  OBVIOUS
<1>0. /\ \A o \in OpId \cap pending : Status(o) \in {"BUSY"} \cup Final /\ thread[o] # "run"
      /\ \A o \in OpId : thread[o] = "crack_status" => Status(o) \in {"BUSY", "FAILED"}
      /\ ~forgotten => /\ \A y \in pending : Recorded(y)
                       /\ \A y \in Request : thread[y] = "crack_live" => task_status = "cracked"
      /\ pending \subseteq Request
  BY DEF Pend, PendingOK, RecordOK, TypeOK
<1>1. ASSUME UNCHANGED <<ops, thread, pending, forgotten, task_status>>,
             proc = "uncertain" => proc' = proc
      PROVE  Pend'
  BY <1>1 DEF Pend, PendingOK, RecordOK, Recorded, Status
<1>2. ASSUME NEW c \in Conn, NEW u \in User \cup Querier, NEW p \in Prots(u), ReserveCheck(c, u, p)
      PROVE  Pend'
  BY <1>1, <1>2 DEF ReserveCheck, database, flags, hist
<1>3. ASSUME NEW o \in OpId, Poll(o) \/ Expire(o) \/ ClientDies(o) PROVE Pend'
  BY <1>1, <1>3 DEF Poll, ExecuteCheck, Expire, ClientDies, database, flags, hist
<1>4. CASE CmdSync \/ CmdStart
  BY <1>1, <1>4 DEF CmdSync, CmdStart, database, flags, hist
<1>5. CASE SchedulerStart
  <2>1. /\ proc = "up" /\ ~cracked /\ thread[SyncReq] = "none" /\ GoTo(SyncReq, "run")
        /\ UNCHANGED <<ops, pending, forgotten, task_status, proc>>
    BY <1>5 DEF SchedulerStart, MayStartSync, Serving, database, hist
  <2>2. ~forgotten => SyncReq \notin pending
    BY <1>0, <2>1 DEF Recorded, Core, CrackOK
  <2>3. \A y \in Request : thread'[y] = IF y = SyncReq THEN "run" ELSE thread[y]
    BY <2>1 DEF GoTo, TypeOK
  <2>4. PendingOK'
    BY <1>0, <2>1, <2>3, RequestDef DEF PendingOK, Status
  <2>5. RecordOK'
    BY <1>0, <2>1, <2>2, <2>3, RequestDef DEF RecordOK, Recorded, Status
  <2> QED BY <2>4, <2>5 DEF Pend
<1>6. CASE Start
  <2>1. /\ proc = "down" /\ task_status = "active" /\ UNCHANGED <<thread, pending, forgotten, task_status>>
        /\ ops' = SetFinal(ops, get_active, "FAILED")
        /\ proc' = IF had_busy THEN "uncertain" ELSE "panel"
    BY <1>6 DEF Start, check_task_status, hist
  <2>2. \A y \in Request : thread[y] = "none"
    BY <2>1 DEF Core, ThreadOK
  <2>3. \A o \in OpId : Status(o) \in {"BUSY"} \cup Final => ops'[o].status \in Final
    BY <2>1, OpsType, ActiveDef, SetFinalRows DEF Final, Status
  <2>4. ~forgotten /\ pending # {} => had_busy
    BY <1>0, <2>1, <2>2, RequestDef DEF Recorded, had_busy, WithStatus, Status
  <2>5. PendingOK'
    BY <1>0, <2>1, <2>2, <2>3, RequestDef DEF PendingOK, Status
  <2>6. RecordOK'
    BY <2>1, <2>2, <2>4 DEF RecordOK, Recorded
  <2> QED BY <2>5, <2>6 DEF Pend
<1>7. CASE UncertainStart
  <2>1. task_status' = "cracked" /\ UNCHANGED <<ops, thread, pending>>
    BY <1>7 DEF UncertainStart, database, hist
  <2> QED BY <2>1 DEF Pend, PendingOK, RecordOK, Recorded, Status
<1>8. CASE Crash
  <2>1. /\ thread' = [x \in Request |-> "none"] /\ forgotten' = (forgotten \/ Forget)
        /\ UNCHANGED <<ops, pending, task_status>>
    BY <1>8 DEF Crash, database
  <2>2. PendingOK'
    BY <1>0, <2>1, RequestDef DEF PendingOK, Status
  <2>3. RecordOK'
    <3> SUFFICES ASSUME ~forgotten, ~Forget, NEW y \in pending PROVE Recorded(y)'
      BY <2>1 DEF RecordOK
    <3>1. Recorded(y) /\ y \in Request /\ proc # "uncertain"
      BY <1>0 DEF Forget
    <3>2. CASE y = SyncReq
      BY <2>1, <3>1, <3>2 DEF Recorded, Forget
    <3>3. CASE y \in OpId
      BY <1>0, <2>1, <3>1, <3>3, RequestDef DEF Recorded, Forget, Status
    <3> QED BY <3>1, <3>2, <3>3, RequestDef
  <2> QED BY <2>2, <2>3 DEF Pend
<1>9. CASE SchedulerSkip
  BY <1>1, <1>9 DEF SchedulerSkip, database, hist
<1> QED BY <1>2, <1>3, <1>4, <1>5, <1>6, <1>7, <1>8, <1>9 DEF Rest

LEMMA PendKept == TypeOK /\ ReqOK /\ Core /\ Pend /\ [Next]_vars => Pend'
<1> SUFFICES ASSUME TypeOK, ReqOK, Core, Pend, [Next]_vars PROVE Pend'
  OBVIOUS
<1>1. ASSUME UNCHANGED <<ops, thread, pending, forgotten, task_status, proc>> PROVE Pend'
  BY <1>1 DEF Pend, PendingOK, RecordOK, Recorded, Status
<1>2. CASE UNCHANGED vars
  BY <1>1, <1>2 DEF vars, database, flags, hist
<1>3. ASSUME NEW r \in Role, Agent(r) PROVE Pend'
  BY <1>1, <1>3 DEF Agent, AgentDone, AgentError, AgentRelease, database, flags, hist
<1> QED BY <1>2, <1>3, NextSplit, PendHandler, PendWorker, PendRest

-----------------------------------------------------------------------------
\* The order of the queue

Fifo == ArrivalOK /\ QueueIsFifo

\* A step that lets no operation into the queue and keeps the order of those in it.
LEMMA FifoQuiet ==
    ASSUME TypeOK, Fifo, arrival' = arrival, OrderKept(ops, ops'),
           \A o \in OpId : /\ ops'[o].status = "QUEUED" => Status(o) = "QUEUED"
                           /\ ops'[o].status \in {"NONE", "RESERVED"} => Status(o) \in {"NONE", "RESERVED"}
    PROVE  Fifo'
<1>1. \A i \in 1..Len(arrival) : arrival[i] \in OpId
  BY DEF TypeOK
<1>2. \A o : /\ o \in Queued <=> o \in OpId /\ ops[o].status = "QUEUED"
             /\ o \in Queued' <=> o \in OpId /\ ops'[o].status = "QUEUED"
  BY DEF Queued, WithStatus
<1>3. ArrivalOK'
  BY <1>1, <1>2 DEF Fifo, ArrivalOK, Status
<1>4. QueueIsFifo'
  BY <1>1, <1>2 DEF Fifo, QueueIsFifo, OrderKept, Status
<1> QED BY <1>3, <1>4 DEF Fifo

LEMMA FifoFinal ==
    ASSUME TypeOK, Fifo, arrival' = arrival,
           ops' = ops \/ \E st \in Final : \E S : ops' = SetFinal(ops, S, st)
    PROVE  Fifo'
<1>1. \A o \in OpId : ops'[o].status \in {Status(o)} \cup Final /\ (ops'[o].status \notin Final => ops'[o].pos = ops[o].pos)
  <2>1. CASE ops' = ops
    BY <2>1 DEF Status
  <2>2. ASSUME NEW S, NEW st \in Final, ops' = SetFinal(ops, S, st)
        PROVE  \A o \in OpId : ops'[o].status \in {Status(o)} \cup Final
                               /\ (ops'[o].status \notin Final => ops'[o].pos = ops[o].pos)
    BY <2>2, OpsType, SetFinalRows DEF Status
  <2> QED BY <2>1, <2>2
<1>2. OrderKept(ops, ops')
  BY <1>1 DEF OrderKept, Final
<1> QED BY <1>1, <1>2, FifoQuiet DEF Final

LEMMA FifoHandler ==
    ASSUME TypeOK, ReqOK, HeldOK, Fifo, NEW c \in Conn, Handler(c)
    PROVE  Fifo'
<1>0. ops \in [OpId -> Row]
  BY OpsType
<1>1. CASE ReserveCreate(c)
  <2>1. arrival' = arrival
    BY <1>1 DEF ReserveCreate, hist
  <2>2. CASE ops' = ops
    BY <2>1, <2>2, FifoFinal
  <2>3. ASSUME NEW o \in OpId, Status(o) = "NONE",
               ops' = [ops EXCEPT ![o] = [status |-> "RESERVED", user |-> req[c].user,
                                          prot |-> req[c].prot, pos |-> 0]]
        PROVE  Fifo'
    <3>1. \A p \in OpId : /\ p = o => ops'[p].status = "RESERVED"
                          /\ p # o => ops'[p] = ops[p]
      BY <1>0, <2>3
    <3>2. OrderKept(ops, ops')
      BY <3>1 DEF OrderKept
    <3> QED BY <2>1, <2>3, <3>1, <3>2, FifoQuiet DEF Status
  <2> QED BY <1>1, <2>2, <2>3, CreateEffect
<1>2. CASE ExecuteEnqueue(c)
  <2> DEFINE op == req[c].op
  <2>1. CASE UNCHANGED <<ops, arrival>>
    BY <2>1, FifoFinal
  <2>2. CASE /\ Moved({op}, {"RESERVED"}, "QUEUED")
             /\ arrival' = Append(arrival, op)
             /\ \A o \in OpId : o # op => ops'[o].pos = ops[o].pos
             /\ \A o \in OpId : Status(o) = "QUEUED" => ops[o].pos < ops'[op].pos
    <3>0. op \in OpId /\ arrival \in Seq(OpId)
      BY <1>2, ReqType DEF ExecuteEnqueue, TypeOK, WithOp
    <3>1. /\ Len(arrival) \in Nat /\ Len(arrival') = Len(arrival) + 1
          /\ \A i \in 1..Len(arrival) : arrival'[i] = arrival[i] /\ arrival[i] \in OpId
          /\ arrival'[Len(arrival) + 1] = op
      BY <2>2, <3>0
    <3>2. /\ Status(op) = "RESERVED"
          /\ \A o \in OpId : ops'[o].status = IF o = op THEN "QUEUED" ELSE Status(o)
      BY <2>2, <3>0 DEF Moved, Status
    <3>3. \A o : /\ o \in Queued <=> o \in OpId /\ Status(o) = "QUEUED"
                 /\ o \in Queued' <=> o \in OpId /\ ops'[o].status = "QUEUED"
      BY DEF Queued, WithStatus, Status
    <3>4. \A i \in 1..Len(arrival) : arrival[i] # op
      BY <3>2 DEF Fifo, ArrivalOK
    <3> HIDE DEF op
    <3>5. ArrivalOK'
      <4>1. ASSUME NEW i \in 1..Len(arrival') PROVE ops'[arrival'[i]].status \notin {"NONE", "RESERVED"}
        <5>1. CASE i = Len(arrival) + 1
          BY <3>0, <3>1, <3>2, <5>1
        <5>2. CASE i # Len(arrival) + 1
          <6>1. i \in 1..Len(arrival)
            BY <3>1, <4>1, <5>2
          <6> QED BY <3>1, <3>2, <3>4, <6>1 DEF Fifo, ArrivalOK
        <5> QED BY <5>1, <5>2
      <4>2. ASSUME NEW o \in Queued' PROVE \E i \in 1..Len(arrival') : arrival'[i] = o
        <5>1. CASE o = op
          <6>1. Len(arrival) + 1 \in 1..Len(arrival')
            BY <3>1
          <6> QED BY <3>1, <5>1, <6>1
        <5>2. CASE o # op
          <6>1. o \in Queued
            BY <3>2, <3>3, <4>2, <5>2
          <6>2. PICK i \in 1..Len(arrival) : arrival[i] = o
            BY <6>1 DEF Fifo, ArrivalOK
          <6>3. i \in 1..Len(arrival')
            BY <3>1
          <6> QED BY <3>1, <6>2, <6>3
        <5> QED BY <5>1, <5>2
      <4> QED BY <4>1, <4>2 DEF ArrivalOK, Status
    <3>6. QueueIsFifo'
      <4> SUFFICES ASSUME NEW i \in 1..Len(arrival'), NEW j \in 1..Len(arrival'), i < j,
                          arrival'[i] \in Queued', arrival'[j] \in Queued'
                   PROVE  ops'[arrival'[i]].pos < ops'[arrival'[j]].pos
        BY DEF QueueIsFifo
      <4>1. i \in 1..Len(arrival) /\ arrival'[i] = arrival[i] /\ arrival[i] \in OpId /\ arrival[i] # op
        <5>1. i \in 1..Len(arrival)
          BY <3>1
        <5> QED BY <3>1, <3>4, <5>1
      <4>2. arrival[i] \in Queued /\ ops'[arrival[i]].pos = ops[arrival[i]].pos
        BY <2>2, <3>2, <3>3, <4>1 DEF op
      <4>3. CASE j = Len(arrival) + 1
        <5>1. arrival'[j] = op
          BY <3>1, <4>3
        <5>2. Status(arrival[i]) = "QUEUED"
          BY <3>3, <4>2
        <5> QED BY <2>2, <4>1, <4>2, <5>1, <5>2 DEF op
      <4>4. CASE j # Len(arrival) + 1
        <5>1. j \in 1..Len(arrival)
          BY <3>1, <4>4
        <5>2. arrival'[j] = arrival[j] /\ arrival[j] \in OpId /\ arrival[j] # op
          BY <3>1, <3>4, <5>1
        <5>3. arrival[j] \in Queued /\ ops'[arrival[j]].pos = ops[arrival[j]].pos
          BY <2>2, <3>2, <3>3, <5>2 DEF op
        <5> QED BY <4>1, <4>2, <5>1, <5>2, <5>3 DEF Fifo, QueueIsFifo
      <4> QED BY <4>3, <4>4
    <3> QED BY <3>5, <3>6 DEF Fifo
  <2> QED BY <1>2, <2>1, <2>2, EnqueueEffect
<1>3. CASE Locked(c)
  BY <1>3, LockedRows, LockedThread, FifoQuiet
<1> QED BY <1>1, <1>2, <1>3, HandlerSplit

LEMMA FifoKept == TypeOK /\ ReqOK /\ HeldOK /\ Fifo /\ [Next]_vars => Fifo'
<1> SUFFICES ASSUME TypeOK, ReqOK, HeldOK, Fifo, [Next]_vars PROVE Fifo'
  OBVIOUS
<1>1. CASE UNCHANGED vars
  BY <1>1, FifoFinal DEF vars, database, hist
<1>2. ASSUME NEW x \in Request, Worker(x) PROVE Fifo'
  <2>1. arrival' = arrival
    BY <1>2 DEF Worker, MissingToken, Dispatch, DispatchFails, Complete, CollectError, CollectFails,
                CollectRaised, CrackFlag, CrackOp, CrackStatus, CrackLive, hist
  <2>2. ops' = ops \/ \E st \in Final : \E S : ops' = SetFinal(ops, S, st)
    BY <1>2 DEF Worker, MissingToken, Dispatch, DispatchFails, Complete, WithDone, CollectError,
                CollectFails, CollectRaised, CrackFlag, CrackOp, CrackStatus, CrackLive, database, Final
  <2> QED BY <2>1, <2>2, FifoFinal
<1>3. ASSUME NEW r \in Role, Agent(r) PROVE Fifo'
  BY <1>3, FifoFinal DEF Agent, AgentDone, AgentError, AgentRelease, database, hist
<1>4. CASE Rest
  <2>1. arrival' = arrival
    BY <1>4 DEF Rest, Poll, ReserveCheck, ExecuteCheck, Expire, ClientDies, CmdSync, SchedulerStart,
                SchedulerSkip, CmdStart, Start, UncertainStart, Crash, hist
  <2>2. ops' = ops \/ \E st \in Final : \E S : ops' = SetFinal(ops, S, st)
    BY <1>4 DEF Rest, Poll, ReserveCheck, ExecuteCheck, Expire, ClientDies, CmdSync, SchedulerStart,
                SchedulerSkip, CmdStart, Start, UncertainStart, Crash, database, Final
  <2> QED BY <2>1, <2>2, FifoFinal
<1> QED BY <1>1, <1>2, <1>3, <1>4, NextSplit, FifoHandler

-----------------------------------------------------------------------------
\* The Agents and the database

Agree == RowsOK /\ PermittedOK /\ JobOK /\ LeavesOK

\* The rows after a commit that ends operations, or after none.
Ended == ops' = ops \/ \E st \in Final : \E S : ops' = SetFinal(ops, S, st)

LEMMA EndedRows ==
    ASSUME TypeOK, Ended
    PROVE  \A o \in OpId : /\ ops'[o].status \in {Status(o)} \cup Final
                           /\ ops'[o].user = ops[o].user /\ ops'[o].prot = ops[o].prot
<1>1. CASE ops' = ops
  BY <1>1 DEF Status
<1>2. ASSUME NEW st \in Final, NEW S, ops' = SetFinal(ops, S, st)
      PROVE  \A o \in OpId : /\ ops'[o].status \in {Status(o)} \cup Final
                             /\ ops'[o].user = ops[o].user /\ ops'[o].prot = ops[o].prot
  BY <1>2, OpsType, SetFinalRows DEF Status
<1> QED BY <1>1, <1>2 DEF Ended

\* A step that creates no row and admits only what is permitted to the queue.
LEMMA RowsQuiet ==
    ASSUME TypeOK, ReqOK, RowsOK, PermittedOK, user_status' = user_status,
           \A o \in OpId :
               /\ ops'[o].user = ops[o].user /\ ops'[o].prot = ops[o].prot
               /\ ops'[o].status = "NONE" => Status(o) = "NONE"
               /\ ops'[o].status = "RESERVED" => Status(o) = "RESERVED"
               /\ ops'[o].status \in {"QUEUED", "ACTIVE", "BUSY"} =>
                      \/ Status(o) \in {"QUEUED", "ACTIVE", "BUSY"}
                      \/ Status(o) = "RESERVED" /\ Permitted(o),
           \A d \in Conn :
               req'[d].at \in WithOp =>
                   /\ req[d].at \in WithOp /\ req'[d].op = req[d].op
                   /\ req'[d].at = "enqueue" => req[d].at = "enqueue"
    PROVE  RowsOK' /\ PermittedOK'
<1>1. \A d \in Conn : req[d].at \in WithOp => req[d].op \in OpId
  BY ReqType
<1>2. \A o \in OpId : ops'[o].status \in Live => Status(o) \in Live
  BY DEF Live
<1>3. RowsOK'
  <2>1. \A d \in Conn : req'[d].at \in WithOp => ops'[req'[d].op].status # "NONE"
    BY <1>1 DEF RowsOK
  <2>2. \A o, p \in OpId : ops'[o].status \in Live /\ ops'[p].status \in Live
                               /\ ops'[o].user = ops'[p].user /\ ops'[o].prot = ops'[p].prot => o = p
    BY <1>2 DEF RowsOK, WithStatus, Status
  <2>3. \A o \in OpId : ops'[o].status \in Live => ops'[o].user \in Client
    BY <1>2 DEF RowsOK, WithStatus, Status
  <2> QED BY <2>1, <2>2, <2>3 DEF RowsOK, WithStatus, Status, Client
<1>4. \A o \in OpId : Permitted(o)' <=> Permitted(o)
  BY DEF Permitted
<1>5. PermittedOK'
  <2>1. \A o \in OpId : ops'[o].status \in {"QUEUED", "ACTIVE", "BUSY"} => Permitted(o)'
    BY <1>4 DEF PermittedOK, WithStatus, Status
  <2>2. \A d \in Conn : req'[d].at = "enqueue" /\ ops'[req'[d].op].status = "RESERVED" => Permitted(req[d].op)'
    BY <1>1, <1>4 DEF PermittedOK, Status, WithOp
  <2> QED BY <2>1, <2>2 DEF PermittedOK, WithStatus, Status
<1> QED BY <1>3, <1>5

\* A step that leaves the Agents alone and neither starts nor ends a collection.
LEMMA LeavesQuiet ==
    ASSUME TypeOK, Core, JobOK, LeavesOK, UNCHANGED <<user_status, tokens, leaves, pending, job, answer>>,
           \A o \in OpId : Status(o) # "NONE" => ops'[o].user = ops[o].user /\ ops'[o].prot = ops[o].prot,
           \A x \in Request : thread'[x] = "collect" <=> thread[x] = "collect"
    PROVE  JobOK' /\ LeavesOK'
<1>1. \A r \in Role : job[r].req \in Request
  BY DEF TypeOK
<1>2. OpId \subseteq Request
  BY RequestDef
<1>3. JobOK'
  BY <1>1, <1>2 DEF JobOK
<1>4. \A x \in OpId : thread[x] = "collect" => ops'[x].user = ops[x].user /\ ops'[x].prot = ops[x].prot
  BY DEF Core, ThreadOK
<1>5. ASSUME NEW x \in OpId, thread'[x] = "collect", Unconfirmed' = {x}, NEW u \in User
      PROVE  /\ tokens'[u] = IF user_status'[u] = "JOINED" THEN Role ELSE {}
             /\ \A r \in Role : leaves'[r][u] = LeavesDuring(x, r, u)'
  <2>1. thread[x] = "collect" /\ Unconfirmed = {x}
    BY <1>2, <1>5 DEF Unconfirmed
  <2>2. \A r \in Role : LeavesDuring(x, r, u)' = LeavesDuring(x, r, u)
    BY <1>4, <2>1 DEF LeavesDuring, Base
  <2> QED BY <2>1, <2>2 DEF LeavesOK
<1>6. Unconfirmed' = {} =>
          \A u \in User : /\ tokens'[u] = IF user_status'[u] = "JOINED" THEN Role ELSE {}
                          /\ \A r \in Role : leaves'[r][u] = Base(u)'
  BY DEF LeavesOK, Unconfirmed, Base
<1> QED BY <1>3, <1>5, <1>6 DEF LeavesOK

\* A step after which no thread collects and no event is awaited.
LEMMA LeavesStop ==
    ASSUME TypeOK, JobOK, LeavesOK, StopCollecting,
           UNCHANGED <<user_status, tokens, leaves, pending>>,
           \A x \in Request : thread'[x] # "collect"
    PROVE  JobOK' /\ LeavesOK'
<1>1. \A r \in Role : /\ answer'[r] = "none" /\ ~job'[r].live
                      /\ job'[r].at = job[r].at /\ job'[r].req = job[r].req /\ job[r].req \in Request
  BY DEF StopCollecting, TypeOK
<1>2. JobOK'
  BY <1>1 DEF JobOK
<1>3. \A x \in OpId : thread'[x] # "collect"
  BY RequestDef
<1>4. LeavesOK'
  BY <1>3 DEF LeavesOK, Unconfirmed, Base
<1> QED BY <1>2, <1>4

LEMMA AgreeHandler ==
    ASSUME TypeOK, ReqOK, Core, Agree, NEW c \in Conn, Handler(c)
    PROVE  Agree'
<1>0. ops \in [OpId -> Row] /\ RowsOK /\ PermittedOK /\ JobOK /\ LeavesOK /\ HeldOK
  BY OpsType DEF Agree, Core
<1>1. UNCHANGED <<user_status, tokens, leaves, pending, job, answer>>
  <2>1. CASE Locked(c)
    BY <1>0, <2>1, LockedThread DEF agents
  <2> QED BY <2>1, HandlerSplit DEF ReserveCreate, ExecuteEnqueue, agents, hist
<1>2. \A x \in Request : thread'[x] = "collect" <=> thread[x] = "collect"
  <2>1. CASE thread' = thread
    BY <2>1
  <2>2. ASSUME NEW op \in OpId, Status(op) \in {"QUEUED", "ACTIVE"}, thread' = [thread EXCEPT ![op] = "run"]
        PROVE  \A x \in Request : thread'[x] = "collect" <=> thread[x] = "collect"
    <3>1. thread[op] # "collect" /\ op \in Request
      BY <2>2, RequestDef DEF Core, ThreadOK
    <3> QED BY <2>2, <3>1 DEF TypeOK
  <2> QED BY <1>0, <2>1, <2>2, HandlerKeeps
<1>3. \A d \in Conn : req[d].at \in WithOp => req[d].op \in OpId
  BY ReqType
<1>4. ASSUME \A o \in OpId :
               /\ ops'[o].user = ops[o].user /\ ops'[o].prot = ops[o].prot
               /\ ops'[o].status = "NONE" => Status(o) = "NONE"
               /\ ops'[o].status = "RESERVED" => Status(o) = "RESERVED"
               /\ ops'[o].status \in {"QUEUED", "ACTIVE", "BUSY"} =>
                      \/ Status(o) \in {"QUEUED", "ACTIVE", "BUSY"}
                      \/ Status(o) = "RESERVED" /\ Permitted(o)
      PROVE  Agree'
  <2>2. \/ req' = [req EXCEPT ![c] = NoReq]
        \/ req[c].at \in WithOp /\ \E at \in WithOp \ {"enqueue"} : req' = [req EXCEPT ![c].at = at]
    <3>1. CASE ReserveCreate(c)
      BY <3>1 DEF ReserveCreate
    <3>2. CASE ExecuteEnqueue(c)
      BY <3>2 DEF ExecuteEnqueue, WithOp
    <3>3. CASE Locked(c)
      BY <1>0, <3>3, LockedReq DEF WithOp, Held
    <3> QED BY <3>1, <3>2, <3>3, HandlerSplit
  <2>3. \A d \in Conn : req'[d].at \in WithOp =>
                   /\ req[d].at \in WithOp /\ req'[d].op = req[d].op
                   /\ req'[d].at = "enqueue" => req[d].at = "enqueue"
    <3>1. CASE req' = [req EXCEPT ![c] = NoReq]
      BY <3>1 DEF ReqOK, NoReq, WithOp, Held
    <3>2. ASSUME NEW at \in WithOp \ {"enqueue"}, req' = [req EXCEPT ![c].at = at],
                 req[c].at \in WithOp
          PROVE  \A d \in Conn : req'[d].at \in WithOp =>
                   /\ req[d].at \in WithOp /\ req'[d].op = req[d].op
                   /\ req'[d].at = "enqueue" => req[d].at = "enqueue"
      <4>1. req[c] \in [at : WithOp, op : OpId]
        BY <3>2 DEF ReqOK, NoReq, WithOp, Held
      <4> QED BY <3>2, <4>1 DEF ReqOK
    <3> QED BY <2>2, <3>1, <3>2
  <2>4. RowsOK' /\ PermittedOK'
    BY <1>0, <1>1, <1>4, <2>3, RowsQuiet
  <2>5. JobOK' /\ LeavesOK'
    BY <1>0, <1>1, <1>2, <1>4, LeavesQuiet
  <2> QED BY <2>4, <2>5 DEF Agree
<1>5. CASE ReserveCreate(c)
  <2>1. CASE ops' = ops
    BY <1>4, <2>1 DEF Status
  <2>2. ASSUME NEW o \in OpId, Status(o) = "NONE", LiveOf(req[c].user, req[c].prot) = {},
               ops' = [ops EXCEPT ![o] = [status |-> "RESERVED", user |-> req[c].user,
                                          prot |-> req[c].prot, pos |-> 0]]
        PROVE  Agree'
    <3>1. /\ ops'[o].status = "RESERVED" /\ ops'[o].user = req[c].user /\ ops'[o].prot = req[c].prot
          /\ \A p \in OpId \ {o} : ops'[p] = ops[p]
      BY <1>0, <2>2
    <3>2. \A d \in Conn : req'[d].at \in WithOp =>
              req'[d] = req[d] /\ req[d].op \in OpId \ {o}
      BY <1>0, <1>3, <1>5, <2>2 DEF ReserveCreate, NoReq, RowsOK, ReqOK, WithOp, Held
    <3>3. RowsOK'
      <4>1. ASSUME NEW p \in OpId, NEW q \in OpId, ops'[p].status \in Live, ops'[q].status \in Live,
                   ops'[p].user = ops'[q].user, ops'[p].prot = ops'[q].prot
            PROVE  p = q
        <5>1. \A y \in OpId : y # o /\ ops'[y].status \in Live =>
                  ops'[y].user # req[c].user \/ ops'[y].prot # req[c].prot
          BY <2>2, <3>1 DEF LiveOf, WithStatus
        <5>2. CASE p # o /\ q # o
          BY <1>0, <3>1, <4>1, <5>2 DEF RowsOK, WithStatus
        <5> QED BY <3>1, <4>1, <5>1, <5>2
      <4>2. \A d \in Conn : req'[d].at \in WithOp => ops'[req'[d].op].status # "NONE"
        BY <1>0, <3>1, <3>2 DEF RowsOK, Status
      <4>3. \A p \in OpId : ops'[p].status \in Live => ops'[p].user \in Client
        BY <1>0, <1>5, <3>1, ReqType DEF ReserveCreate, RowsOK, WithStatus, Status
      <4> QED BY <4>1, <4>2, <4>3 DEF RowsOK, WithStatus, Status, Client
    <3>4. PermittedOK'
      <4>1. \A p \in OpId \ {o} : Permitted(p)' <=> Permitted(p)
        BY <1>1, <3>1 DEF Permitted
      <4>2. \A p \in OpId : ops'[p].status \in {"QUEUED", "ACTIVE", "BUSY"} => Permitted(p)'
        BY <1>0, <3>1, <4>1 DEF PermittedOK, WithStatus
      <4>3. \A d \in Conn : req'[d].at = "enqueue" /\ ops'[req'[d].op].status = "RESERVED" => Permitted(req[d].op)'
        BY <1>0, <3>1, <3>2, <4>1 DEF PermittedOK, Status, WithOp
      <4> QED BY <4>2, <4>3 DEF PermittedOK, WithStatus, Status
    <3>5. JobOK' /\ LeavesOK'
      <4>1. \A p \in OpId : Status(p) # "NONE" => ops'[p].user = ops[p].user /\ ops'[p].prot = ops[p].prot
        BY <2>2, <3>1
      <4> QED BY <1>0, <1>1, <1>2, <4>1, LeavesQuiet
    <3> QED BY <3>3, <3>4, <3>5 DEF Agree
  <2> QED BY <1>5, <2>1, <2>2, CreateEffect
<1>6. CASE ExecuteEnqueue(c)
  <2>1. CASE ops' = ops
    BY <1>4, <2>1 DEF Status
  <2>2. CASE Moved({req[c].op}, {"RESERVED"}, "QUEUED")
    <3>1. req[c].at = "enqueue" /\ req[c].op \in OpId
      BY <1>3, <1>6 DEF ExecuteEnqueue, WithOp
    <3>2. Status(req[c].op) = "RESERVED" /\ Permitted(req[c].op)
      BY <1>0, <2>2, <3>1 DEF Moved, PermittedOK
    <3> QED BY <1>4, <2>2, <3>2 DEF Moved, Status
  <2> QED BY <1>6, <2>1, <2>2, EnqueueEffect
<1>7. CASE Locked(c)
  <2>1. \A o \in OpId :
           /\ ops'[o].user = ops[o].user /\ ops'[o].prot = ops[o].prot
           /\ \/ ops'[o].status = Status(o)
              \/ Status(o) = "QUEUED" /\ ops'[o].status \in {"ACTIVE", "REMOVED"}
              \/ Status(o) = "ACTIVE" /\ ops'[o].status \in {"BUSY", "FAILED"}
    BY <1>0, <1>7, LockedRows
  <2> QED BY <1>4, <2>1
<1> QED BY <1>5, <1>6, <1>7, HandlerSplit

\* No operation moves up, and no request begins.
LEMMA RowsEnded ==
    ASSUME TypeOK, ReqOK, RowsOK, PermittedOK, Ended, UNCHANGED <<user_status, req>>
    PROVE  RowsOK' /\ PermittedOK'
<1>1. \A o \in OpId : /\ ops'[o].status \in {Status(o)} \cup Final
                      /\ ops'[o].user = ops[o].user /\ ops'[o].prot = ops[o].prot
  BY EndedRows
<1> QED BY <1>1, RowsQuiet DEF Final

\* The commit of an operation changes what its own user is, and what the other live
\* operations of that user were permitted by stays true.
LEMMA CompleteRows ==
    ASSUME TypeOK, ReqOK, Core, RowsOK, PermittedOK, NEW x \in Request, Complete(x)
    PROVE  RowsOK' /\ PermittedOK'
<1> DEFINE u == ops[x].user
<1>1. Ended /\ req' = req
  BY DEF Complete, WithDone, Ended, Final, web
<1>2. \A o \in OpId : /\ ops'[o].status \in {Status(o)} \cup Final
                      /\ ops'[o].user = ops[o].user /\ ops'[o].prot = ops[o].prot
  BY <1>1, EndedRows
<1>3. CASE user_status' = user_status
  BY <1>1, <1>3, RowsEnded
<1>4. CASE user_status' # user_status
  <2>1. /\ x \in OpId /\ ops[x].prot \in {"JOIN", "QUIT"} /\ u \in Client
        /\ user_status' = [user_status EXCEPT ![u] = IF ops[x].prot = "JOIN" THEN "JOINED" ELSE "QUITTED"]
    <3>1. user_status \in [Client -> {"NOT_JOINED", "JOINED", "QUITTED", "ACTIVE"}]
      BY DEF TypeOK, Client
    <3>2. x # SyncReq /\ ops[x].prot \in {"JOIN", "QUIT"}
          /\ user_status' = [user_status EXCEPT ![u] = IF ops[x].prot = "JOIN" THEN "JOINED" ELSE "QUITTED"]
      BY <1>4 DEF Complete, ProtOf
    <3> QED BY <1>4, <3>1, <3>2, RequestDef
  <2>2. ops' = SetFinal(ops, {x}, "DONE") /\ Status(x) = "BUSY"
    BY <2>1, RequestDef DEF Complete, WithDone, Core, ThreadOK
  <2>3. ops'[x].status = "DONE"
    BY <2>1, <2>2, OpsType, SetFinalRows DEF Final
  <2>4. ASSUME NEW o \in OpId, o # x, Status(o) \in Live, Permitted(o) PROVE Permitted(o)'
    <3>1. CASE ops[o].user # u
      <4>1. ops[o].user \in Client
        BY <2>4 DEF RowsOK, WithStatus, Status
      <4>2. user_status'[ops[o].user] = user_status[ops[o].user]
        BY <2>1, <3>1, <4>1 DEF TypeOK, Client
      <4> QED BY <1>2, <2>4, <4>2 DEF Permitted
    <3>2. CASE ops[o].user = u
      <4>1. ops[o].prot # ops[x].prot
        BY <2>1, <2>2, <2>4, <3>2 DEF RowsOK, WithStatus, Live, Status
      <4>2. user_status'[u] = IF ops[x].prot = "JOIN" THEN "JOINED" ELSE "QUITTED"
        BY <2>1 DEF TypeOK, Client
      <4> QED BY <1>2, <2>1, <3>2, <4>1, <4>2 DEF Permitted
    <3> QED BY <3>1, <3>2
  <2>5. \A d \in Conn : req[d].at \in WithOp => req[d].op \in OpId
    BY ReqType
  <2>6. RowsOK'
    BY <1>1, <1>2, <2>5 DEF RowsOK, WithStatus, Status, Live, Final, Client
  <2>7. \A o \in OpId : ops'[o].status \in {"QUEUED", "ACTIVE", "BUSY"} => Permitted(o)'
    BY <1>2, <2>3, <2>4 DEF PermittedOK, WithStatus, Status, Live, Final
  <2>8. \A d \in Conn : req'[d].at = "enqueue" /\ ops'[req'[d].op].status = "RESERVED" => Permitted(req[d].op)'
    BY <1>1, <1>2, <2>3, <2>4, <2>5 DEF PermittedOK, Status, Live, Final, WithOp
  <2> QED BY <1>1, <2>6, <2>7, <2>8 DEF PermittedOK, WithStatus, Status
<1> QED BY <1>3, <1>4

\* An EXECUTE or SYNC is sent: all the Agents that take it get it at once.
LEMMA DispatchAgents ==
    ASSUME TypeOK, ReqOK, Core, PendingOK, JobOK, LeavesOK,
           NEW x \in Request, Dispatch(x) \/ DispatchFails(x)
    PROVE  JobOK' /\ LeavesOK'
<1>1. PICK S \in SUBSET Role : /\ Deliver(x, S)
                               /\ S = Role \/ \A y \in Request : thread'[y] # "collect"
                               /\ S = Role => Dispatch(x)
  <2>1. CASE Dispatch(x)
    BY <2>1 DEF Dispatch
  <2>2. CASE DispatchFails(x)
    <3>1. \A y \in Request \ {x} : thread[y] = "none"
      BY <2>2, OwnThread DEF DispatchFails
    <3>2. \A y \in Request : thread'[y] # "collect"
      BY <2>2, <3>1 DEF DispatchFails, GoTo, TypeOK
    <3> QED BY <2>2, <3>2 DEF DispatchFails
  <2> QED BY <2>1, <2>2
<1>2. /\ thread[x] = "run" /\ UNCHANGED <<ops, user_status, tokens, leaves>>
      /\ thread'[x] \in {"collect", "crack_flag"} /\ (S = Role => thread'[x] = "collect")
  BY <1>1 DEF Dispatch, DispatchFails, GoTo, database, TypeOK
<1>3. \A y \in Request \ {x} : thread[y] = "none" /\ thread'[y] = "none"
  <2>1. \A y \in Request \ {x} : thread[y] = "none"
    BY <1>2, OwnThread
  <2> QED BY <2>1 DEF Dispatch, DispatchFails, GoTo, TypeOK
<1>4. \A r \in Role : ~job[r].live
  BY <1>2, <1>3 DEF JobOK, TypeOK
<1>5. x \in OpId => x \notin pending
  BY <1>2 DEF PendingOK
<1>6. /\ pending' = pending \cup (IF S = {} THEN {} ELSE {x})
      /\ \A r \in Role : answer'[r] \in {"none", "ERROR"}
      /\ \A r \in Role : \/ job'[r] = job[r] /\ (r \in S => job[r].at # "idle")
                         \/ /\ r \in S /\ job'[r].at = "running" /\ job'[r].req = x
                            /\ job'[r].live = (S = Role) /\ answer'[r] = "none"
  BY <1>1 DEF Deliver
<1>7. JobOK'
  <2>1. ASSUME NEW y \in Request, thread'[y] = "collect" PROVE y \in pending'
    BY <1>1, <1>3, <1>6, <2>1, RolesAssumption
  <2>2. ASSUME NEW r \in Role
        PROVE  /\ job'[r].at = "running" => job'[r].req \in pending' /\ answer'[r] # "DONE"
               /\ job'[r].at = "running" /\ job'[r].req \in OpId /\ thread'[job'[r].req] = "collect" =>
                      job'[r].live /\ answer'[r] = "none"
               /\ job'[r].live => job'[r].at = "running" /\ thread'[job'[r].req] = "collect"
    <3>1. CASE job'[r] = job[r]
      <4>1. job[r].at = "running" => job[r].req \in pending
        BY DEF JobOK
      <4>2. job[r].at = "running" /\ job[r].req \in OpId => thread'[job[r].req] # "collect"
        BY <1>3, <1>5, <4>1, RequestDef
      <4> QED BY <1>4, <1>6, <3>1, <4>1, <4>2
    <3>2. CASE /\ r \in S /\ job'[r].at = "running" /\ job'[r].req = x
               /\ job'[r].live = (S = Role) /\ answer'[r] = "none"
      <4>1. x \in pending'
        BY <1>6, <3>2
      <4>2. thread'[x] = "collect" => S = Role
        BY <1>1
      <4> QED BY <1>2, <3>2, <4>1, <4>2
    <3> QED BY <1>6, <3>1, <3>2
  <2> QED BY <2>1, <2>2 DEF JobOK
<1>8. LeavesOK'
  <2>1. Unconfirmed' = {} => Unconfirmed = {}
    BY <1>6 DEF Unconfirmed
  <2>2. ASSUME NEW y \in OpId, thread'[y] = "collect", Unconfirmed' = {y}
        PROVE  y = x /\ Unconfirmed = {}
    <3>1. y = x
      BY <1>3, <2>2, RequestDef
    <3> QED BY <1>5, <1>6, <2>2, <3>1 DEF Unconfirmed
  <2>3. Unconfirmed = {} =>
          \A u \in User : /\ tokens'[u] = IF user_status'[u] = "JOINED" THEN Role ELSE {}
                          /\ \A r \in Role : leaves'[r][u] = Base(u)'
    BY <1>2 DEF LeavesOK, Base
  <2>4. \A u \in User, r \in Role : LeavesDuring(x, r, u)' = Base(u)'
    BY <1>6 DEF LeavesDuring
  <2> QED BY <2>1, <2>2, <2>3, <2>4 DEF LeavesOK
<1> QED BY <1>7, <1>8

\* All three confirmed: no Agent runs anything, and what each has done is committed.
LEMMA CompleteAgents ==
    ASSUME TypeOK, ReqOK, Core, JobOK, LeavesOK, NEW x \in Request, Complete(x)
    PROVE  JobOK' /\ LeavesOK'
<1>1. /\ thread[x] = "collect" /\ \A r \in Role : answer[r] = "DONE"
      /\ pending' = pending \ {x} /\ StopCollecting /\ leaves' = leaves
  BY DEF Complete
<1>2. \A y \in Request : thread'[y] = "none"
  <2>1. \A y \in Request \ {x} : thread[y] = "none"
    BY <1>1, OwnThread
  <2> QED BY <2>1 DEF Complete, GoTo, TypeOK
<1>3. \A r \in Role : /\ answer'[r] = "none" /\ ~job'[r].live
                      /\ job'[r].at = job[r].at /\ job[r].at # "running"
  BY <1>1 DEF StopCollecting, TypeOK, JobOK
<1>4. JobOK'
  BY <1>2, <1>3 DEF JobOK
<1>5. ASSUME Unconfirmed' = {}, NEW v \in User
      PROVE  /\ tokens'[v] = IF user_status'[v] = "JOINED" THEN Role ELSE {}
             /\ \A r \in Role : leaves'[r][v] = Base(v)'
  <2>1. CASE x = SyncReq
    <3>1. Unconfirmed' = Unconfirmed /\ UNCHANGED <<user_status, tokens>>
      BY <1>1, <2>1 DEF Unconfirmed, Complete, ProtOf
    <3> QED BY <1>1, <1>5, <3>1 DEF LeavesOK, Base
  <2>2. CASE x \in OpId
    <3>1. Unconfirmed = {x}
      BY <1>1, <1>5, <2>2, RequestDef DEF Unconfirmed, JobOK
    <3>2. /\ tokens[v] = IF user_status[v] = "JOINED" THEN Role ELSE {}
          /\ \A r \in Role : leaves[r][v] = LeavesDuring(x, r, v)
      BY <1>1, <2>2, <3>1 DEF LeavesOK
    <3>3. /\ user_status \in [Client -> {"NOT_JOINED", "JOINED", "QUITTED", "ACTIVE"}]
          /\ tokens \in [Client -> SUBSET Role] /\ v \in Client /\ x # SyncReq
      BY <2>2, RequestDef DEF TypeOK, Client
    <3>4. CASE ops[x].user = v /\ ops[x].prot = "JOIN"
      <4>1. user_status'[v] = "JOINED" /\ tokens'[v] = Role
        BY <3>3, <3>4 DEF Complete, ProtOf
      <4>2. \A r \in Role : leaves[r][v] = 1
        BY <1>1, <3>2, <3>3, <3>4 DEF LeavesDuring
      <4> QED BY <1>1, <4>1, <4>2 DEF Base
    <3>5. CASE ops[x].user = v /\ ops[x].prot = "QUIT"
      <4>1. user_status'[v] = "QUITTED" /\ tokens'[v] = {}
        BY <3>3, <3>5 DEF Complete, ProtOf
      <4>2. \A r \in Role : leaves[r][v] = 0
        BY <1>1, <3>2, <3>3, <3>5 DEF LeavesDuring
      <4> QED BY <1>1, <4>1, <4>2 DEF Base
    <3>6. CASE ops[x].user # v \/ ops[x].prot \notin {"JOIN", "QUIT"}
      <4>1. user_status'[v] = user_status[v] /\ tokens'[v] = tokens[v]
        BY <3>3, <3>6 DEF Complete, ProtOf
      <4>2. \A r \in Role : leaves[r][v] = Base(v)
        BY <3>2, <3>6 DEF LeavesDuring
      <4> QED BY <1>1, <3>2, <4>1, <4>2 DEF Base
    <3> QED BY <3>4, <3>5, <3>6
  <2> QED BY <2>1, <2>2, RequestDef
<1>6. \A y \in OpId : thread'[y] # "collect"
  BY <1>2, RequestDef
<1>7. LeavesOK'
  BY <1>5, <1>6 DEF LeavesOK
<1> QED BY <1>4, <1>7

LEMMA AgreeWorker ==
    ASSUME TypeOK, ReqOK, Core, PendingOK, Agree, NEW x \in Request, Worker(x)
    PROVE  Agree'
<1>0. RowsOK /\ PermittedOK /\ JobOK /\ LeavesOK
  BY DEF Agree
<1>1. /\ thread[x] # "none" /\ req' = req /\ Ended
      /\ \A y \in Request \ {x} : thread[y] = "none"
  <2>1. thread[x] # "none" /\ req' = req
    BY DEF Worker, MissingToken, Dispatch, DispatchFails, Complete, CollectError, CollectFails,
           CollectRaised, CrackFlag, CrackOp, CrackStatus, CrackLive, web
  <2>2. Ended
    BY DEF Worker, MissingToken, Dispatch, DispatchFails, Complete, WithDone, CollectError, CollectFails,
           CollectRaised, CrackFlag, CrackOp, CrackStatus, CrackLive, database, Final, Ended
  <2> QED BY <2>1, <2>2, OwnThread
<1>2. CASE Complete(x)
  BY <1>0, <1>2, CompleteRows, CompleteAgents DEF Agree
<1>3. CASE Dispatch(x) \/ DispatchFails(x)
  <2>1. RowsOK' /\ PermittedOK'
    BY <1>0, <1>1, <1>3, RowsEnded DEF Dispatch, DispatchFails, database
  <2> QED BY <1>0, <1>3, <2>1, DispatchAgents DEF Agree
<1>4. CASE CollectError(x) \/ CollectFails(x) \/ CollectRaised(x)
  <2>1. RowsOK' /\ PermittedOK'
    BY <1>0, <1>1, <1>4, RowsEnded DEF CollectError, CollectFails, CollectRaised, database
  <2>2. \A y \in Request : thread'[y] # "collect"
    BY <1>1, <1>4 DEF CollectError, CollectFails, CollectRaised, GoTo, TypeOK
  <2>3. StopCollecting /\ UNCHANGED <<user_status, tokens, leaves, pending>>
    BY <1>4 DEF CollectError, CollectFails, CollectRaised, database, hist
  <2> QED BY <1>0, <2>1, <2>2, <2>3, LeavesStop DEF Agree
<1>5. CASE MissingToken(x) \/ CrackFlag(x) \/ CrackOp(x) \/ CrackStatus(x) \/ CrackLive(x)
  <2>1. UNCHANGED <<user_status, tokens, leaves, pending, job, answer>>
    BY <1>5 DEF MissingToken, CrackFlag, CrackOp, CrackStatus, CrackLive, database, agents, hist
  <2>2. RowsOK' /\ PermittedOK'
    BY <1>0, <1>1, <2>1, RowsEnded
  <2>3. \A y \in Request : thread'[y] = "collect" <=> thread[y] = "collect"
    BY <1>1, <1>5 DEF MissingToken, CrackFlag, CrackOp, CrackStatus, CrackLive, GoTo, TypeOK
  <2>4. JobOK' /\ LeavesOK'
    BY <1>0, <1>1, <2>1, <2>3, EndedRows, LeavesQuiet
  <2> QED BY <2>2, <2>4 DEF Agree
<1> QED BY <1>2, <1>3, <1>4, <1>5 DEF Worker

\* The end of a protocol on an Agent, its error, or the Agent free again.
LEMMA AgreeAgent ==
    ASSUME TypeOK, ReqOK, Core, Agree, NEW r \in Role, Agent(r)
    PROVE  Agree'
<1>0. RowsOK /\ PermittedOK /\ JobOK /\ LeavesOK /\ job[r].req \in Request
  BY DEF Agree, TypeOK
<1>10. PICK y \in Request : y = job[r].req
  BY <1>0
<1>1. UNCHANGED <<ops, user_status, tokens, req, thread, pending>>
  BY DEF Agent, AgentDone, AgentError, AgentRelease, database, web, hist
<1>2. RowsOK' /\ PermittedOK'
  BY <1>0, <1>1, RowsEnded DEF Ended
<1>3. /\ job'[r].at # "running" /\ ~job'[r].live
      /\ \A s \in Role \ {r} : job'[s] = job[s] /\ answer'[s] = answer[s]
  <2>1. /\ [Idle EXCEPT !.at = "sent"].at = "sent" /\ ~[Idle EXCEPT !.at = "sent"].live
        /\ Idle.at = "idle" /\ ~Idle.live
    BY DEF Idle
  <2>2. /\ job'[r] \in {Idle, [Idle EXCEPT !.at = "sent"]}
        /\ \A s \in Role \ {r} : job'[s] = job[s] /\ answer'[s] = answer[s]
    BY DEF Agent, AgentDone, AgentError, AgentRelease, Sent, Event, TypeOK
  <2> QED BY <2>1, <2>2
<1>4. JobOK'
  BY <1>0, <1>1, <1>3 DEF JobOK
<1>5. \A x \in OpId : thread[x] = "collect" => \A z \in Request : thread[z] # "none" => z = x
  BY RequestDef DEF Core, ThreadOK
<1>6. /\ \A s \in Role \ {r} : leaves'[s] = leaves[s]
      /\ answer'[r] \in {answer[r], "DONE", "ERROR"}
      /\ ~job[r].live => answer'[r] = answer[r]
  BY DEF Agent, AgentDone, AgentError, AgentRelease, Sent, Event, Idle, TypeOK
<1>7. CASE AgentDone(r) /\ y \in OpId
  <2>1. y \in Unconfirmed /\ job[r].at = "running"
    BY <1>10, <1>0, <1>7, RequestDef DEF AgentDone, Unconfirmed, JobOK
  <2>2. ASSUME NEW x \in OpId, thread'[x] = "collect", Unconfirmed' = {x}, NEW u \in User
        PROVE  /\ tokens'[u] = IF user_status'[u] = "JOINED" THEN Role ELSE {}
               /\ \A s \in Role : leaves'[s][u] = LeavesDuring(x, s, u)'
    <3>1. x = y /\ thread[y] = "collect" /\ Unconfirmed = {x}
      BY <1>1, <2>1, <2>2 DEF Unconfirmed
    <3>2. job[r].live /\ answer[r] = "none" /\ answer'[r] = "DONE"
      BY <1>10, <1>0, <1>7, <2>1, <3>1 DEF JobOK, AgentDone, Event, TypeOK
    <3>3. Permitted(y)
      <4>1. Status(y) = "BUSY"
        BY <1>7, <3>1 DEF Core, ThreadOK
      <4> QED BY <1>0, <1>7, <4>1 DEF PermittedOK, WithStatus, Status
    <3>4. /\ tokens[u] = IF user_status[u] = "JOINED" THEN Role ELSE {}
          /\ \A s \in Role : leaves[s][u] = LeavesDuring(y, s, u)
      BY <1>0, <2>2, <3>1 DEF LeavesOK
    <3>5. leaves[r][u] = Base(u) /\ Base(u) \in {0, 1}
      BY <3>2, <3>4 DEF LeavesDuring, Base
    <3>6. leaves'[r][u] = LeavesDuring(y, r, u)'
      <4>1. /\ leaves \in [Role -> [User -> Nat]] /\ y # SyncReq
            /\ leaves' = IF ops[y].prot = "JOIN" THEN [leaves EXCEPT ![r][ops[y].user] = @ + 1]
                         ELSE IF ops[y].prot = "QUIT" THEN [leaves EXCEPT ![r][ops[y].user] = @ - 1]
                         ELSE leaves
        BY <1>10, <1>7, RequestDef DEF AgentDone, ProtOf, TypeOK
      <4>2. LeavesDuring(y, r, u)' =
                IF ops[y].user = u /\ ops[y].prot \in {"JOIN", "QUIT"}
                THEN (IF ops[y].prot = "JOIN" THEN 1 ELSE 0) ELSE Base(u)
        BY <1>1, <3>2, <4>1 DEF LeavesDuring, Base
      <4>3. CASE ops[y].user = u /\ ops[y].prot = "JOIN"
        <5>1. Base(u) = 0 /\ leaves'[r][u] = leaves[r][u] + 1
          BY <3>3, <4>1, <4>3 DEF Permitted, Base
        <5> QED BY <3>5, <4>2, <4>3, <5>1
      <4>4. CASE ops[y].user = u /\ ops[y].prot = "QUIT"
        <5>1. Base(u) = 1 /\ leaves'[r][u] = leaves[r][u] - 1
          BY <3>3, <4>1, <4>4 DEF Permitted, Base
        <5> QED BY <3>5, <4>2, <4>4, <5>1
      <4>5. CASE ops[y].user # u \/ ops[y].prot \notin {"JOIN", "QUIT"}
        <5>1. leaves'[r][u] = leaves[r][u]
          BY <4>1, <4>5
        <5> QED BY <3>5, <4>2, <4>5, <5>1
      <4> QED BY <4>3, <4>4, <4>5
    <3>7. \A s \in Role \ {r} : leaves'[s][u] = LeavesDuring(y, s, u)'
      BY <1>1, <1>3, <1>6, <3>4 DEF LeavesDuring, Base
    <3> QED BY <1>1, <3>1, <3>4, <3>6, <3>7
  <2>3. Unconfirmed' # {}
    BY <1>1, <2>1 DEF Unconfirmed
  <2>4. LeavesOK'
    BY <2>2, <2>3 DEF LeavesOK
  <2> QED BY <1>2, <1>4, <2>4 DEF Agree
<1>8. CASE ~(AgentDone(r) /\ y \in OpId)
  <2>1. leaves' = leaves
    BY <1>10, <1>0, <1>8, RequestDef DEF Agent, AgentDone, AgentError, AgentRelease, ProtOf
  <2>2. ASSUME NEW x \in OpId, thread'[x] = "collect", Unconfirmed' = {x}, NEW u \in User
        PROVE  /\ tokens'[u] = IF user_status'[u] = "JOINED" THEN Role ELSE {}
               /\ \A s \in Role : leaves'[s][u] = LeavesDuring(x, s, u)'
    <3>1. thread[x] = "collect" /\ Unconfirmed = {x}
      BY <1>1, <2>2 DEF Unconfirmed
    <3>2. answer'[r] = answer[r] \/ (answer[r] # "DONE" /\ answer'[r] # "DONE")
      <4>1. CASE ~job[r].live
        BY <1>6, <4>1
      <4>2. CASE job[r].live
        <5>1. thread[y] = "collect" /\ y = x /\ job[r].at = "running"
          BY <1>10, <1>0, <1>5, <3>1, <4>2 DEF JobOK
        <5>2. answer[r] # "DONE" /\ ~AgentDone(r)
          <6>1. answer[r] # "DONE"
            BY <1>0, <5>1 DEF JobOK
          <6>2. y \in OpId
            BY <5>1
          <6> QED BY <1>8, <6>1, <6>2
        <5>3. answer'[r] # "DONE"
          BY <5>2 DEF Agent, AgentError, AgentRelease, Event, TypeOK
        <5> QED BY <5>2, <5>3
      <4> QED BY <4>1, <4>2
    <3>3. \A s \in Role : LeavesDuring(x, s, u)' = LeavesDuring(x, s, u)
      BY <1>1, <1>3, <3>2 DEF LeavesDuring, Base
    <3> QED BY <1>0, <1>1, <2>1, <3>1, <3>3 DEF LeavesOK
  <2>3. LeavesOK'
    BY <1>0, <1>1, <2>1, <2>2 DEF LeavesOK, Unconfirmed, Base
  <2> QED BY <1>2, <1>4, <2>3 DEF Agree
<1> QED BY <1>7, <1>8

LEMMA AgreeRest == TypeOK /\ ReqOK /\ Core /\ Agree /\ Rest => Agree'
<1> SUFFICES ASSUME TypeOK, ReqOK, Core, Agree, Rest PROVE Agree'
  OBVIOUS
<1>0. RowsOK /\ PermittedOK /\ JobOK /\ LeavesOK
  BY DEF Agree
<1>1. ASSUME UNCHANGED <<user_status, tokens, leaves, pending, job, answer, req>>, Ended,
             \A x \in Request : thread'[x] = "collect" <=> thread[x] = "collect"
      PROVE  Agree'
  BY <1>0, <1>1, RowsEnded, EndedRows, LeavesQuiet DEF Agree
<1>2. ASSUME NEW c \in Conn, NEW u \in User \cup Querier, NEW p \in Prots(u), ReserveCheck(c, u, p)
      PROVE  Agree'
  <2>1. UNCHANGED <<user_status, tokens, leaves, pending, job, answer, ops, thread>>
    BY <1>2 DEF ReserveCheck, database, agents, hist
  <2>2. \A d \in Conn : req'[d].at \in WithOp => req'[d] = req[d]
    BY <1>2 DEF ReserveCheck, ReqOK, WithOp, Held
  <2>3. RowsOK' /\ PermittedOK'
    BY <1>0, <2>1, <2>2, RowsQuiet DEF Status
  <2> QED BY <1>0, <2>1, <2>3, LeavesQuiet DEF Agree
<1>3. ASSUME NEW o \in OpId, Poll(o) PROVE Agree'
  <2>1. PICK c \in Conn : ExecuteCheck(c, o)
    BY <1>3 DEF Poll
  <2>2. UNCHANGED <<user_status, tokens, leaves, pending, job, answer, ops, thread>>
    BY <2>1 DEF ExecuteCheck, database, agents, hist
  <2>3. /\ Status(o) \in Live /\ (Status(o) = "RESERVED" => Permitted(o))
        /\ req' = [req EXCEPT ![c] = [at |-> IF Status(o) = "RESERVED" THEN "enqueue" ELSE "locked",
                                      op |-> o]]
    BY <2>1 DEF ExecuteCheck, Precondition, Permitted
  <2>4. \A d \in Conn : req'[d] = req[d] \/ (req'[d].op = o /\ (req'[d].at = "enqueue" => Permitted(o)))
    BY <2>3 DEF ReqOK
  <2>5. RowsOK'
    <3>1. Status(o) # "NONE"
      BY <2>3 DEF Live
    <3> QED BY <1>0, <2>2, <2>4, <3>1 DEF RowsOK, WithStatus, Status, Client
  <2>6. PermittedOK'
    <3>1. \A p \in OpId : Permitted(p)' <=> Permitted(p)
      BY <2>2 DEF Permitted
    <3>2. \A d \in Conn : (req[d].at = "enqueue" /\ Status(req[d].op) = "RESERVED" => Permitted(req[d].op))'
      <4> SUFFICES ASSUME NEW d \in Conn, req'[d].at = "enqueue", ops'[req'[d].op].status = "RESERVED"
                   PROVE  Permitted(req[d].op)'
        BY DEF Status
      <4>1. CASE req'[d] = req[d]
        <5>1. req[d].op \in OpId /\ Permitted(req[d].op)
          BY <1>0, <2>2, <4>1, ReqType DEF PermittedOK, Status, WithOp
        <5> QED BY <2>2, <4>1, <5>1 DEF Permitted
      <4>2. CASE req'[d].op = o /\ Permitted(o)
        BY <2>2, <4>2 DEF Permitted
      <4> QED BY <2>4, <4>1, <4>2
    <3> QED BY <1>0, <2>2, <3>1, <3>2 DEF PermittedOK, WithStatus, Status
  <2> QED BY <1>0, <2>2, <2>5, <2>6, LeavesQuiet DEF Agree
<1>4. ASSUME NEW o \in OpId, Expire(o) \/ ClientDies(o) PROVE Agree'
  BY <1>1, <1>4 DEF Expire, ClientDies, database, agents, hist, web, Ended
<1>5. CASE CmdSync \/ SchedulerSkip \/ CmdStart \/ Start \/ UncertainStart
  <2>1. UNCHANGED <<user_status, tokens, leaves, pending, job, answer, req, thread>>
    BY <1>5 DEF CmdSync, SchedulerSkip, CmdStart, Start, UncertainStart, database, agents, hist, web
  <2>2. Ended
    BY <1>5 DEF CmdSync, SchedulerSkip, CmdStart, Start, UncertainStart, database, Ended, Final
  <2> QED BY <1>1, <2>1, <2>2
<1>6. CASE SchedulerStart
  <2>1. /\ UNCHANGED <<user_status, tokens, leaves, pending, job, answer, req, ops>>
        /\ thread[SyncReq] = "none" /\ GoTo(SyncReq, "run")
    BY <1>6 DEF SchedulerStart, MayStartSync, database, agents, hist, web
  <2>2. \A x \in Request : thread'[x] = "collect" <=> thread[x] = "collect"
    BY <2>1 DEF GoTo, TypeOK
  <2> QED BY <1>1, <2>1, <2>2 DEF Ended
<1>7. CASE Crash
  <2>1. /\ UNCHANGED <<user_status, tokens, leaves, pending, ops>> /\ StopCollecting
        /\ req' = [c \in Conn |-> NoReq] /\ thread' = [x \in Request |-> "none"]
    BY <1>7 DEF Crash, database
  <2>2. RowsOK' /\ PermittedOK'
    BY <1>0, <2>1, RowsQuiet DEF NoReq, Status, WithOp, Held
  <2> QED BY <1>0, <2>1, <2>2, LeavesStop DEF Agree
<1> QED BY <1>2, <1>3, <1>4, <1>5, <1>6, <1>7 DEF Rest

LEMMA AgreeKept == TypeOK /\ ReqOK /\ Core /\ PendingOK /\ Agree /\ [Next]_vars => Agree'
<1> SUFFICES ASSUME TypeOK, ReqOK, Core, PendingOK, Agree, [Next]_vars PROVE Agree'
  OBVIOUS
<1>1. CASE UNCHANGED vars
  <2>1. RowsOK' /\ PermittedOK'
    BY <1>1, RowsEnded DEF vars, database, web, Ended, Agree
  <2>2. JobOK' /\ LeavesOK'
    BY <1>1, LeavesQuiet DEF vars, database, agents, hist, Agree
  <2> QED BY <2>1, <2>2 DEF Agree
<1> QED BY <1>1, NextSplit, AgreeHandler, AgreeWorker, AgreeAgent, AgreeRest

-----------------------------------------------------------------------------
\* The invariant

LEMMA InitIInv == Init => IInv
<1> SUFFICES ASSUME Init PROVE IInv
  OBVIOUS
<1>1. /\ \A o \in OpId : ops[o] = NoOp /\ Status(o) = "NONE"
      /\ \A c \in Conn : req[c] = NoReq
      /\ \A x \in Request : thread[x] = "none"
      /\ \A r \in Role : job[r] = Idle
      /\ get_active = {} /\ pending = {} /\ arrival = <<>>
  BY DEF Init, NoOp, Status, get_active, WithStatus
<1>2. TypeOK
  <2>1. ops \in [OpId -> Row]
    BY DEF Init, NoOp, Row
  <2>2. user_status \in [User \cup Querier -> {"NOT_JOINED", "JOINED", "QUITTED", "ACTIVE"}]
        /\ tokens \in [User \cup Querier -> SUBSET Role] /\ leaves \in [Role -> [User -> Nat]]
    BY DEF Init
  <2>3. job \in [Role -> [at : {"idle", "running", "sent"}, req : Request, live : BOOLEAN]]
    BY RequestDef DEF Init, Idle
  <2>4. thread \in [Request -> Labels] /\ arrival \in Seq(OpId)
    BY <1>1 DEF Init, Labels
  <2>5. answer \in [Role -> {"none", "DONE", "ERROR"}]
    BY DEF Init
  <2>6. /\ task_status = "active" /\ proc = "down" /\ cracked = FALSE /\ available = TRUE
        /\ saw_available = FALSE
        /\ sync_queue = FALSE /\ lock = NoConn /\ expired = {} /\ dead = {} /\ pending = {}
        /\ forgotten = FALSE /\ fault = FALSE
    BY DEF Init
  <2> QED BY <2>1, <2>2, <2>3, <2>4, <2>5, <2>6 DEF TypeOK, Row, Client
<1>3. ReqOK /\ HeldOK /\ ThreadOK /\ OneActive /\ CrackOK /\ PendingOK /\ RecordOK
  BY <1>1, RequestDef DEF Init, ReqOK, HeldOK, ThreadOK, OneActive, CrackOK, PendingOK, RecordOK, NoReq, Held
<1>4. ArrivalOK /\ QueueIsFifo
  BY <1>1 DEF ArrivalOK, QueueIsFifo, Queued, WithStatus, Status
<1>5. RowsOK /\ PermittedOK
  BY <1>1 DEF RowsOK, PermittedOK, WithStatus, Status, Live, NoReq, WithOp, Held
<1>6. JobOK
  BY <1>1 DEF JobOK, Idle
<1>7. LeavesOK
  <2>1. \A u \in User : /\ tokens[u] = IF user_status[u] = "JOINED" THEN Role ELSE {}
                        /\ \A r \in Role : leaves[r][u] = Base(u)
    BY DEF Init, Base
  <2> QED BY <1>1, <2>1, RequestDef DEF LeavesOK
<1> QED BY <1>2, <1>3, <1>4, <1>5, <1>6, <1>7 DEF IInv

LEMMA NextIInv == IInv /\ [Next]_vars => IInv'
<1> SUFFICES ASSUME IInv, [Next]_vars PROVE IInv'
  OBVIOUS
<1>1. TypeOK /\ ReqOK /\ HeldOK /\ Core /\ Pend /\ PendingOK /\ Fifo /\ Agree
  BY DEF IInv, Core, Pend, Fifo, Agree
<1>2. TypeOK' /\ ReqOK'
  BY <1>1, TypeKept
<1>3. Core'
  BY <1>1, CoreKept
<1>4. Pend'
  BY <1>1, PendKept
<1>5. Fifo'
  BY <1>1, FifoKept
<1>6. Agree'
  BY <1>1, AgreeKept
<1> QED BY <1>2, <1>3, <1>4, <1>5, <1>6 DEF IInv, Core, Pend, Fifo, Agree

LEMMA SpecIInv == Spec => []IInv
  BY InitIInv, NextIInv, PTL DEF Spec

\* Rows, flags, handler and thread positions and the Agents keep their types, for any
\* number of clients, requests and crashes.
THEOREM TypeCorrect == Spec => []TypeOK
<1>1. IInv => TypeOK
  BY DEF IInv
<1> QED BY <1>1, SpecIInv, PTL

\* The handler that reserves ports (under self._lock), the operation thread and the
\* SYNC thread never use the management connections at the same time.
THEOREM OneRequestAtATime == Spec => []OneRequestOnTheWire
<1>1. IInv => OneRequestOnTheWire
  <2> SUFFICES ASSUME IInv PROVE OneRequestOnTheWire
    OBVIOUS
  <2>1. TypeOK /\ ReqOK /\ Core /\ HeldOK
    BY DEF IInv, Core
  <2>2. WireUsers = {} \/ \E w : WireUsers \subseteq {w}
    <3>1. CASE \E x \in Request : thread[x] # "none"
      <4>1. PICK x \in Request : thread[x] # "none"
        BY <3>1
      <4>2. WireUsers \subseteq {x}
        BY <2>1, <4>1, OwnThread DEF WireUsers, Held
      <4> QED BY <4>2
    <3>2. CASE \A x \in Request : thread[x] = "none"
      <4>1. WireUsers \subseteq {lock}
        BY <2>1, <3>2 DEF WireUsers, HeldOK, Held
      <4> QED BY <4>1
    <3> QED BY <3>1, <3>2
  <2>3. CASE WireUsers = {}
    BY <2>3, FS_EmptySet DEF OneRequestOnTheWire
  <2>4. ASSUME NEW w, WireUsers \subseteq {w} PROVE OneRequestOnTheWire
    <3>1. IsFiniteSet({w}) /\ Cardinality({w}) = 1
      BY FS_Singleton
    <3> QED BY <2>4, <3>1, FS_Subset DEF OneRequestOnTheWire
  <2> QED BY <2>2, <2>3, <2>4
<1> QED BY <1>1, SpecIInv, PTL

\* _try_activate, _start_execute and the scheduler never make a second operation active,
\* nor one next to a running SYNC.
THEOREM ActiveIsSingle == Spec => []SingleActive
<1>1. IInv => SingleActive
  <2> SUFFICES ASSUME IInv PROVE SingleActive
    OBVIOUS
  <2>1. TypeOK /\ ThreadOK /\ OneActive
    BY DEF IInv
  <2>2. Cardinality(get_active) <= 1
    <3>1. CASE get_active = {}
      BY <3>1, FS_EmptySet
    <3>2. ASSUME NEW w \in get_active PROVE Cardinality(get_active) <= 1
      <4>1. get_active = {w}
        BY <2>1, <3>2 DEF OneActive
      <4> QED BY <4>1, FS_Singleton
    <3> QED BY <3>1, <3>2
  <2>3. proc = "up" /\ ~cracked /\ thread[SyncReq] # "none" => get_active = {}
    BY <2>1, RequestDef DEF ThreadOK, TypeOK, Labels
  <2> QED BY <2>2, <2>3 DEF SingleActive
<1> QED BY <1>1, SpecIInv, PTL

\* queue_pos follows the order of enqueue_reserved through every promotion, eviction and
\* reorder_queue.
THEOREM QueueKeepsOrder == Spec => []QueueIsFifo
<1>1. IInv => QueueIsFifo
  BY DEF IInv
<1> QED BY <1>1, SpecIInv, PTL

\* Once every request sent is confirmed, each Agent has the leaves that the users and
\* user_agent_tokens tables say it has.
THEOREM AgentsAgree == Spec => []AgentsAgreeWithDb
<1>1. IInv => AgentsAgreeWithDb
  <2> SUFFICES ASSUME IInv, pending = {} PROVE AgentsAgreeWithDb
    BY DEF AgentsAgreeWithDb
  <2>1. Unconfirmed = {} /\ LeavesOK
    BY DEF Unconfirmed, IInv
  <2> QED BY <2>1 DEF LeavesOK, AgentsAgreeWithDb, Base
<1> QED BY <1>1, SpecIInv, PTL

\* task_status.json, the BUSY rows that the constructor looks for and the threads of
\* this process leave no request unaccounted for, outside the windows that Forget names.
THEOREM UncertaintyKept == Spec => []UncertaintyIsRemembered
<1>1. IInv => UncertaintyIsRemembered
  <2> SUFFICES ASSUME IInv, proc = "up", ~cracked, ~forgotten, NEW x \in pending
               PROVE  Remembered(x)
    BY DEF UncertaintyIsRemembered, Serving
  <2>1. Recorded(x) /\ task_status # "cracked"
    BY DEF IInv, RecordOK, CrackOK
  <2> QED BY <2>1 DEF Recorded, Remembered
<1> QED BY <1>1, SpecIInv, PTL

\* No EXECUTE and no SYNC is sent once _crack_task set the flag or the file says cracked.
THEOREM CrackIsFinal == Spec => CrackedStartsNothing
<1> DEFINE Quiet == (cracked \/ task_status = "cracked") /\ proc' # "down" => pending' \subseteq pending
<1>1. IInv /\ [Next]_vars => [Quiet]_vars
  <2> SUFFICES ASSUME IInv, Next, cracked \/ task_status = "cracked" PROVE pending' \subseteq pending
    OBVIOUS
  <2>1. ASSUME NEW x \in Request, Worker(x) PROVE pending' \subseteq pending
    <3>1. ~Dispatch(x) /\ ~DispatchFails(x)
      BY DEF Dispatch, DispatchFails, Serving, IInv, ThreadOK, CrackOK
    <3> QED BY <2>1, <3>1 DEF Worker, MissingToken, Complete, CollectError, CollectFails,
                              CollectRaised, CrackFlag, CrackOp, CrackStatus, CrackLive, hist
  <2>2. ASSUME NEW c \in Conn, Handler(c) PROVE pending' \subseteq pending
    BY <2>2, HandlerKeeps DEF IInv
  <2>3. ASSUME NEW r \in Role, Agent(r) PROVE pending' \subseteq pending
    BY <2>3 DEF Agent, AgentDone, AgentError, AgentRelease, hist
  <2>4. CASE Rest
    BY <2>4 DEF Rest, ReserveCheck, Poll, ExecuteCheck, Expire, ClientDies, CmdSync, SchedulerStart,
                SchedulerSkip, CmdStart, Start, UncertainStart, Crash, hist
  <2> QED BY <2>1, <2>2, <2>3, <2>4, NextSplit
<1> HIDE DEF Quiet
<1>2. Spec => [][Quiet]_vars
  BY <1>1, SpecIInv, PTL DEF Spec
<1> QED BY <1>2 DEF CrackedStartsNothing, Quiet

\* DONE, FAILED and REMOVED are final: no late thread, crack cleanup or reconciliation at
\* start writes such a row again.
THEOREM TerminalRowsStay == Spec => FinalIsFinal
<1> DEFINE Keeps == \A o \in OpId : Status(o) \in Final => Status(o)' = Status(o)
<1>1. IInv /\ [Next]_vars => [Keeps]_vars
  <2> SUFFICES ASSUME IInv, Next, NEW o \in OpId, Status(o) \in Final PROVE ops'[o].status = Status(o)
    BY DEF Status
  <2>0. TypeOK /\ ReqOK /\ Core /\ HeldOK
    BY DEF IInv, Core
  <2>1. ASSUME NEW x \in Request, Worker(x) PROVE ops'[o].status = Status(o)
    BY <2>0, <2>1, WorkerKeeps
  <2>2. ASSUME NEW c \in Conn, Handler(c) PROVE ops'[o].status = Status(o)
    BY <2>0, <2>2, HandlerKeeps
  <2>3. ASSUME NEW r \in Role, Agent(r) PROVE ops'[o].status = Status(o)
    BY <2>3 DEF Agent, AgentDone, AgentError, AgentRelease, database, Status
  <2>4. CASE Start
    BY <2>0, <2>4, OpsType, ActiveDef, SetFinalRows DEF Start, Final, Status
  <2>5. CASE Rest /\ ~Start
    BY <2>5 DEF Rest, ReserveCheck, Poll, ExecuteCheck, Expire, ClientDies, CmdSync, SchedulerStart,
                SchedulerSkip, CmdStart, UncertainStart, Crash, database, Status
  <2> QED BY <2>1, <2>2, <2>3, <2>4, <2>5, NextSplit
<1> HIDE DEF Keeps
<1>2. Spec => [][Keeps]_vars
  BY <1>1, SpecIInv, PTL DEF Spec
<1> QED BY <1>2 DEF FinalIsFinal, Keeps

=============================================================================
