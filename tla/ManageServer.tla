---------------------------- MODULE ManageServer ----------------------------
(***************************************************************************)
(* The Manage Server of the C3 application (application/manage_server):    *)
(* the operations and users tables of its database, the HTTP handlers that *)
(* reserve and poll operations, the queue with its leases, the threads     *)
(* that run a protocol or a SYNC on the three Agents, task_status.json and *)
(* the ways the process stops and starts again.  Of an Agent               *)
(* (application/agent_server) only the part the Manager talks to is here:  *)
(* the EXECUTE or SYNC it runs, its busy check and its terminal event.     *)
(*                                                                         *)
(* Steps are split where another thread or a crash can come in between:    *)
(* what a handler reads before it takes self._lock is a step of its own,   *)
(* and so is each commit to the database.  self._lock is modelled because  *)
(* _start_execute keeps it while it talks to the Agents.                   *)
(***************************************************************************)
EXTENDS Naturals, FiniteSets, Sequences

CONSTANTS
    User,       \* set holders (pretreat/set_holder_users.json)
    Querier,    \* queriers (pretreat/querier_users.json)
    Role,       \* the Agents: STEWARD, PEER0 and PEER1
    Conn,       \* HTTP requests served at the same time
    NoConn,     \* self._lock is free
    OddErrors,  \* TRUE: exceptions that no except clause names, and failing writes
    MaxOp,      \* bound on op_id (the code has none)
    MaxSync,    \* bound on the number of `ms sync` commands
    MaxCrash,   \* bound on the number of crashes of the Manager
    MaxDead     \* bound on the number of clients that stop polling

ASSUME BoundsAssumption == MaxOp \in Nat /\ MaxSync \in Nat /\ MaxCrash \in Nat /\ MaxDead \in Nat
ASSUME UsersAssumption == User \cap Querier = {}
ASSUME RolesAssumption == Role # {}
ASSUME ConnAssumption == NoConn \notin Conn
ASSUME ErrorsAssumption == OddErrors \in BOOLEAN

VARIABLES
    ops,            \* operations table: op_id -> status, user, prot, queue_pos
    user_status,    \* users table
    tokens,         \* user_agent_tokens table: user -> roles with a token
    task_status,    \* task_status.json
    proc,           \* the Manager process
    cracked,        \* self._task_cracked
    available,      \* self._agents_available
    saw_available,  \* _scheduler_loop, which waits for self._lock, read available
                    \* before a handler set it to FALSE
    lock,           \* the connection that holds self._lock
    req,            \* handler in progress on each connection
    thread,         \* _run_execute of each operation, _run_sync of the SYNC;
                    \* self._active_sync is set iff the latter is not "none"
    sync_queue,     \* self._sync_queue is not empty (it holds at most one)
    expired,        \* QUEUED operations whose lease has run out
    dead,           \* operations whose client no longer polls
    job,            \* what each Agent runs: self._exec_thread and its request
    answer,         \* the terminal event of each Agent for the current request
    leaves,         \* leaves each Agent holds for each user
    arrival,        \* history: operations in the order they entered the queue
    pending,        \* history: requests sent to an Agent and never confirmed
    forgotten,      \* history: such a request left no trace, see Forget
    fault,          \* history: an Agent, a connection, a disk or a process failed
    syncs, crashes  \* counters for the bounds

database == <<ops, user_status, tokens>>
web == <<lock, req>>
flags == <<proc, cracked, available, saw_available>>
clients == <<expired, dead>>
agents == <<job, answer, leaves>>
hist == <<arrival, pending, forgotten, fault>>
counters == <<syncs, crashes>>
vars == <<database, task_status, flags, web, thread, sync_queue, clients, agents, hist, counters>>

OpId == 1..MaxOp
SyncReq == 0                        \* the request of the one running SYNC
Request == OpId \cup {SyncReq}
NoReq == [at |-> "none"]
NoOp == [status |-> "NONE", user |-> "none", prot |-> "none", pos |-> 0]
Idle == [at |-> "idle", req |-> SyncReq, live |-> FALSE]

Prots(u) == IF u \in Querier THEN {"QUERY"} ELSE {"JOIN", "UPDATE", "QUIT"}

Live == {"RESERVED", "QUEUED", "ACTIVE", "BUSY"}
Final == {"DONE", "FAILED", "REMOVED"}

Status(o) == ops[o].status
WithStatus(S) == {o \in OpId : ops[o].status \in S}
Queued == WithStatus({"QUEUED"})
get_active == WithStatus({"ACTIVE", "BUSY"})

-----------------------------------------------------------------------------
\* Database operations (db.py), on a value f of the operations table.

\* Mutant of SetFinal: the row moves up in the queue instead of leaving it.
SetFinalShifts(f, S, st) ==
    [o \in OpId |-> IF o \in S THEN [f[o] EXCEPT !.status = st, !.pos = @ - 1] ELSE f[o]]

SetFinal(f, S, st) ==
    [o \in OpId |-> IF o \in S THEN [f[o] EXCEPT !.status = st, !.pos = 0] ELSE f[o]]

\* Keeps queue_pos, as update_operation(op_id, status) does.
KeepPos(f, o, st) == [f EXCEPT ![o].status = st]

\* Mutant of NextPos: the greatest queue_pos in use.
LastPos(f) ==
    LET used == {f[o].pos : o \in {p \in OpId : f[p].status \in {"QUEUED", "ACTIVE", "BUSY"}}}
    IN  CHOOSE m \in used \cup {0} : \A k \in used : k <= m

\* COALESCE(MAX(queue_pos), 0) + 1
NextPos(f) ==
    LET used == {f[o].pos : o \in {p \in OpId : f[p].status \in {"QUEUED", "ACTIVE", "BUSY"}}}
    IN  1 + (CHOOSE m \in used \cup {0} : \A k \in used : k <= m)

enqueue_reserved(f, o) == [f EXCEPT ![o].status = "QUEUED", ![o].pos = NextPos(f)]

\* reorder_queue: queue_pos of the QUEUED rows becomes 1..N in the same order.
reorder_queue(f) ==
    [o \in OpId |->
        IF f[o].status # "QUEUED" THEN f[o]
        ELSE [f[o] EXCEPT !.pos =
                Cardinality({p \in OpId : f[p].status = "QUEUED" /\ f[p].pos <= f[o].pos})]]

IsFirst(f, o) ==
    /\ f[o].status = "QUEUED"
    /\ \A p \in OpId : f[p].status = "QUEUED" => f[o].pos <= f[p].pos

\* Mutant of StaleHead: nothing is evicted.
NoStaleHead(stale) == {}

\* first_queued, if its lease has run out.
StaleHead(stale) == {o \in stale : IsFirst(ops, o)}

promote_first_queued(f, o) == reorder_queue(KeepPos(f, o, "ACTIVE"))

-----------------------------------------------------------------------------
\* /reserve_join, /reserve_update, /reserve_query, /reserve_quit

Serving == proc = "up"
LockFree == lock = NoConn

ReserveCheck(c, u, p) ==
    /\ Serving
    /\ req[c] = NoReq
    /\ ~cracked /\ available
    /\ req' = [req EXCEPT ![c] = [at |-> "reserve", user |-> u, prot |-> p]]
    /\ UNCHANGED <<database, task_status, flags, lock, thread, sync_queue, clients, agents,
                   hist, counters>>

\* get_live_operation
LiveOf(u, p) == {o \in WithStatus(Live) : ops[o].user = u /\ ops[o].prot = p}

\* create_reserved_operation, unless there is a live operation (ALREADY).  At the
\* bound on op_id the request ends without one.
ReserveCreate(c) ==
    LET r == req[c]
        live == LiveOf(r.user, r.prot)
        fresh == WithStatus({"NONE"})
    IN  /\ Serving
        /\ r.at = "reserve"
        /\ LockFree
        /\ req' = [req EXCEPT ![c] = NoReq]
        /\ \/ (live # {} \/ fresh = {}) /\ UNCHANGED ops
           \/ /\ live = {} /\ fresh # {}
              /\ ops' = [ops EXCEPT ![CHOOSE o \in fresh : \A n \in fresh : o <= n] =
                           [status |-> "RESERVED", user |-> r.user, prot |-> r.prot, pos |-> 0]]
        /\ UNCHANGED <<user_status, tokens, task_status, flags, lock, thread, sync_queue,
                       clients, agents, hist, counters>>

-----------------------------------------------------------------------------
\* /execute

\* Mutant of Precondition: a joined user may JOIN again.
PreconditionLetsRejoin(u, p) == p \in {"UPDATE", "QUIT"} => user_status[u] = "JOINED"

\* _check_biz_precondition
Precondition(u, p) ==
    /\ p = "JOIN" => user_status[u] # "JOINED"
    /\ p \in {"UPDATE", "QUIT"} => user_status[u] = "JOINED"

\* What the handler reads before it takes the lock.  A terminal operation, a
\* cracked task, unreachable Agents and a failed precondition end it here.
ExecuteCheck(c, o) ==
    /\ Serving
    /\ req[c] = NoReq
    /\ o \notin dead
    /\ Status(o) \in Live
    /\ ~cracked /\ available
    /\ Status(o) = "RESERVED" => Precondition(ops[o].user, ops[o].prot)
    /\ req' = [req EXCEPT ![c] =
                 [at |-> IF Status(o) = "RESERVED" THEN "enqueue" ELSE "locked", op |-> o]]
    /\ UNCHANGED <<database, task_status, flags, lock, thread, sync_queue, clients, agents,
                   hist, counters>>

\* Mutant of StillReserved: the row is not read again under the lock.
AssumedReserved(o) == TRUE

\* The row as read again under the lock.
StillReserved(o) == Status(o) = "RESERVED"

\* enqueue_reserved, unless the operation changed in the meantime.
ExecuteEnqueue(c) ==
    LET o == req[c].op
    IN  /\ Serving
        /\ req[c].at = "enqueue"
        /\ LockFree
        /\ req' = [req EXCEPT ![c].at = "locked"]
        /\ IF StillReserved(o)
           THEN ops' = enqueue_reserved(ops, o) /\ arrival' = Append(arrival, o)
           ELSE UNCHANGED <<ops, arrival>>
        /\ UNCHANGED <<user_status, tokens, task_status, flags, lock, thread, sync_queue,
                       clients, agents, pending, forgotten, fault, counters>>

EndRequest(c) == req' = [req EXCEPT ![c] = NoReq]

InCriticalSection(c) ==
    /\ Serving
    /\ req[c].at = "locked"
    /\ LockFree

\* TASK_CRACKED, AGENT_UNAVAILABLE, BUSY without agents, or a terminal state.
ExecuteAnswer(c) ==
    /\ InCriticalSection(c)
    /\ cracked \/ ~available \/ Status(req[c].op) \in {"BUSY"} \cup Final
    /\ EndRequest(c)
    /\ UNCHANGED <<database, task_status, flags, lock, thread, sync_queue, clients, agents,
                   hist, counters>>

\* Mutants of MayActivate: the database, or the SYNC, is not asked.
MayActivateNextToActive == ~sync_queue /\ thread[SyncReq] = "none"
MayActivateNextToSync == get_active = {}

\* _try_activate gets past the SYNC and the single-active check.
MayActivate == ~sync_queue /\ thread[SyncReq] = "none" /\ get_active = {}

\* The handler keeps the lock until it answers; Hold(c, at) moves it to its next commit.
Holding(c, at) == Serving /\ req[c].at = at
Hold(c, at) == req' = [req EXCEPT ![c].at = at] /\ lock' = c
LeaveLock(c) == EndRequest(c) /\ lock' = NoConn

\* touch_operation, with the step that follows it: it renews the lease, no more.
Touch(c) == expired \ IF req[c].at = "locked" THEN {req[c].op} ELSE {}

\* A QUEUED operation, under the lock.
TryActivate(c) ==
    /\ InCriticalSection(c)
    /\ ~cracked /\ available
    /\ Status(req[c].op) = "QUEUED"

\* WAITING: a SYNC or another operation goes first.
ExecuteWait(c) ==
    /\ TryActivate(c)
    /\ ~MayActivate
    /\ expired' = Touch(c)
    /\ EndRequest(c)
    /\ UNCHANGED <<database, task_status, flags, lock, thread, sync_queue, dead, agents,
                   hist, counters>>

\* _try_activate looks at the head of the queue, at once or after an eviction.
AtQueue(c) == (TryActivate(c) /\ MayActivate) \/ Holding(c, "evict")

\* _evict_stale_queue_heads, one head after the other.  remove_from_queue commits the
\* row before it renumbers the rest.
EvictHead(c) ==
    /\ AtQueue(c)
    /\ \E o \in StaleHead(expired \ {req[c].op}) :
          /\ ops' = SetFinal(ops, {o}, "REMOVED")
          /\ expired' = Touch(c) \ {o}
    /\ Hold(c, "reorder")
    /\ UNCHANGED <<user_status, tokens, task_status, flags, thread, sync_queue, dead, agents,
                   hist, counters>>

EvictReorder(c) ==
    /\ Holding(c, "reorder")
    /\ ops' = reorder_queue(ops)
    /\ Hold(c, "evict")
    /\ UNCHANGED <<user_status, tokens, task_status, flags, thread, sync_queue, clients,
                   agents, hist, counters>>

\* WAITING: another operation, not stale, is first.
KeepWaiting(c) ==
    /\ AtQueue(c)
    /\ StaleHead(expired \ {req[c].op}) = {}
    /\ ~IsFirst(ops, req[c].op)
    /\ expired' = Touch(c)
    /\ LeaveLock(c)
    /\ UNCHANGED <<database, task_status, flags, thread, sync_queue, dead, agents, hist,
                   counters>>

\* What _start_execute does first: a QUIT needs no ports.
StartsWith(o) == IF ops[o].prot = "QUIT" THEN "quit" ELSE "ports"

\* The operation at the head is promoted.
Promote(c) ==
    LET o == req[c].op
    IN  /\ AtQueue(c)
        /\ IsFirst(ops, o)
        /\ ops' = promote_first_queued(ops, o)
        /\ expired' = Touch(c)
        /\ Hold(c, StartsWith(o))
        /\ UNCHANGED <<user_status, tokens, task_status, flags, thread, sync_queue, dead,
                       agents, hist, counters>>

\* An operation an earlier handler left ACTIVE: _start_execute is tried again.
ExecuteRetryActive(c) ==
    /\ InCriticalSection(c)
    /\ ~cracked /\ available
    /\ Status(req[c].op) = "ACTIVE"
    /\ Hold(c, StartsWith(req[c].op))
    /\ UNCHANGED <<database, task_status, flags, thread, sync_queue, clients, agents, hist,
                   counters>>

\* BUSY is committed, the thread starts, and the lock is released.
Busy(c) ==
    /\ ops' = KeepPos(ops, req[c].op, "BUSY")
    /\ thread' = [thread EXCEPT ![req[c].op] = "run"]
    /\ LeaveLock(c)
    /\ UNCHANGED <<user_status, tokens, task_status, flags, sync_queue, clients, agents,
                   hist, counters>>

QuitBusy(c) == Holding(c, "quit") /\ Busy(c)

\* _reserve_ports returned a port of each Agent.  The response with the ports may
\* never reach the client.
PortsReserved(c) == Holding(c, "ports") /\ Busy(c)

\* _reserve_ports failed and ended with _reconnect_all.  The scheduler may have read
\* the flag before.
PortsFailed(c) ==
    /\ Holding(c, "ports")
    /\ ops' = SetFinal(ops, {req[c].op}, "FAILED")
    /\ available' \in BOOLEAN
    /\ saw_available' \in IF available' THEN {FALSE} ELSE BOOLEAN
    /\ fault' = TRUE
    /\ LeaveLock(c)
    /\ UNCHANGED <<user_status, tokens, task_status, proc, cracked, thread, sync_queue,
                   clients, agents, arrival, pending, forgotten, counters>>

\* A commit failed, or recv raised what _reserve_ports does not catch (an OSError that
\* is neither a ConnectionError nor a timeout): the row stays as it is, QUEUED, not
\* renumbered, or ACTIVE.
HandlerRaised(c) ==
    /\ Serving
    /\ OddErrors
    /\ req[c].at \in {"evict", "reorder", "quit", "ports"}
    /\ fault' = TRUE
    /\ LeaveLock(c)
    /\ UNCHANGED <<database, task_status, flags, thread, sync_queue, clients, agents,
                   arrival, pending, forgotten, counters>>

-----------------------------------------------------------------------------
\* _run_execute of operation x, and _run_sync (x = SyncReq)

GoTo(x, label) == thread' = [thread EXCEPT ![x] = label]

\* The thread reads no more events of its request.
StopCollecting ==
    /\ answer' = [r \in Role |-> "none"]
    /\ job' = [r \in Role |-> [job[r] EXCEPT !.live = FALSE]]

ProtOf(x) == IF x = SyncReq THEN "SYNC" ELSE ops[x].prot
NeedsToken(x) == ProtOf(x) \in {"UPDATE", "QUIT"}

\* get_agent_token found none for some role: nothing was sent, no crack.
MissingToken(x) ==
    /\ Serving
    /\ thread[x] = "run"
    /\ NeedsToken(x) /\ tokens[ops[x].user] # Role
    /\ ops' = SetFinal(ops, {x}, "FAILED")
    /\ GoTo(x, "none")
    /\ UNCHANGED <<user_status, tokens, task_status, flags, web, sync_queue, clients, agents,
                   hist, counters>>

\* The Agents in S receive the EXECUTE or SYNC: a busy one answers ERROR.
Deliver(x, S) ==
    /\ job' = [r \in Role |->
                 IF r \in S /\ job[r].at = "idle"
                 THEN [at |-> "running", req |-> x, live |-> S = Role] ELSE job[r]]
    /\ answer' = [r \in Role |-> IF r \in S /\ job[r].at # "idle" THEN "ERROR" ELSE "none"]
    /\ pending' = pending \cup (IF S = {} THEN {} ELSE {x})

Dispatch(x) ==
    /\ Serving
    /\ thread[x] = "run"
    /\ NeedsToken(x) => tokens[ops[x].user] = Role
    /\ Deliver(x, Role)
    /\ GoTo(x, "collect")
    /\ UNCHANGED <<database, task_status, flags, web, sync_queue, clients, leaves, arrival,
                   forgotten, fault, counters>>

\* send raised for a role, after the roles before it got the message.  Which of
\* the Agents these are makes no difference here.
DispatchFails(x) ==
    /\ Serving
    /\ thread[x] = "run"
    /\ NeedsToken(x) => tokens[ops[x].user] = Role
    /\ \E S \in SUBSET Role : S # Role /\ Deliver(x, S)
    /\ GoTo(x, "crack_flag")
    /\ fault' = TRUE
    /\ UNCHANGED <<database, task_status, flags, web, sync_queue, clients, leaves, arrival,
                   forgotten, counters>>

\* Mutant of WithDone: only JOIN and QUIT commit a DONE row.
WithDoneIfMembership(x) ==
    IF ProtOf(x) \in {"JOIN", "QUIT"} THEN SetFinal(ops, {x}, "DONE") ELSE ops

\* The row of a completed operation; a SYNC has none.
WithDone(x) == IF x = SyncReq THEN ops ELSE SetFinal(ops, {x}, "DONE")

\* All three READY and DONE: complete_join, complete_quit, or DONE alone.
Complete(x) ==
    LET p == ProtOf(x)
        u == ops[x].user
    IN  /\ Serving
        /\ thread[x] = "collect"
        /\ \A r \in Role : answer[r] = "DONE"
        /\ pending' = pending \ {x}
        /\ ops' = WithDone(x)
        /\ user_status' = IF p = "JOIN" THEN [user_status EXCEPT ![u] = "JOINED"]
                          ELSE IF p = "QUIT" THEN [user_status EXCEPT ![u] = "QUITTED"]
                          ELSE user_status
        /\ tokens' = IF p = "JOIN" THEN [tokens EXCEPT ![u] = Role]
                     ELSE IF p = "QUIT" THEN [tokens EXCEPT ![u] = {}]
                     ELSE tokens
        /\ StopCollecting
        /\ GoTo(x, "none")
        /\ UNCHANGED <<task_status, flags, web, sync_queue, clients, leaves, arrival,
                       forgotten, fault, counters>>

\* An ERROR where READY or DONE was expected.
CollectError(x) ==
    /\ Serving
    /\ thread[x] = "collect"
    /\ \E r \in Role : answer[r] = "ERROR"
    /\ StopCollecting
    /\ GoTo(x, "crack_flag")
    /\ UNCHANGED <<database, task_status, flags, web, sync_queue, clients, leaves, hist,
                   counters>>

\* A deadline passed, a connection broke, or the commit of an operation failed.
CollectFails(x) ==
    /\ Serving
    /\ thread[x] = "collect"
    /\ StopCollecting
    /\ GoTo(x, "crack_flag")
    /\ fault' = TRUE
    /\ UNCHANGED <<database, task_status, flags, web, sync_queue, clients, leaves, arrival,
                   pending, forgotten, counters>>

\* recv raised what the loops do not catch: the thread ends.  An operation
\* stays BUSY; a SYNC ends like a finished one (the finally clause).
CollectRaised(x) ==
    /\ Serving
    /\ OddErrors
    /\ thread[x] = "collect"
    /\ StopCollecting
    /\ GoTo(x, "none")
    /\ fault' = TRUE
    /\ forgotten' = (forgotten \/ x = SyncReq)
    /\ UNCHANGED <<database, task_status, flags, web, sync_queue, clients, leaves, arrival,
                   pending, counters>>

-----------------------------------------------------------------------------
\* _crack_task.  A failing write is logged and skipped.

CrackFlag(x) ==
    /\ Serving
    /\ thread[x] = "crack_flag"
    /\ LockFree
    /\ cracked' = TRUE
    /\ GoTo(x, IF x = SyncReq THEN "crack_status" ELSE "crack_op")
    /\ UNCHANGED <<database, task_status, proc, available, saw_available, web, sync_queue,
                   clients, agents, hist, counters>>

CrackOp(x) ==
    /\ Serving
    /\ thread[x] = "crack_op"
    /\ \/ ops' = SetFinal(ops, {x}, "FAILED")
       \/ OddErrors /\ UNCHANGED ops
    /\ GoTo(x, "crack_status")
    /\ UNCHANGED <<user_status, tokens, task_status, flags, web, sync_queue, clients, agents,
                   hist, counters>>

CrackStatus(x) ==
    /\ Serving
    /\ thread[x] = "crack_status"
    /\ \/ task_status' = "cracked" /\ UNCHANGED forgotten
       \/ OddErrors /\ forgotten' = TRUE /\ UNCHANGED task_status
    /\ GoTo(x, "crack_live")
    /\ UNCHANGED <<database, flags, web, sync_queue, clients, agents, arrival, pending, fault,
                   counters>>

CrackLive(x) ==
    /\ Serving
    /\ thread[x] = "crack_live"
    /\ \/ ops' = SetFinal(ops, WithStatus(Live), "FAILED") /\ expired' = {}
       \/ OddErrors /\ UNCHANGED <<ops, expired>>
    /\ GoTo(x, "none")
    /\ UNCHANGED <<user_status, tokens, task_status, flags, web, sync_queue, dead, agents,
                   hist, counters>>

-----------------------------------------------------------------------------
\* The control panel and _scheduler_loop

CmdSync ==
    /\ Serving
    /\ syncs < MaxSync
    /\ ~cracked
    /\ ~sync_queue /\ thread[SyncReq] = "none"
    /\ sync_queue' = TRUE
    /\ syncs' = syncs + 1
    /\ UNCHANGED <<database, task_status, flags, web, thread, clients, agents, hist, crashes>>

\* _scheduler_loop reads _agents_available before it takes the lock, and the rest
\* again or only under the lock.
MayStartSync == ~cracked /\ get_active = {} /\ thread[SyncReq] = "none" /\ sync_queue

SchedulerStart ==
    /\ Serving
    /\ available \/ saw_available
    /\ LockFree
    /\ MayStartSync
    /\ sync_queue' = FALSE
    /\ saw_available' = FALSE
    /\ GoTo(SyncReq, "run")
    /\ UNCHANGED <<database, task_status, proc, cracked, available, web, clients, agents, hist,
                   counters>>

\* The pass that read the flag too early finds nothing to start.
SchedulerSkip ==
    /\ Serving
    /\ saw_available
    /\ LockFree
    /\ ~MayStartSync
    /\ saw_available' = FALSE
    /\ UNCHANGED <<database, task_status, proc, cracked, available, web, thread, sync_queue,
                   clients, agents, hist, counters>>

\* `ms start`: connect to the Agents, then serve.
CmdStart ==
    /\ proc = "panel"
    /\ proc' = "up"
    /\ available' \in BOOLEAN
    /\ UNCHANGED <<database, task_status, cracked, saw_available, web, thread, sync_queue,
                   clients, agents, hist, counters>>

\* Mutant of check_task_status: run.py starts whatever the file says.
CheckNothing == TRUE

check_task_status == task_status = "active"

\* Mutant of had_busy: the row that makes a restart uncertain is the wrong one.
HadActive == WithStatus({"ACTIVE"}) # {}

had_busy == WithStatus({"BUSY"}) # {}

\* run.py starts the Manager only while the task is active; the constructor
\* fails what a previous process left ACTIVE or BUSY.
Start ==
    /\ proc = "down"
    /\ check_task_status
    /\ proc' = IF had_busy THEN "uncertain" ELSE "panel"
    /\ ops' = SetFinal(ops, get_active, "FAILED")
    /\ UNCHANGED <<user_status, tokens, task_status, cracked, available, saw_available, web,
                   thread, sync_queue, clients, agents, hist, counters>>

\* A BUSY operation was found: the task is cracked and the constructor raises.
UncertainStart ==
    /\ proc = "uncertain"
    /\ task_status' = "cracked"
    /\ proc' = "down"
    /\ UNCHANGED <<database, cracked, available, saw_available, web, thread, sync_queue,
                   clients, agents, hist, counters>>

\* A stop now leaves an unconfirmed request that no later start will notice:
\* the operation is FAILED already but task_status.json is not written yet, or
\* the request is a SYNC, which no table records.
Forget ==
    \/ proc = "uncertain"
    \/ \E o \in OpId : thread[o] = "crack_status" /\ Status(o) = "FAILED"
    \/ thread[SyncReq] \in {"collect", "crack_flag", "crack_status"} /\ SyncReq \in pending

\* The process is killed, or `ms exit`.
Crash ==
    /\ proc # "down"
    /\ crashes < MaxCrash
    /\ crashes' = crashes + 1
    /\ proc' = "down"
    /\ cracked' = FALSE
    /\ available' = TRUE
    /\ saw_available' = FALSE
    /\ lock' = NoConn
    /\ req' = [c \in Conn |-> NoReq]
    /\ thread' = [x \in Request |-> "none"]
    /\ sync_queue' = FALSE
    /\ StopCollecting
    /\ forgotten' = (forgotten \/ Forget)
    /\ fault' = TRUE
    /\ UNCHANGED <<database, task_status, clients, leaves, arrival, pending, syncs>>

-----------------------------------------------------------------------------
\* The Agents.  An event is dropped by the Agent when the Manager session of its
\* request is over, and skipped by the Manager when nobody collects the request.

Event(r, ev) == answer' = IF job[r].live THEN [answer EXCEPT ![r] = ev] ELSE answer

\* The events are sent before the finally clause frees _exec_thread.
Sent(r) == job' = [job EXCEPT ![r] = [Idle EXCEPT !.at = "sent"]]

HasLeaf(r, u) == leaves[r][u] > 0

\* The protocol ran to its end on this Agent; UPDATE and QUIT need the leaf.
AgentDone(r) ==
    LET x == job[r].req
        p == ProtOf(x)
        u == ops[x].user
    IN  /\ job[r].at = "running"
        /\ p \in {"UPDATE", "QUIT"} => HasLeaf(r, u)
        /\ leaves' = IF p = "JOIN" THEN [leaves EXCEPT ![r][u] = @ + 1]
                     ELSE IF p = "QUIT" THEN [leaves EXCEPT ![r][u] = @ - 1]
                     ELSE leaves
        /\ Event(r, "DONE")
        /\ Sent(r)
        /\ UNCHANGED <<database, task_status, flags, web, thread, sync_queue, clients, hist,
                       counters>>

\* The client did not connect in time, a channel broke, the cache raised, or
\* the token is unknown.
AgentError(r) ==
    /\ job[r].at = "running"
    /\ Event(r, "ERROR")
    /\ Sent(r)
    /\ fault' = TRUE
    /\ UNCHANGED <<database, task_status, flags, web, thread, sync_queue, clients, leaves,
                   arrival, pending, forgotten, counters>>

AgentRelease(r) ==
    /\ job[r].at = "sent"
    /\ job' = [job EXCEPT ![r] = Idle]
    /\ UNCHANGED <<database, task_status, flags, web, thread, sync_queue, clients, answer,
                   leaves, hist, counters>>

-----------------------------------------------------------------------------
\* Clients and clocks

\* queue_lease_timeout passed since the last poll.
Expire(o) ==
    /\ Status(o) = "QUEUED"
    /\ expired' = expired \cup {o}
    /\ UNCHANGED <<database, task_status, flags, web, thread, sync_queue, dead, agents, hist,
                   counters>>

\* The client stops polling a waiting operation for good.
ClientDies(o) ==
    /\ Cardinality(dead) < MaxDead
    /\ Status(o) = "QUEUED"
    /\ dead' = dead \cup {o}
    /\ UNCHANGED <<database, task_status, flags, web, thread, sync_queue, expired, agents,
                   hist, counters>>

-----------------------------------------------------------------------------
\* A prepared task: fresh from pretreat (nobody joined), or stopped in good order
\* after some users had joined.
Init ==
    /\ ops = [o \in OpId |-> NoOp]
    /\ \E joined \in SUBSET User :
          /\ user_status = [u \in User \cup Querier |->
                IF u \in joined THEN "JOINED" ELSE IF u \in User THEN "NOT_JOINED" ELSE "ACTIVE"]
          /\ tokens = [u \in User \cup Querier |-> IF u \in joined THEN Role ELSE {}]
          /\ leaves = [r \in Role |-> [u \in User |-> IF u \in joined THEN 1 ELSE 0]]
    /\ task_status = "active"
    /\ proc = "down" /\ cracked = FALSE /\ available = TRUE /\ saw_available = FALSE
    /\ lock = NoConn /\ req = [c \in Conn |-> NoReq]
    /\ thread = [x \in Request |-> "none"]
    /\ sync_queue = FALSE
    /\ expired = {} /\ dead = {}
    /\ job = [r \in Role |-> Idle]
    /\ answer = [r \in Role |-> "none"]
    /\ arrival = <<>> /\ pending = {} /\ forgotten = FALSE /\ fault = FALSE
    /\ syncs = 0 /\ crashes = 0

Handler(c) ==
    \/ ReserveCreate(c)
    \/ ExecuteEnqueue(c)
    \/ ExecuteAnswer(c)
    \/ ExecuteWait(c)
    \/ EvictHead(c)
    \/ EvictReorder(c)
    \/ KeepWaiting(c)
    \/ Promote(c)
    \/ ExecuteRetryActive(c)
    \/ QuitBusy(c)
    \/ PortsReserved(c)
    \/ PortsFailed(c)
    \/ HandlerRaised(c)

Worker(x) ==
    \/ MissingToken(x)
    \/ Dispatch(x)
    \/ DispatchFails(x)
    \/ Complete(x)
    \/ CollectError(x)
    \/ CollectFails(x)
    \/ CollectRaised(x)
    \/ CrackFlag(x)
    \/ CrackOp(x)
    \/ CrackStatus(x)
    \/ CrackLive(x)

Agent(r) == AgentDone(r) \/ AgentError(r) \/ AgentRelease(r)

Poll(o) == \E c \in Conn : ExecuteCheck(c, o)

Next ==
    \/ \E c \in Conn, u \in User \cup Querier : \E p \in Prots(u) : ReserveCheck(c, u, p)
    \/ \E o \in OpId : Poll(o) \/ Expire(o) \/ ClientDies(o)
    \/ \E c \in Conn : Handler(c)
    \/ \E x \in Request : Worker(x)
    \/ \E r \in Role : Agent(r)
    \/ CmdSync \/ SchedulerStart \/ SchedulerSkip \/ CmdStart
    \/ Start \/ UncertainStart \/ Crash

Spec == Init /\ [][Next]_vars

\* What runs: the operator starts the Manager once; server threads and workers
\* get self._lock and the CPU in the end; every loop of a worker has a deadline;
\* the scheduler polls; the client of a live operation polls again; the lease of
\* one that stopped runs out.  Nothing is assumed of the Agents.
Fairness ==
    /\ WF_vars(Start \/ CmdStart)
    /\ WF_vars(\E o \in dead : Expire(o))
    /\ SF_vars(SchedulerStart)
    /\ SF_vars(\E x \in Request : Worker(x))
    /\ \A c \in Conn : SF_vars(Handler(c))
    /\ \A o \in OpId : SF_vars(Poll(o))

FairSpec == Spec /\ Fairness

-----------------------------------------------------------------------------
\* Properties

Labels == {"none", "run", "collect", "crack_flag", "crack_op", "crack_status", "crack_live"}

\* Every variable has its type: rows, flags, handler and thread positions, Agents.
TypeOK ==
    /\ ops \in [OpId -> [status : Live \cup Final \cup {"NONE"},
                         user : User \cup Querier \cup {"none"},
                         prot : {"JOIN", "UPDATE", "QUIT", "QUERY", "none"}, pos : Nat]]
    /\ user_status \in [User \cup Querier -> {"NOT_JOINED", "JOINED", "QUITTED", "ACTIVE"}]
    /\ tokens \in [User \cup Querier -> SUBSET Role]
    /\ task_status \in {"active", "cracked"}
    /\ proc \in {"down", "uncertain", "panel", "up"}
    /\ cracked \in BOOLEAN /\ available \in BOOLEAN /\ saw_available \in BOOLEAN
    /\ sync_queue \in BOOLEAN
    /\ lock \in Conn \cup {NoConn}
    /\ thread \in [Request -> Labels]
    /\ expired \subseteq OpId /\ dead \subseteq OpId /\ pending \subseteq Request
    /\ job \in [Role -> [at : {"idle", "running", "sent"}, req : Request, live : BOOLEAN]]
    /\ answer \in [Role -> {"none", "DONE", "ERROR"}]
    /\ leaves \in [Role -> [User -> Nat]]
    /\ arrival \in Seq(OpId)
    /\ forgotten \in BOOLEAN /\ fault \in BOOLEAN

\* Who is using the three management connections: a handler that reserves ports,
\* or a thread that dispatches or collects.
WireUsers ==
    {c \in Conn : req[c].at = "ports"}
        \cup {x \in Request : thread[x] \in {"run", "collect"}}

\* The connections carry one request at a time, whatever the handlers, the
\* operation threads, the scheduler and the operator do concurrently: READY, DONE
\* and ERROR lines of two requests never mix on a socket (AgentManager has no lock).
OneRequestOnTheWire == Cardinality(WireUsers) <= 1

\* At most one operation is ACTIVE or BUSY, and none while a SYNC is running;
\* sync_queue and _active_sync are guarded by another lock than the database.
SingleActive ==
    /\ Cardinality(get_active) <= 1
    /\ proc = "up" /\ ~cracked /\ thread[SyncReq] # "none" => get_active = {}

\* The waiting operations are numbered in the order they entered the queue,
\* through promotions, evictions and the renumbering both do.
QueueIsFifo ==
    \A i, j \in 1..Len(arrival) :
        i < j /\ arrival[i] \in Queued /\ arrival[j] \in Queued
            => ops[arrival[i]].pos < ops[arrival[j]].pos

\* Once every request sent has been confirmed by all three Agents, each Agent
\* holds exactly one leaf of every JOINED user and none of anybody else, and the
\* database has the token of each.  No order of JOIN, UPDATE and QUIT, no stale
\* precondition and no restart joins a user twice or leaves a leaf behind.
AgentsAgreeWithDb ==
    pending = {} =>
        \A u \in User :
            LET joined == user_status[u] = "JOINED"
            IN  /\ tokens[u] = IF joined THEN Role ELSE {}
                /\ \A r \in Role : leaves[r][u] = IF joined THEN 1 ELSE 0

\* Somebody still answers for request x: its thread, or the BUSY row that the
\* next start finds.
Remembered(x) == thread[x] # "none" \/ (x # SyncReq /\ Status(x) = "BUSY")

\* A Manager that serves never forgets a request whose outcome it does not know,
\* except in the windows of Forget, CollectRaised and CrackStatus.
UncertaintyIsRemembered ==
    Serving /\ ~cracked /\ ~forgotten => \A x \in pending : Remembered(x)

\* A cracked task runs nothing any more, in this process or a later one: no
\* EXECUTE and no SYNC is sent after the flag is set or the file is written.
CrackedStartsNothing ==
    [][(cracked \/ task_status = "cracked") /\ proc' # "down" => pending' \subseteq pending]_vars

\* A terminal status is final, and an operation is never queued twice: whatever
\* late threads, crack cleanups and reconciliation write.
FinalIsFinal ==
    [][\A o \in OpId : Status(o) \in Final => Status(o)' = Status(o)]_vars

\* An operation whose client keeps polling leaves the queue, even behind clients
\* that died, a SYNC or a crack, unless the Agents became unreachable.
QueuedIsServed ==
    \A o \in OpId :
        Status(o) = "QUEUED" /\ o \notin dead
            ~> (Status(o) # "QUEUED" \/ o \in dead \/ ~available)

\* A SYNC that was accepted runs, ahead of the waiting operations, unless the task
\* is cracked or the Agents became unreachable.
SyncRunsOrBlocked ==
    sync_queue ~> (thread[SyncReq] # "none" \/ cracked \/ ~available)

\* Only a failure cracks the task: an Agent answers "busy" to a request only
\* while another protocol is executing on it.
OnlyFaultsCrack == cracked => fault

\* As UncertaintyIsRemembered, without the exception.
NoUncertaintyForgotten ==
    Serving /\ ~cracked => \A x \in pending : Remembered(x)

=============================================================================
