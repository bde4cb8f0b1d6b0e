---------------------------- MODULE AgentSession ----------------------------
(***************************************************************************)
(* The management connection between the Manager and one Agent             *)
(* (application/agent_server/app.py; the Manager's end is AgentManager,    *)
(* _reserve_ports, _run_execute and _run_sync of                           *)
(* application/manage_server/app.py).  The Agent accepts one connection    *)
(* after another; each accepted connection is a session with a generation  *)
(* number, and every command runs in a thread that may outlive its         *)
(* session.                                                                *)
(*                                                                         *)
(* What happens at the other two Agents is visible only as a failure that  *)
(* the Manager may meet at any time.  A port is named by the worker that   *)
(* bound it.  QUIT, an EXECUTE without reservation, behaves like SYNC.     *)
(***************************************************************************)
EXTENDS Naturals, Sequences

CONSTANTS
    Key,            \* user_id || prot_type
    None,
    MaxConnection,  \* connections the Managers make
    MaxCommand      \* commands they send

ASSUME SessionAssumption ==
    MaxConnection \in Nat /\ MaxCommand \in Nat /\ None \notin Key \cup Nat \cup {"READY"}

VARIABLES
    \* the Manager
    state,          \* position in _reserve_ports, _run_execute or _run_sync
    link,           \* its connection to this Agent
    _req_counter,
    key,            \* user and protocol of the operation in progress
    announced,      \* ports[role] of that operation, given to its client
    fresh,          \* every answer it took came from its own session (history)
    \* the network
    connections,    \* number of connections made so far
    backlog,        \* connected, not yet accepted
    closed,         \* connections the Manager's end has closed
    commands,       \* Manager to Agent, per connection
    events,         \* Agent to Manager, per connection
    \* the Agent
    main,           \* position of its main thread
    _conn, _generation, _reserved, _exec_thread,
    worker,         \* the command threads, in order of their start
    sender          \* holder of _send_lock between the check and sendall

manager == <<state, link, _req_counter, key, announced, fresh>>
network == <<connections, backlog, closed, commands, events>>
agent == <<main, _conn, _generation, _reserved, _exec_thread, worker, sender>>
vars == <<manager, network, agent>>

Connection == 1..MaxConnection
Workers == DOMAIN worker

-----------------------------------------------------------------------------
\* The Manager

\* The Manager's end is closed and what had arrived there is gone.
Close ==
    /\ closed' = closed \cup ({link} \ {None})
    /\ events' = [c \in Connection |-> IF c = link THEN <<>> ELSE events[c]]

\* _connect: the old connection is closed; the new one waits to be accepted.
Connect ==
    /\ connections < MaxConnection
    /\ connections' = connections + 1
    /\ link' = connections + 1
    /\ backlog' = Append(backlog, connections + 1)
    /\ Close
    /\ UNCHANGED commands

CmdStart ==
    /\ state = "down"
    /\ Connect
    /\ state' = "idle"
    /\ UNCHANGED <<_req_counter, key, announced, fresh, agent>>

\* A command is sent under the next request id.
Issue(cmd, k, next) ==
    /\ Len(worker) + Len(commands[link]) < MaxCommand
    /\ _req_counter' = _req_counter + 1
    /\ commands' = [commands EXCEPT ![link] =
                       Append(@, [cmd |-> cmd, key |-> k, rid |-> _req_counter + 1])]
    /\ state' = next
    /\ UNCHANGED <<link, fresh, connections, backlog, closed, events, agent>>

Reserve(k) ==
    /\ state = "idle"
    /\ Issue("RESERVE", k, "reserve_ready")
    /\ key' = k
    /\ UNCHANGED announced

Execute ==
    /\ state = "reserved"
    /\ Issue("EXECUTE", key, "execute_ready")
    /\ UNCHANGED <<key, announced>>

Sync ==
    /\ state = "idle"
    /\ Issue("SYNC", None, "sync_ready")
    /\ UNCHANGED <<key, announced>>

\* The preflight of _run_execute finds no token: nothing is sent.
MissingToken ==
    /\ state = "reserved"
    /\ state' = "idle"
    /\ announced' = None
    /\ UNCHANGED <<link, _req_counter, key, fresh, network, agent>>

Incoming == events[link]
Take == events' = [events EXCEPT ![link] = Tail(@)]
Answer(e, names) == e.rid = _req_counter /\ e.event \in names

Waiting == {"reserve_ready", "execute_ready", "sync_ready"}
Acknowledged(s) == CASE s = "reserve_ready" -> "reserve_result"
                     [] s = "execute_ready" -> "execute_result"
                     [] s = "sync_ready" -> "sync_result"

\* A line with another request id is discarded.  _reserve_ports does not do so
\* when it reads the second line.
SkipStale ==
    /\ state \in Waiting \cup {"execute_result", "sync_result"}
    /\ Incoming # <<>>
    /\ Head(Incoming).rid # _req_counter
    /\ Take
    /\ UNCHANGED <<manager, connections, backlog, closed, commands, agent>>

RecvReady ==
    /\ state \in Waiting
    /\ Incoming # <<>>
    /\ Answer(Head(Incoming), {"READY"})
    /\ Take
    /\ state' = Acknowledged(state)
    /\ UNCHANGED <<link, _req_counter, key, announced, fresh, connections, backlog, closed, commands, agent>>

RecvReserved ==
    /\ state = "reserve_result"
    /\ Incoming # <<>>
    /\ Answer(Head(Incoming), {"RESERVED"})
    /\ Take
    /\ state' = "reserved"
    /\ announced' = Head(Incoming).port
    /\ fresh' = (fresh /\ Head(Incoming).conn = link)
    /\ UNCHANGED <<link, _req_counter, key, connections, backlog, closed, commands, agent>>

RecvDone ==
    /\ state \in {"execute_result", "sync_result"}
    /\ Incoming # <<>>
    /\ Answer(Head(Incoming), {"DONE"})
    /\ Take
    /\ state' = "idle"
    /\ announced' = None
    /\ fresh' = (fresh /\ Head(Incoming).conn = link)
    /\ UNCHANGED <<link, _req_counter, key, connections, backlog, closed, commands, agent>>

\* A wrong answer here, or a failure or a timeout here or at another Agent.  The
\* operation fails and all connections are replaced.
ReserveFails ==
    /\ state \in {"reserve_ready", "reserve_result", "reserved"}
    /\ Connect
    /\ state' = "idle"
    /\ announced' = None
    /\ UNCHANGED <<_req_counter, key, fresh, agent>>

\* Once EXECUTE or SYNC is in flight the same cracks the task, with a new connection
\* if it was recv that failed.
InFlight == {"execute_ready", "execute_result", "sync_ready", "sync_result"}

CrackTask ==
    /\ state \in InFlight
    /\ state' = "cracked"
    /\ announced' = None
    /\ Connect \/ UNCHANGED <<link, network>>
    /\ UNCHANGED <<_req_counter, key, fresh, agent>>

\* The process stops.  The next one starts with a new counter, unless it finds the
\* task cracked or an operation BUSY; it finds neither when it stopped
\* before it could record a crack, or during a SYNC.
StopManager ==
    /\ state \notin {"down", "cracked"}
    /\ state' = "down"
    /\ Close
    /\ link' = None
    /\ _req_counter' = 0
    /\ announced' = None
    /\ UNCHANGED <<key, fresh, connections, backlog, commands, agent>>

-----------------------------------------------------------------------------
\* The Agent's main thread: run, _recv_loop, _dispatch

Accept ==
    /\ main = "accept"
    /\ backlog # <<>>
    /\ _conn' = Head(backlog)
    /\ backlog' = Tail(backlog)
    /\ main' = "accepted"
    /\ UNCHANGED <<manager, connections, closed, commands, events,
                   _generation, _reserved, _exec_thread, worker, sender>>

\* Mutant of NewGeneration: the counter is not incremented.
SameGeneration ==
    /\ main = "accepted"
    /\ main' = "counted"
    /\ UNCHANGED <<manager, network, _conn, _generation, _reserved, _exec_thread, worker, sender>>

NewGeneration ==
    /\ main = "accepted"
    /\ _generation' = _generation + 1
    /\ main' = "counted"
    /\ UNCHANGED <<manager, network, _conn, _reserved, _exec_thread, worker, sender>>

\* The reservations of the previous session are dropped.
ClearReserved ==
    /\ main = "counted"
    /\ _reserved' = [k \in Key |-> None]
    /\ main' = "recv"
    /\ UNCHANGED <<manager, network, _conn, _generation, _exec_thread, worker, sender>>

\* sendall on _conn; on a dead connection the line is lost.
Emit(e) ==
    IF _conn \in closed THEN UNCHANGED events
    ELSE events' = [events EXCEPT ![_conn] = Append(@, e)]

\* Mutant of SendLockFree: READY is sent without _send_lock.
NoSendLock == TRUE

SendLockFree == sender = None

Dispatch ==
    /\ main = "recv"
    /\ commands[_conn] # <<>>
    /\ SendLockFree
    /\ LET c == Head(commands[_conn])
       IN  /\ Emit([event |-> "READY", rid |-> c.rid, conn |-> _conn, port |-> None])
           /\ worker' = Append(worker,
                 [cmd |-> c.cmd, key |-> c.key, rid |-> c.rid, gen |-> _generation,
                  conn |-> _conn, at |-> "start", event |-> None])
    /\ commands' = [commands EXCEPT ![_conn] = Tail(@)]
    /\ UNCHANGED <<manager, connections, backlog, closed,
                   main, _conn, _generation, _reserved, _exec_thread, sender>>

\* recv returns nothing or raises.  Commands that were under way may be lost.
Disconnected ==
    /\ main = "recv"
    /\ _conn \in closed
    /\ main' = "accept"
    /\ UNCHANGED <<manager, network, _conn, _generation, _reserved, _exec_thread, worker, sender>>

-----------------------------------------------------------------------------
\* The command threads

Go(w, at) == worker' = [worker EXCEPT ![w].at = at]
Report(w, event) == worker' = [worker EXCEPT ![w].at = "send", ![w].event = event]
Is(w, cmd, at) == worker[w].cmd = cmd /\ worker[w].at = at

\* cmd_reserve: a port is bound, and kept if the session is still the same.
ReserveBind(w) ==
    /\ Is(w, "RESERVE", "start")
    /\ IF worker[w].gen = _generation THEN Go(w, "store") ELSE Go(w, "end")
    /\ UNCHANGED <<manager, network, main, _conn, _generation, _reserved, _exec_thread, sender>>

ReserveError(w) ==
    /\ Is(w, "RESERVE", "start")
    /\ Report(w, "ERROR")
    /\ UNCHANGED <<manager, network, main, _conn, _generation, _reserved, _exec_thread, sender>>

ReserveStore(w) ==
    /\ Is(w, "RESERVE", "store")
    /\ _reserved' = [_reserved EXCEPT ![worker[w].key] = w]
    /\ Report(w, "RESERVED")
    /\ UNCHANGED <<manager, network, main, _conn, _generation, _exec_thread, sender>>

\* cmd_execute and cmd_sync
EnterProtocol(w) ==
    /\ worker[w].cmd \in {"EXECUTE", "SYNC"} /\ worker[w].at = "start"
    /\ IF _exec_thread = None
       THEN _exec_thread' = w /\ Go(w, IF worker[w].cmd = "SYNC" THEN "protocol" ELSE "pop")
       ELSE UNCHANGED _exec_thread /\ Report(w, "ERROR")
    /\ UNCHANGED <<manager, network, main, _conn, _generation, _reserved, sender>>

PopReserved(w) ==
    /\ Is(w, "EXECUTE", "pop")
    /\ _reserved' = [_reserved EXCEPT ![worker[w].key] = None]
    /\ IF _reserved[worker[w].key] = None THEN Report(w, "ERROR") ELSE Go(w, "protocol")
    /\ UNCHANGED <<manager, network, main, _conn, _generation, _exec_thread, sender>>

\* The protocol ends well, fails, or nobody connects to the port in time.
Protocol(w) ==
    /\ worker[w].at = "protocol"
    /\ Report(w, "DONE") \/ Report(w, "ERROR")
    /\ UNCHANGED <<manager, network, main, _conn, _generation, _reserved, _exec_thread, sender>>

\* Mutant of AfterSend: the busy check is inside the try statement.
AfterSendAll(w) == IF worker[w].cmd = "RESERVE" THEN "end" ELSE "finally"

\* Where a worker goes after its event: the finally clause belongs to the try
\* statement after the busy check.
AfterSend(w) == IF _exec_thread = w THEN "finally" ELSE "end"

\* _send with _gen: under _send_lock the generation is checked ...
SendCheck(w) ==
    /\ worker[w].at = "send"
    /\ sender = None
    /\ IF worker[w].gen = _generation
       THEN sender' = w /\ Go(w, "sendall")
       ELSE UNCHANGED sender /\ Go(w, AfterSend(w))
    /\ UNCHANGED <<manager, network, main, _conn, _generation, _reserved, _exec_thread>>

\* ... and the line is written to the connection there is by then.
SendAll(w) ==
    /\ worker[w].at = "sendall"
    /\ sender' = None
    /\ Emit([event |-> worker[w].event, rid |-> worker[w].rid, conn |-> worker[w].conn,
             port |-> IF worker[w].event = "RESERVED" THEN w ELSE None])
    /\ Go(w, AfterSend(w))
    /\ UNCHANGED <<manager, connections, backlog, closed, commands,
                   main, _conn, _generation, _reserved, _exec_thread>>

Finally(w) ==
    /\ worker[w].at = "finally"
    /\ _exec_thread' = None
    /\ Go(w, "end")
    /\ UNCHANGED <<manager, network, main, _conn, _generation, _reserved, sender>>

-----------------------------------------------------------------------------
Init ==
    /\ state = "down" /\ link = None /\ _req_counter = 0
    /\ key = None /\ announced = None /\ fresh = TRUE
    /\ connections = 0 /\ backlog = <<>> /\ closed = {}
    /\ commands = [c \in Connection |-> <<>>]
    /\ events = [c \in Connection |-> <<>>]
    /\ main = "accept" /\ _conn = None /\ _generation = 0
    /\ _reserved = [k \in Key |-> None]
    /\ _exec_thread = None /\ worker = <<>> /\ sender = None

Manager ==
    \/ CmdStart \/ Execute \/ Sync \/ MissingToken
    \/ \E k \in Key : Reserve(k)
    \/ SkipStale \/ RecvReady \/ RecvReserved \/ RecvDone
    \/ ReserveFails \/ CrackTask \/ StopManager

MainLoop == Accept \/ NewGeneration \/ ClearReserved \/ Dispatch \/ Disconnected

RunCmd(w) ==
    \/ ReserveBind(w) \/ ReserveError(w) \/ ReserveStore(w)
    \/ EnterProtocol(w) \/ PopReserved(w) \/ Protocol(w)
    \/ SendCheck(w) \/ SendAll(w) \/ Finally(w)

Next == Manager \/ MainLoop \/ \E w \in Workers : RunCmd(w)

Spec == Init /\ [][Next]_vars

-----------------------------------------------------------------------------
\* Properties

\* The Manager never takes the RESERVED or DONE of an earlier session for an
\* answer, although request ids start again with each process, _conn changes
\* before _generation does, and the check in _send and the write are not one step.
NoStaleResult == fresh

\* _exec_thread is the thread that runs a protocol on the TreeCache, so that no two
\* run at once, of one session or of two.
OneProtocolRuns ==
    \A w \in Workers : worker[w].at \in {"pop", "protocol"} => _exec_thread = w

\* After a reservation was announced to the client, only the EXECUTE it is meant
\* for, or a thread left over from an earlier session, changes it.
AnnouncedStays ==
    [][ announced # None /\ announced' # None /\ _reserved'[key] # _reserved[key] =>
            \E w \in Workers :
                /\ worker'[w] # worker[w]
                /\ \/ worker[w].gen < _generation
                   \/ worker[w].cmd = "EXECUTE" /\ worker[w].rid = _req_counter ]_vars

\* "guard: stale worker from previous Manager session - discard": the port that was
\* announced is the one the Agent will listen on.
ReservationIsAnnounced == state = "reserved" => _reserved[key] = announced

=============================================================================
