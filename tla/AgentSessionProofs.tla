------------------------- MODULE AgentSessionProofs -------------------------
(***************************************************************************)
(* Proofs about AgentSession, for any number of connections, commands and  *)
(* users: at most one protocol runs, the Manager never takes an answer of  *)
(* an earlier session, and a reservation that was announced stays until    *)
(* its EXECUTE.                                                            *)
(***************************************************************************)
EXTENDS AgentSession, SequenceTheorems, TLAPS

Commands == {"RESERVE", "EXECUTE", "SYNC"}
Results == {"reserve_result", "execute_result", "sync_result"}

Command == [cmd : Commands, key : Key \cup {None}, rid : Nat]
Event == [event : {"READY", "RESERVED", "DONE", "ERROR", None}, rid : Nat, conn : Connection,
          port : Nat \cup {None}]
Thread ==
    [cmd : Commands, key : Key \cup {None}, rid : Nat, gen : Nat, conn : Connection,
     at : {"start", "store", "pop", "protocol", "send", "sendall", "finally", "end"},
     event : {"RESERVED", "DONE", "ERROR", None}]

TypeOK ==
    /\ state \in {"down", "idle", "reserved", "cracked"} \cup Waiting \cup Results
    /\ link \in Connection \cup {None} /\ (state # "down" => link \in Connection)
    /\ _req_counter \in Nat /\ key \in Key \cup {None}
    /\ connections \in 0..MaxConnection /\ backlog \in Seq(Connection)
    /\ commands \in [Connection -> Seq(Command)]
    /\ events \in [Connection -> Seq(Event)]
    /\ main \in {"accept", "accepted", "counted", "recv"}
    /\ _conn \in Connection \cup {None} /\ (main # "accept" => _conn \in Connection)
    /\ _generation \in Nat
    /\ _exec_thread \in Nat \cup {None} /\ sender \in Nat \cup {None}
    /\ worker \in Seq(Thread)

\* A thread in the part that _exec_thread guards is the one it names.
ExecOwner ==
    \A w \in Workers : worker[w].at \in {"pop", "protocol", "finally"} => _exec_thread = w

\* Connections are accepted in the order in which they were made, each once.
Newest == IF _conn = None THEN 0 ELSE _conn
InOrder ==
    /\ \A i \in 1..Len(backlog) : Newest < backlog[i] /\ backlog[i] <= connections
    /\ \A i, j \in 1..Len(backlog) : i < j => backlog[i] < backlog[j]
    /\ Newest <= connections

\* The generations of threads are those of their sessions, except that between Accept
\* and NewGeneration the number is still that of the session before.
GenerationOfSession ==
    \A w \in Workers :
        /\ worker[w].conn <= Newest
        /\ worker[w].gen <= _generation
        /\ worker[w].gen = _generation /\ main # "accepted" => worker[w].conn = _conn
        /\ main \in {"accepted", "counted"} => worker[w].conn < Newest

SenderIsSending ==
    \A w \in Workers : worker[w].at = "sendall" => sender = w

\* A command of connection c has been answered READY.
Dispatched(c) == \E w \in Workers : worker[w].conn = c

\* From the first READY on, no thread of an earlier session is about to write.
NoOldSender ==
    Dispatched(_conn) => \A w \in Workers : worker[w].at = "sendall" => worker[w].conn = _conn

\* In front of the first READY there may be lines of an earlier session, behind it not.
CleanAfterReady ==
    \A c \in Connection : \A i \in 1..Len(events[c]) :
        events[c][i].event = "READY" =>
            /\ Dispatched(c)
            /\ \A j \in (i + 1)..Len(events[c]) : events[c][j].conn = c

\* A Manager that has READY, and waits for the result, has only lines of this session
\* in front of it.
CleanLink ==
    state \in Results =>
        Dispatched(link) /\ \A i \in 1..Len(events[link]) : events[link][i].conn = link

IInv ==
    /\ TypeOK /\ ExecOwner /\ InOrder /\ GenerationOfSession /\ SenderIsSending
    /\ NoOldSender /\ CleanAfterReady /\ CleanLink /\ NoStaleResult

-----------------------------------------------------------------------------
\* Types

LEMMA CloseType ==
    ASSUME TypeOK, Close
    PROVE  events' \in [Connection -> Seq(Event)]
  BY EmptySeq DEF TypeOK, Close

LEMMA ConnectType ==
    ASSUME TypeOK, Connect
    PROVE  /\ link' \in Connection /\ connections' \in 0..MaxConnection
           /\ backlog' \in Seq(Connection) /\ commands' = commands
           /\ events' \in [Connection -> Seq(Event)]
<1>1. connections + 1 \in Connection
  BY SessionAssumption DEF TypeOK, Connect, Connection
<1> QED BY <1>1, CloseType, SessionAssumption DEF TypeOK, Connect, Connection

LEMMA IssueType ==
    ASSUME TypeOK, state # "down", NEW cmd \in Commands, NEW k \in Key \cup {None},
           NEW next \in Waiting, Issue(cmd, k, next)
    PROVE  /\ _req_counter' \in Nat /\ commands' \in [Connection -> Seq(Command)]
           /\ state' = next /\ link' = link
           /\ UNCHANGED <<link, connections, backlog, events, agent>>
<1>1. [cmd |-> cmd, key |-> k, rid |-> _req_counter + 1] \in Command
  BY DEF Command, TypeOK
<1>2. link \in Connection /\ commands[link] \in Seq(Command)
  BY DEF TypeOK
<1> QED BY <1>1, <1>2, AppendProperties DEF Issue, TypeOK

LEMMA TakeType ==
    ASSUME TypeOK, state # "down", Incoming # <<>>, Take
    PROVE  events' \in [Connection -> Seq(Event)]
<1>1. link \in Connection /\ events[link] \in Seq(Event)
  BY DEF TypeOK
<1>2. Tail(events[link]) \in Seq(Event)
  BY <1>1, HeadTailProperties DEF Incoming
<1> QED BY <1>1, <1>2 DEF Take, TypeOK

LEMMA ManagerType == TypeOK /\ Manager => TypeOK'
<1> SUFFICES ASSUME TypeOK, Manager PROVE TypeOK'
  OBVIOUS
<1>1. CASE CmdStart
  BY <1>1, ConnectType DEF CmdStart, TypeOK, agent
<1>2. CASE Execute \/ Sync \/ \E k \in Key : Reserve(k)
  BY <1>2, IssueType DEF Execute, Sync, Reserve, TypeOK, agent, Waiting, Commands
<1>3. CASE MissingToken
  BY <1>3 DEF MissingToken, TypeOK, agent, network
<1>4. CASE SkipStale
  BY <1>4, TakeType DEF SkipStale, TypeOK, agent, manager, Waiting
<1>5. CASE RecvReady
  BY <1>5, TakeType DEF RecvReady, TypeOK, agent, Waiting, Acknowledged, Results
<1>6. CASE RecvReserved \/ RecvDone
  BY <1>6, TakeType DEF RecvReserved, RecvDone, TypeOK, agent
<1>7. CASE ReserveFails
  BY <1>7, ConnectType DEF ReserveFails, TypeOK, agent
<1>8. CASE CrackTask
  BY <1>8, ConnectType DEF CrackTask, TypeOK, agent, network, InFlight
<1>9. CASE StopManager
  BY <1>9, CloseType DEF StopManager, TypeOK, agent
<1> QED BY <1>1, <1>2, <1>3, <1>4, <1>5, <1>6, <1>7, <1>8, <1>9 DEF Manager

\* A line that is written.
LEMMA EmitType ==
    ASSUME TypeOK, _conn \in Connection, NEW e \in Event, Emit(e)
    PROVE  events' \in [Connection -> Seq(Event)]
<1>1. events[_conn] \in Seq(Event)
  BY DEF TypeOK
<1>2. Append(events[_conn], e) \in Seq(Event)
  BY <1>1, AppendProperties
<1>3. events \in [Connection -> Seq(Event)]
  BY DEF TypeOK
<1> QED BY <1>2, <1>3 DEF Emit

\* A thread that moves on.
LEMMA ThreadType ==
    ASSUME TypeOK, NEW w \in Workers,
           NEW at \in {"start", "store", "pop", "protocol", "send", "sendall", "finally", "end"},
           NEW event \in {"RESERVED", "DONE", "ERROR"}
    PROVE  /\ Go(w, at) => worker' \in Seq(Thread)
           /\ Report(w, event) => worker' \in Seq(Thread)
<1>1. worker[w] \in Thread /\ worker \in Seq(Thread)
  BY DEF TypeOK, Workers
<1>2. /\ [worker[w] EXCEPT !.at = at] \in Thread
      /\ [worker[w] EXCEPT !.at = "send", !.event = event] \in Thread
  BY <1>1 DEF Thread
<1>3. ASSUME NEW t \in Thread PROVE [worker EXCEPT ![w] = t] \in Seq(Thread)
  BY <1>1 DEF Workers
<1>4. /\ Go(w, at) => worker' = [worker EXCEPT ![w] = [worker[w] EXCEPT !.at = at]]
      /\ Report(w, event) => worker' = [worker EXCEPT ![w] = [worker[w] EXCEPT !.at = "send", !.event = event]]
  BY DEF Go, Report
<1> QED BY <1>2, <1>3, <1>4

LEMMA MainLoopType == TypeOK /\ MainLoop => TypeOK'
<1> SUFFICES ASSUME TypeOK, MainLoop PROVE TypeOK'
  OBVIOUS
<1>1. CASE Accept
  <2>1. Head(backlog) \in Connection /\ Tail(backlog) \in Seq(Connection)
    BY <1>1, HeadTailProperties DEF Accept, TypeOK
  <2> QED BY <1>1, <2>1 DEF Accept, TypeOK, manager
<1>2. CASE NewGeneration \/ ClearReserved \/ Disconnected
  <2>1. CASE NewGeneration
    BY <2>1 DEF NewGeneration, TypeOK, manager, network
  <2>2. CASE ClearReserved
    BY <2>2 DEF ClearReserved, TypeOK, manager, network
  <2>3. CASE Disconnected
    BY <2>3 DEF Disconnected, TypeOK, manager, network
  <2> QED BY <1>2, <2>1, <2>2, <2>3
<1>3. CASE Dispatch
  <2> DEFINE c == Head(commands[_conn])
             ready == [event |-> "READY", rid |-> c.rid, conn |-> _conn, port |-> None]
             t == [cmd |-> c.cmd, key |-> c.key, rid |-> c.rid, gen |-> _generation,
                   conn |-> _conn, at |-> "start", event |-> None]
  <2>1. _conn \in Connection /\ commands[_conn] \in Seq(Command) /\ commands[_conn] # <<>>
    BY <1>3 DEF Dispatch, TypeOK
  <2>2. c \in Command /\ Tail(commands[_conn]) \in Seq(Command)
    BY <2>1, HeadTailProperties
  <2> HIDE DEF c
  <2>3. ready \in Event /\ t \in Thread
    BY <2>1, <2>2 DEF Command, Event, Thread, TypeOK
  <2>4. Emit(ready) /\ worker' = Append(worker, t) /\ commands' = [commands EXCEPT ![_conn] = Tail(@)]
    BY <1>3 DEF Dispatch, c
  <2> HIDE DEF ready, t
  <2>5. events' \in [Connection -> Seq(Event)]
    BY <2>1, <2>3, <2>4, EmitType
  <2>6. worker' \in Seq(Thread)
    BY <2>3, <2>4, AppendProperties DEF TypeOK
  <2>7. commands' \in [Connection -> Seq(Command)]
    BY <2>1, <2>2, <2>4 DEF TypeOK
  <2>8. UNCHANGED <<manager, connections, backlog, main, _conn, _generation, _exec_thread, sender>>
    BY <1>3 DEF Dispatch
  <2> QED BY <2>5, <2>6, <2>7, <2>8 DEF TypeOK, manager
<1> QED BY <1>1, <1>2, <1>3 DEF MainLoop

LEMMA RunCmdType == TypeOK /\ GenerationOfSession /\ (\E w \in Workers : RunCmd(w)) => TypeOK'
<1> SUFFICES ASSUME TypeOK, GenerationOfSession, NEW w \in Workers, RunCmd(w) PROVE TypeOK'
  OBVIOUS
<1>0. w \in Nat /\ worker[w] \in Thread
  BY DEF TypeOK, Workers
<1>1. CASE ReserveBind(w) \/ ReserveError(w) \/ ReserveStore(w)
  BY <1>1, ThreadType DEF ReserveBind, ReserveError, ReserveStore, TypeOK, manager, network
<1>2. CASE EnterProtocol(w)
  BY <1>0, <1>2, ThreadType DEF EnterProtocol, TypeOK, manager, network
<1>3. CASE PopReserved(w) \/ Protocol(w)
  BY <1>3, ThreadType DEF PopReserved, Protocol, TypeOK, manager, network
<1>4. CASE SendCheck(w)
  BY <1>0, <1>4, ThreadType DEF SendCheck, AfterSend, TypeOK, manager, network
<1>5. CASE SendAll(w)
  <2> DEFINE e == [event |-> worker[w].event, rid |-> worker[w].rid, conn |-> worker[w].conn,
                   port |-> IF worker[w].event = "RESERVED" THEN w ELSE None]
  <2>1. e \in Event
    BY <1>0 DEF Thread, Event
  <2>2. Emit(e) /\ Go(w, AfterSend(w)) /\ sender' = None
        /\ UNCHANGED <<manager, connections, backlog, commands, main, _conn, _generation, _exec_thread>>
    BY <1>5 DEF SendAll
  <2> HIDE DEF e
  <2>3. _conn \in Connection
    BY <1>0 DEF GenerationOfSession, Newest, TypeOK, Thread, Connection
  <2>4. events' \in [Connection -> Seq(Event)]
    BY <2>1, <2>2, <2>3, EmitType
  <2>5. worker' \in Seq(Thread)
    BY <2>2, ThreadType DEF AfterSend
  <2> QED BY <2>2, <2>4, <2>5 DEF TypeOK, manager
<1>6. CASE Finally(w)
  BY <1>6, ThreadType DEF Finally, TypeOK, manager, network
<1> QED BY <1>1, <1>2, <1>3, <1>4, <1>5, <1>6 DEF RunCmd

-----------------------------------------------------------------------------
\* What the three kinds of steps may change

LEMMA ManagerLeavesAgent == Manager => UNCHANGED agent
  BY DEF Manager, CmdStart, Execute, Sync, Reserve, Issue, MissingToken, SkipStale, RecvReady,
         RecvReserved, RecvDone, ReserveFails, CrackTask, StopManager

\* The Manager only takes lines, or drops a whole connection.
LEMMA ManagerTakes ==
    ASSUME TypeOK, Manager, NEW c \in Connection
    PROVE  \/ events'[c] = events[c] \/ events'[c] = <<>>
           \/ events[c] # <<>> /\ events'[c] = Tail(events[c])
<1>1. CASE UNCHANGED events
  BY <1>1
<1>2. CASE Close
  BY <1>2 DEF Close
<1>3. CASE Take /\ Incoming # <<>> /\ state # "down"
  BY <1>3 DEF Take, Incoming, TypeOK
<1>4. UNCHANGED events \/ Close \/ (Take /\ Incoming # <<>> /\ state # "down")
  BY DEF Manager, CmdStart, Execute, Sync, Reserve, Issue, MissingToken, SkipStale, RecvReady,
         RecvReserved, RecvDone, ReserveFails, CrackTask, StopManager, Connect, network, Waiting
<1> QED BY <1>1, <1>2, <1>3, <1>4

\* Connections are made one after the other.
LEMMA ManagerConnects ==
    ASSUME Manager
    PROVE  \/ UNCHANGED <<connections, backlog>>
           \/ connections' = connections + 1 /\ backlog' = Append(backlog, connections + 1)
  BY DEF Manager, CmdStart, Execute, Sync, Reserve, Issue, MissingToken, SkipStale, RecvReady,
         RecvReserved, RecvDone, ReserveFails, CrackTask, StopManager, Connect, network

\* A thread keeps its session, and only changes itself.
LEMMA ThreadKeepsSession ==
    ASSUME TypeOK, NEW w \in Workers, RunCmd(w)
    PROVE  /\ Workers' = Workers
           /\ \A v \in Workers \ {w} : worker'[v] = worker[v]
           /\ worker'[w].gen = worker[w].gen /\ worker'[w].conn = worker[w].conn
           /\ UNCHANGED <<manager, connections, backlog, main, _conn, _generation>>
<1>1. worker[w] \in Thread /\ DOMAIN worker = Workers
  BY DEF TypeOK, Workers
<1>2. ASSUME NEW at, Go(w, at)
      PROVE  /\ Workers' = Workers
             /\ \A v \in Workers \ {w} : worker'[v] = worker[v]
             /\ worker'[w].gen = worker[w].gen /\ worker'[w].conn = worker[w].conn
  BY <1>1, <1>2 DEF Go, Thread, Workers
<1>3. ASSUME NEW e, Report(w, e)
      PROVE  /\ Workers' = Workers
             /\ \A v \in Workers \ {w} : worker'[v] = worker[v]
             /\ worker'[w].gen = worker[w].gen /\ worker'[w].conn = worker[w].conn
  BY <1>1, <1>3 DEF Report, Thread, Workers
<1>4. (\E at : Go(w, at)) \/ (\E e : Report(w, e))
  BY DEF RunCmd, ReserveBind, ReserveError, ReserveStore, EnterProtocol, PopReserved, Protocol,
         SendCheck, SendAll, Finally
<1>5. UNCHANGED <<manager, connections, backlog, main, _conn, _generation>>
  BY DEF RunCmd, ReserveBind, ReserveError, ReserveStore, EnterProtocol, PopReserved, Protocol,
         SendCheck, SendAll, Finally, network
<1> QED BY <1>2, <1>3, <1>4, <1>5

\* Dispatch starts one thread, of the present session.
LEMMA DispatchAdds ==
    ASSUME TypeOK, Dispatch
    PROVE  /\ Workers' = 1..(Len(worker) + 1) /\ Workers = 1..Len(worker) /\ Len(worker) \in Nat
           /\ \A v \in Workers : worker'[v] = worker[v]
           /\ worker'[Len(worker) + 1].at = "start"
           /\ worker'[Len(worker) + 1].gen = _generation
           /\ worker'[Len(worker) + 1].conn = _conn
           /\ main = "recv" /\ sender = None
           /\ UNCHANGED <<manager, connections, backlog, main, _conn, _generation, _exec_thread, sender>>
<1>1. PICK t : /\ worker' = Append(worker, t)
               /\ t.at = "start" /\ t.gen = _generation /\ t.conn = _conn
  BY DEF Dispatch
<1>2. worker \in Seq(Thread)
  BY DEF TypeOK
<1>3. /\ Len(worker') = Len(worker) + 1 /\ DOMAIN worker' = 1..(Len(worker) + 1)
      /\ \A v \in 1..Len(worker) : worker'[v] = worker[v]
      /\ worker'[Len(worker) + 1] = t
  BY <1>1, <1>2
<1>4. /\ main = "recv" /\ sender = None
      /\ UNCHANGED <<manager, connections, backlog, main, _conn, _generation, _exec_thread, sender>>
  BY DEF Dispatch, SendLockFree
<1> QED BY <1>1, <1>2, <1>3, <1>4 DEF Workers

\* The rest of the main thread starts no threads and writes no lines.
LEMMA MainLoopLeaves ==
    ASSUME MainLoop, ~Dispatch
    PROVE  UNCHANGED <<manager, connections, events, _exec_thread, worker, sender>>
  BY DEF MainLoop, Accept, NewGeneration, ClearReserved, Disconnected, network

-----------------------------------------------------------------------------
\* One protocol at a time

LEMMA ExecOwnerKept ==
    ASSUME TypeOK, ExecOwner, [Next]_vars
    PROVE  ExecOwner'
<1>1. CASE UNCHANGED <<_exec_thread, worker>>
  BY <1>1 DEF ExecOwner, Workers
<1>2. CASE Manager \/ UNCHANGED vars
  BY <1>1, <1>2, ManagerLeavesAgent DEF agent, vars
<1>3. CASE MainLoop
  BY <1>1, <1>3, MainLoopLeaves, DispatchAdds DEF ExecOwner
<1>4. ASSUME NEW w \in Workers, RunCmd(w) PROVE ExecOwner'
  <2>1. /\ Workers' = Workers /\ worker[w] \in Thread
        /\ \A v \in Workers : v # None
        /\ \A v \in Workers \ {w} : worker'[v] = worker[v]
    <3>1. worker \in Seq(Thread) /\ worker[w] \in Thread
      BY DEF TypeOK, Workers
    <3>2. \A v \in Workers : v # None
      BY <3>1, SessionAssumption DEF Workers
    <3> QED BY <1>4, <3>1, <3>2, ThreadKeepsSession
  <2>2. \A at : Go(w, at) => worker'[w].at = at
    BY <2>1 DEF Go, Thread, Workers
  <2>3. \A e : Report(w, e) => worker'[w].at = "send"
    BY <2>1 DEF Report, Thread, Workers
  <2>4. CASE ReserveBind(w) \/ ReserveError(w) \/ ReserveStore(w)
    BY <2>1, <2>2, <2>3, <2>4 DEF ReserveBind, ReserveError, ReserveStore, ExecOwner
  <2>5. CASE EnterProtocol(w)
    BY <2>1, <2>2, <2>3, <2>5 DEF EnterProtocol, ExecOwner
  <2>6. CASE PopReserved(w) \/ Protocol(w)
    BY <2>1, <2>2, <2>3, <2>6 DEF PopReserved, Protocol, ExecOwner, Is
  <2>7. CASE SendCheck(w) \/ SendAll(w)
    BY <2>1, <2>2, <2>7 DEF SendCheck, SendAll, AfterSend, ExecOwner
  <2>8. CASE Finally(w)
    BY <2>1, <2>2, <2>8 DEF Finally, ExecOwner
  <2> QED BY <1>4, <2>4, <2>5, <2>6, <2>7, <2>8 DEF RunCmd
<1> QED BY <1>2, <1>3, <1>4 DEF Next

-----------------------------------------------------------------------------
\* Sessions follow one another

LEMMA ConnectionIsNat == Connection \subseteq Nat \ {0} /\ None \notin Connection
  BY SessionAssumption DEF Connection

LEMMA BacklogType == TypeOK => backlog \in Seq(Nat) /\ backlog \in Seq(Nat \ {0})
  BY ConnectionIsNat, SeqMonotonic, IsASeq DEF TypeOK

LEMMA InOrderKept ==
    ASSUME TypeOK, InOrder, [Next]_vars
    PROVE  InOrder'
<1>1. backlog \in Seq(Connection) /\ connections \in Nat /\ Newest \in Nat /\ Connection \subseteq Nat \ {0}
  <2>1. Connection \subseteq Nat \ {0}
    BY ConnectionIsNat
  <2>2. backlog \in Seq(Connection) /\ connections \in Nat
    BY SessionAssumption DEF TypeOK
  <2>3. Newest \in Nat
    BY <2>1 DEF TypeOK, Newest
  <2> QED BY <2>1, <2>2, <2>3
<1>2. CASE UNCHANGED <<connections, backlog, _conn>>
  BY <1>2 DEF InOrder, Newest
<1>3. CASE Manager
  <2>1. UNCHANGED _conn
    BY <1>3, ManagerLeavesAgent DEF agent
  <2>2. CASE connections' = connections + 1 /\ backlog' = Append(backlog, connections + 1)
    <3>1. /\ Len(backlog') = Len(backlog) + 1 /\ Len(backlog) \in Nat
          /\ \A k \in 1..Len(backlog) : backlog'[k] = backlog[k] /\ backlog[k] \in Nat
          /\ backlog'[Len(backlog) + 1] = connections + 1
      <4>1. backlog \in Seq(Nat)
        BY BacklogType
      <4>2. /\ Len(backlog') = Len(backlog) + 1 /\ Len(backlog) \in Nat
            /\ \A k \in 1..Len(backlog) : backlog'[k] = backlog[k]
            /\ backlog'[Len(backlog) + 1] = connections + 1
        BY <1>1, <2>2, <4>1, AppendProperties
      <4>3. \A k \in 1..Len(backlog) : backlog[k] \in Nat
        BY <4>1
      <4> QED BY <4>2, <4>3
    <3>2. Newest' = Newest
      BY <2>1 DEF Newest
    <3> QED BY <1>1, <2>2, <3>1, <3>2 DEF InOrder
  <2> QED BY <1>2, <1>3, <2>1, <2>2, ManagerConnects
<1>4. CASE Accept
  <2>1. /\ backlog # <<>> /\ _conn' = Head(backlog) /\ backlog' = Tail(backlog)
        /\ UNCHANGED connections
    BY <1>4 DEF Accept
  <2>2. /\ Len(backlog) \in Nat \ {0} /\ Len(backlog') = Len(backlog) - 1
        /\ _conn' = backlog[1] /\ \A k \in 1..Len(backlog) : backlog[k] \in Nat \ {0}
        /\ \A k \in 1..Len(backlog') : backlog'[k] = backlog[k + 1]
    <3>1. backlog \in Seq(Nat) /\ Len(backlog) \in Nat /\ Len(backlog) # 0
      BY <1>1, <2>1, BacklogType, EmptySeq
    <3>2. \A k \in 1..Len(backlog) : backlog[k] \in Nat \ {0}
      BY <1>1, ElementOfSeq
    <3>3. Head(backlog) = backlog[1]
      BY <3>1
    <3>4. /\ Len(Tail(backlog)) = Len(backlog) - 1
          /\ \A k \in 1..Len(Tail(backlog)) : Tail(backlog)[k] = backlog[k + 1]
      BY <2>1, <3>1, HeadTailProperties
    <3> QED BY <2>1, <3>1, <3>2, <3>3, <3>4
  <2>3. Newest' = backlog[1]
    BY <2>2, SessionAssumption DEF Newest
  <2> QED BY <2>1, <2>2, <2>3 DEF InOrder
<1>5. CASE MainLoop /\ ~Accept
  BY <1>2, <1>5 DEF MainLoop, NewGeneration, ClearReserved, Dispatch, Disconnected, network
<1>6. CASE \E w \in Workers : RunCmd(w)
  BY <1>2, <1>6, ThreadKeepsSession
<1> QED BY <1>2, <1>3, <1>4, <1>5, <1>6 DEF Next, vars, network, agent

LEMMA ThreadTypes ==
    ASSUME TypeOK, NEW w \in Workers
    PROVE  worker[w].conn \in Nat \ {0} /\ worker[w].gen \in Nat /\ w \in Nat /\ w # None
           /\ _generation \in Nat /\ Newest \in Nat
<1>1. worker[w] \in Thread /\ w \in Nat
  BY DEF TypeOK, Workers
<1>2. worker[w].conn \in Nat \ {0} /\ worker[w].gen \in Nat
  BY <1>1, ConnectionIsNat DEF Thread
<1>3. w # None
  BY <1>1, SessionAssumption
<1>4. _generation \in Nat /\ Newest \in Nat
  BY ConnectionIsNat DEF TypeOK, Newest
<1> QED BY <1>1, <1>2, <1>3, <1>4

LEMMA GenerationKept ==
    ASSUME TypeOK, InOrder, GenerationOfSession, [Next]_vars
    PROVE  GenerationOfSession'
<1>1. CASE UNCHANGED <<worker, main, _conn, _generation>>
  BY <1>1 DEF GenerationOfSession, Newest, Workers
<1>2. CASE Manager \/ UNCHANGED vars
  BY <1>1, <1>2, ManagerLeavesAgent DEF agent, vars
<1>3. CASE Accept
  <2>1. /\ backlog # <<>> /\ _conn' = Head(backlog) /\ main = "accept" /\ main' = "accepted"
        /\ UNCHANGED <<worker, _generation>>
    BY <1>3 DEF Accept
  <2>2. _conn' = backlog[1] /\ Newest < backlog[1] /\ backlog[1] \in Nat \ {0}
    <3>1. backlog \in Seq(Nat \ {0}) /\ Len(backlog) \in Nat
      BY BacklogType
    <3>2. 1 \in 1..Len(backlog)
      BY <2>1, <3>1, EmptySeq
    <3> QED BY <2>1, <3>1, <3>2, ElementOfSeq DEF InOrder
  <2>3. Newest' = backlog[1]
    BY <2>2, SessionAssumption DEF Newest
  <2> QED BY <2>1, <2>2, <2>3, ThreadTypes DEF GenerationOfSession, Workers
<1>4. CASE NewGeneration
  <2>1. /\ _generation' = _generation + 1 /\ main = "accepted" /\ main' = "counted"
        /\ UNCHANGED <<worker, _conn>>
    BY <1>4 DEF NewGeneration
  <2>2. Newest' = Newest
    BY <2>1 DEF Newest
  <2> QED BY <2>1, <2>2, ThreadTypes DEF GenerationOfSession, Workers
<1>5. CASE ClearReserved
  <2>1. main = "counted" /\ main' = "recv" /\ UNCHANGED <<worker, _conn, _generation>>
    BY <1>5 DEF ClearReserved
  <2>2. Newest' = Newest
    BY <2>1 DEF Newest
  <2> QED BY <2>1, <2>2 DEF GenerationOfSession, Workers
<1>6. CASE Disconnected
  <2>1. main = "recv" /\ main' = "accept" /\ UNCHANGED <<worker, _conn, _generation>>
    BY <1>6 DEF Disconnected
  <2>2. Newest' = Newest
    BY <2>1 DEF Newest
  <2> QED BY <2>1, <2>2 DEF GenerationOfSession, Workers
<1>7. CASE Dispatch
  <2>1. Newest' = Newest /\ _conn \in Nat /\ Newest = _conn /\ _generation \in Nat
    <3>1. main = "recv" /\ UNCHANGED _conn
      BY <1>7, DispatchAdds
    <3>2. _conn \in Connection /\ _generation \in Nat
      BY <3>1 DEF TypeOK
    <3>3. _conn # None
      BY <3>2, ConnectionIsNat
    <3> QED BY <3>1, <3>2, <3>3, ConnectionIsNat DEF Newest
  <2> QED BY <1>7, <2>1, DispatchAdds DEF GenerationOfSession
<1>8. ASSUME NEW w \in Workers, RunCmd(w) PROVE GenerationOfSession'
  <2>1. Newest' = Newest
    BY <1>8, ThreadKeepsSession DEF Newest
  <2> QED BY <1>8, <2>1, ThreadKeepsSession DEF GenerationOfSession
<1> QED BY <1>2, <1>3, <1>4, <1>5, <1>6, <1>7, <1>8 DEF Next, MainLoop

-----------------------------------------------------------------------------
\* Who holds _send_lock

LEMMA SenderKept ==
    ASSUME TypeOK, SenderIsSending, [Next]_vars
    PROVE  SenderIsSending'
<1>1. CASE UNCHANGED <<worker, sender>>
  BY <1>1 DEF SenderIsSending, Workers
<1>2. CASE Manager \/ UNCHANGED vars
  BY <1>1, <1>2, ManagerLeavesAgent DEF agent, vars
<1>3. CASE MainLoop
  BY <1>1, <1>3, MainLoopLeaves, DispatchAdds DEF SenderIsSending
<1>4. ASSUME NEW w \in Workers, RunCmd(w) PROVE SenderIsSending'
  <2>1. /\ Workers' = Workers /\ worker[w] \in Thread
        /\ \A v \in Workers : v # None
        /\ \A v \in Workers \ {w} : worker'[v] = worker[v]
    BY <1>4, ThreadKeepsSession, ThreadTypes DEF TypeOK, Workers
  <2>2. \A at : Go(w, at) => worker'[w].at = at
    BY <2>1 DEF Go, Thread, Workers
  <2>3. \A e : Report(w, e) => worker'[w].at = "send"
    BY <2>1 DEF Report, Thread, Workers
  <2>4. CASE ReserveBind(w) \/ ReserveError(w) \/ ReserveStore(w)
    BY <2>1, <2>2, <2>3, <2>4 DEF ReserveBind, ReserveError, ReserveStore, SenderIsSending
  <2>5. CASE EnterProtocol(w) \/ PopReserved(w) \/ Protocol(w)
    BY <2>1, <2>2, <2>3, <2>5 DEF EnterProtocol, PopReserved, Protocol, SenderIsSending
  <2>6. CASE SendCheck(w)
    BY <2>1, <2>2, <2>6 DEF SendCheck, AfterSend, SenderIsSending
  <2>7. CASE SendAll(w)
    BY <2>1, <2>2, <2>7 DEF SendAll, AfterSend, SenderIsSending
  <2>8. CASE Finally(w)
    BY <2>1, <2>2, <2>8 DEF Finally, SenderIsSending
  <2> QED BY <1>4, <2>4, <2>5, <2>6, <2>7, <2>8 DEF RunCmd
<1> QED BY <1>2, <1>3, <1>4 DEF Next

-----------------------------------------------------------------------------
\* Who may still write into the present session

\* A thread begins to write only after the check of its generation.
LEMMA SendallIsChecked ==
    ASSUME TypeOK, NEW w \in Workers, RunCmd(w), NEW v \in Workers, worker'[v].at = "sendall"
    PROVE  worker[v].at = "sendall" \/ worker[v].gen = _generation
<1>1. /\ worker[w] \in Thread /\ \A u \in Workers \ {w} : worker'[u] = worker[u]
  BY ThreadKeepsSession DEF TypeOK, Workers
<1>2. \A at : Go(w, at) => worker'[w].at = at
  BY <1>1 DEF Go, Thread, Workers
<1>3. \A e : Report(w, e) => worker'[w].at = "send"
  BY <1>1 DEF Report, Thread, Workers
<1>4. CASE ReserveBind(w) \/ ReserveError(w) \/ ReserveStore(w)
  BY <1>1, <1>2, <1>3, <1>4 DEF ReserveBind, ReserveError, ReserveStore
<1>5. CASE EnterProtocol(w) \/ PopReserved(w) \/ Protocol(w)
  BY <1>1, <1>2, <1>3, <1>5 DEF EnterProtocol, PopReserved, Protocol
<1>6. CASE SendCheck(w)
  BY <1>1, <1>2, <1>6 DEF SendCheck, AfterSend
<1>7. CASE SendAll(w)
  BY <1>1, <1>2, <1>7 DEF SendAll, AfterSend
<1>8. CASE Finally(w)
  BY <1>1, <1>2, <1>8 DEF Finally
<1> QED BY <1>4, <1>5, <1>6, <1>7, <1>8 DEF RunCmd

LEMMA NoOldSenderKept ==
    ASSUME TypeOK, InOrder, GenerationOfSession, SenderIsSending, NoOldSender, [Next]_vars
    PROVE  NoOldSender'
<1>1. CASE UNCHANGED <<worker, _conn>>
  BY <1>1 DEF NoOldSender, Dispatched, Workers
<1>2. CASE Manager \/ UNCHANGED vars
  BY <1>1, <1>2, ManagerLeavesAgent DEF agent, vars
<1>3. CASE Accept
  <2>1. UNCHANGED worker /\ backlog # <<>> /\ _conn' = Head(backlog)
    BY <1>3 DEF Accept
  <2>2. _conn' = backlog[1] /\ Newest < backlog[1] /\ backlog[1] \in Nat
    <3>1. backlog \in Seq(Nat) /\ Len(backlog) \in Nat
      BY BacklogType
    <3>2. 1 \in 1..Len(backlog)
      BY <2>1, <3>1, EmptySeq
    <3> QED BY <2>1, <3>1, <3>2, ElementOfSeq DEF InOrder
  <2>3. \A w \in Workers : worker[w].conn # _conn'
    BY <2>2, ThreadTypes DEF GenerationOfSession
  <2> QED BY <2>1, <2>3 DEF NoOldSender, Dispatched, Workers
<1>4. CASE NewGeneration \/ ClearReserved \/ Disconnected
  BY <1>1, <1>4 DEF NewGeneration, ClearReserved, Disconnected
<1>5. CASE Dispatch
  <2>1. \A w \in Workers : worker[w].at # "sendall"
    BY <1>5, DispatchAdds, ThreadTypes DEF SenderIsSending
  <2>2. \A w \in Workers' : worker'[w].at # "sendall"
    BY <1>5, <2>1, DispatchAdds
  <2> QED BY <2>2 DEF NoOldSender
<1>6. ASSUME NEW w \in Workers, RunCmd(w) PROVE NoOldSender'
  <2>1. /\ Workers' = Workers /\ UNCHANGED <<main, _conn>>
        /\ \A v \in Workers : worker'[v].conn = worker[v].conn
    BY <1>6, ThreadKeepsSession
  <2> SUFFICES ASSUME Dispatched(_conn), NEW v \in Workers, worker'[v].at = "sendall"
               PROVE  worker[v].conn = _conn
    BY <2>1 DEF NoOldSender, Dispatched
  <2>2. CASE worker[v].at = "sendall"
    BY <2>2 DEF NoOldSender
  <2>3. CASE worker[v].gen = _generation
    <3>1. PICK u \in Workers : worker[u].conn = _conn
      BY DEF Dispatched
    <3>2. Newest = _conn /\ _conn \in Nat
      BY <3>1, ThreadTypes, SessionAssumption DEF Newest
    <3>3. main # "accepted"
      BY <3>1, <3>2 DEF GenerationOfSession
    <3> QED BY <2>3, <3>3 DEF GenerationOfSession
  <2> QED BY <1>6, <2>2, <2>3, SendallIsChecked
<1> QED BY <1>2, <1>3, <1>4, <1>5, <1>6 DEF Next, MainLoop

-----------------------------------------------------------------------------
\* What is in a connection

LEMMA DispatchedStays ==
    ASSUME TypeOK, [Next]_vars, NEW c, Dispatched(c)
    PROVE  Dispatched(c)'
<1>1. CASE UNCHANGED worker
  BY <1>1 DEF Dispatched, Workers
<1>2. CASE Manager \/ UNCHANGED vars
  BY <1>1, <1>2, ManagerLeavesAgent DEF agent, vars
<1>3. CASE MainLoop
  BY <1>1, <1>3, MainLoopLeaves, DispatchAdds DEF Dispatched
<1>4. CASE \E w \in Workers : RunCmd(w)
  BY <1>4, ThreadKeepsSession DEF Dispatched
<1> QED BY <1>2, <1>3, <1>4 DEF Next

\* The Agent writes into its present connection, and once a command was answered
\* there, only lines of this session.
LEMMA AgentWrites ==
    ASSUME TypeOK, GenerationOfSession, NoOldSender,
           MainLoop \/ (\E w \in Workers : RunCmd(w)), NEW c \in Connection
    PROVE  \/ events'[c] = events[c]
           \/ \E e \in Event :
                 /\ events'[c] = Append(events[c], e)
                 /\ Dispatched(c) => e.conn = c
                 /\ e.event = "READY" => Dispatched(c)'
<1>1. ASSUME NEW e, Emit(e)
      PROVE  events'[c] = events[c] \/ (c = _conn /\ events'[c] = Append(events[c], e))
  BY <1>1 DEF Emit, TypeOK
<1>2. CASE Dispatch
  <2>1. PICK r : Emit([event |-> "READY", rid |-> r, conn |-> _conn, port |-> None]) /\ r \in Nat
    <3>1. _conn \in Connection /\ commands[_conn] \in Seq(Command) /\ commands[_conn] # <<>>
      BY <1>2 DEF Dispatch, TypeOK
    <3>2. Head(commands[_conn]) \in Command
      BY <3>1, HeadTailProperties
    <3>3. Head(commands[_conn]).rid \in Nat
      BY <3>2 DEF Command
    <3> QED BY <1>2, <3>3 DEF Dispatch
  <2> DEFINE e == [event |-> "READY", rid |-> r, conn |-> _conn, port |-> None]
  <2>2. _conn \in Connection
    BY <1>2 DEF Dispatch, TypeOK
  <2>3. e \in Event /\ e.conn = _conn
    BY <2>1, <2>2 DEF Event
  <2>4. c = _conn => Dispatched(c)'
    BY <1>2, DispatchAdds DEF Dispatched
  <2>5. Emit(e)
    BY <2>1
  <2> HIDE DEF e
  <2> QED BY <1>1, <2>3, <2>4, <2>5
<1>3. CASE MainLoop /\ ~Dispatch
  BY <1>3, MainLoopLeaves
<1>4. ASSUME NEW w \in Workers, SendAll(w)
      PROVE  \/ events'[c] = events[c]
             \/ \E e \in Event : /\ events'[c] = Append(events[c], e)
                                 /\ Dispatched(c) => e.conn = c
                                 /\ e.event # "READY"
  <2> DEFINE e == [event |-> worker[w].event, rid |-> worker[w].rid, conn |-> worker[w].conn,
                   port |-> IF worker[w].event = "RESERVED" THEN w ELSE None]
  <2>1. w \in Nat /\ worker[w] \in Thread
    BY DEF TypeOK, Workers
  <2>2. e \in Event /\ e.event # "READY" /\ e.conn = worker[w].conn
    BY <2>1, SessionAssumption DEF Thread, Event
  <2>3. Emit(e) /\ worker[w].at = "sendall"
    BY <1>4 DEF SendAll
  <2>4. c = _conn /\ Dispatched(c) => worker[w].conn = c
    BY <2>3 DEF NoOldSender
  <2> HIDE DEF e
  <2> QED BY <1>1, <2>2, <2>3, <2>4
<1>5. ASSUME NEW w \in Workers, RunCmd(w), ~SendAll(w) PROVE UNCHANGED events
  BY <1>5 DEF RunCmd, ReserveBind, ReserveError, ReserveStore, EnterProtocol, PopReserved,
              Protocol, SendCheck, Finally, network
<1> QED BY <1>2, <1>3, <1>4, <1>5

LEMMA CleanAfterReadyKept ==
    ASSUME TypeOK, GenerationOfSession, NoOldSender, CleanAfterReady, [Next]_vars
    PROVE  CleanAfterReady'
<1> SUFFICES ASSUME NEW c \in Connection, NEW i \in 1..Len(events'[c]), events'[c][i].event = "READY"
             PROVE  Dispatched(c)' /\ \A j \in (i + 1)..Len(events'[c]) : events'[c][j].conn = c
  BY DEF CleanAfterReady, Connection
<1>1. events[c] \in Seq(Event) /\ Len(events[c]) \in Nat
  BY DEF TypeOK
<1>2. CASE events'[c] = events[c]
  BY <1>2, DispatchedStays DEF CleanAfterReady
<1>3. CASE events[c] # <<>> /\ events'[c] = Tail(events[c])
  <2>1. /\ Len(events'[c]) = Len(events[c]) - 1
        /\ \A k \in 1..Len(events'[c]) : events'[c][k] = events[c][k + 1]
    BY <1>1, <1>3, HeadTailProperties
  <2>2. i + 1 \in 1..Len(events[c]) /\ events[c][i + 1].event = "READY"
    BY <1>1, <2>1
  <2>3. Dispatched(c) /\ \A k \in (i + 2)..Len(events[c]) : events[c][k].conn = c
    BY <1>1, <2>2 DEF CleanAfterReady
  <2> QED BY <1>1, <2>1, <2>3, DispatchedStays
<1>4. CASE events'[c] = <<>>
  BY <1>4
<1>5. ASSUME NEW e \in Event, events'[c] = Append(events[c], e),
             Dispatched(c) => e.conn = c, e.event = "READY" => Dispatched(c)'
      PROVE  Dispatched(c)' /\ \A j \in (i + 1)..Len(events'[c]) : events'[c][j].conn = c
  <2>1. /\ Len(events'[c]) = Len(events[c]) + 1
        /\ \A k \in 1..Len(events[c]) : events'[c][k] = events[c][k]
        /\ events'[c][Len(events[c]) + 1] = e
    BY <1>1, <1>5, AppendProperties
  <2>2. CASE i \in 1..Len(events[c])
    <3>1. Dispatched(c) /\ \A k \in (i + 1)..Len(events[c]) : events[c][k].conn = c
      BY <2>1, <2>2 DEF CleanAfterReady
    <3> QED BY <1>1, <1>5, <2>1, <2>2, <3>1, DispatchedStays
  <2>3. CASE i = Len(events[c]) + 1
    BY <1>1, <1>5, <2>1, <2>3
  <2> QED BY <1>1, <2>1, <2>2, <2>3
<1>6. CASE Manager
  BY <1>2, <1>3, <1>4, <1>6, ManagerTakes
<1>7. CASE MainLoop \/ \E w \in Workers : RunCmd(w)
  BY <1>2, <1>5, <1>7, AgentWrites
<1>8. CASE UNCHANGED vars
  BY <1>2, <1>8 DEF vars, network
<1> QED BY <1>6, <1>7, <1>8 DEF Next

LEMMA CleanLinkKept ==
    ASSUME TypeOK, GenerationOfSession, NoOldSender, CleanAfterReady, CleanLink, [Next]_vars
    PROVE  CleanLink'
<1> SUFFICES ASSUME state' \in Results
             PROVE  /\ Dispatched(link)'
                    /\ \A i \in 1..Len(events'[link']) : events'[link'][i].conn = link'
  BY DEF CleanLink
<1>0. events \in [Connection -> Seq(Event)]
  BY DEF TypeOK
<1>1. CASE SkipStale \/ RecvReady
  <2>1. /\ UNCHANGED <<link, worker>> /\ link \in Connection /\ events[link] # <<>>
        /\ events'[link] = Tail(events[link])
        /\ state \in Results \/ events[link][1].event = "READY"
    <3>1. state \in Waiting \cup Results
      BY <1>1 DEF SkipStale, RecvReady, Results
    <3>2. state # "down" /\ link \in Connection
      BY <3>1 DEF Waiting, Results, TypeOK
    <3>3. /\ UNCHANGED <<link, worker>> /\ events[link] # <<>>
          /\ events'[link] = Tail(events[link])
      BY <1>0, <1>1, <3>2 DEF SkipStale, RecvReady, Take, Incoming, agent, manager
    <3>4. state \in Results \/ Head(events[link]).event = "READY"
      BY <1>1, <3>1 DEF SkipStale, RecvReady, Answer, Incoming, manager, Waiting, Results
    <3> QED BY <1>0, <3>2, <3>3, <3>4
  <2>2. events[link] \in Seq(Event) /\ Len(events[link]) \in Nat \ {0}
    BY <1>0, <2>1, EmptySeq
  <2>3. /\ Len(Tail(events[link])) = Len(events[link]) - 1
        /\ \A k \in 1..Len(Tail(events[link])) : Tail(events[link])[k] = events[link][k + 1]
    BY <2>1, <2>2, HeadTailProperties
  <2>4. Dispatched(link) /\ \A k \in 2..Len(events[link]) : events[link][k].conn = link
    <3>1. CASE state \in Results
      BY <2>2, <3>1 DEF CleanLink
    <3>2. CASE events[link][1].event = "READY"
      BY <2>1, <2>2, <3>2 DEF CleanAfterReady
    <3> QED BY <2>1, <3>1, <3>2
  <2>5. Dispatched(link)'
    BY <2>1, <2>4 DEF Dispatched, Workers
  <2> QED BY <2>1, <2>2, <2>3, <2>4, <2>5
<1>2. CASE Manager /\ ~SkipStale /\ ~RecvReady
  BY <1>2 DEF Manager, CmdStart, Execute, Sync, Reserve, Issue, MissingToken, RecvReserved,
              RecvDone, ReserveFails, CrackTask, StopManager, Results, Waiting
<1>3. CASE MainLoop \/ \E w \in Workers : RunCmd(w)
  <2>1. UNCHANGED <<state, link>>
    BY <1>3, MainLoopLeaves, DispatchAdds, ThreadKeepsSession DEF manager
  <2>2. link \in Connection /\ Dispatched(link)
        /\ \A i \in 1..Len(events[link]) : events[link][i].conn = link
    BY <2>1 DEF CleanLink, TypeOK, Results
  <2>3. Dispatched(link)'
    BY <2>1, <2>2, DispatchedStays DEF Dispatched
  <2>4. CASE events'[link] = events[link]
    BY <2>1, <2>2, <2>3, <2>4
  <2>5. ASSUME NEW e \in Event, events'[link] = Append(events[link], e), e.conn = link
        PROVE  \A i \in 1..Len(events'[link]) : events'[link][i].conn = link
    <3>1. events[link] \in Seq(Event) /\ Len(events[link]) \in Nat
      BY <1>0, <2>2
    <3>2. /\ Len(events'[link]) = Len(events[link]) + 1
          /\ \A k \in 1..Len(events[link]) : events'[link][k] = events[link][k]
          /\ events'[link][Len(events[link]) + 1] = e
      BY <2>5, <3>1, AppendProperties
    <3> QED BY <2>2, <2>5, <3>1, <3>2
  <2> QED BY <1>3, <2>1, <2>2, <2>3, <2>4, <2>5, AgentWrites
<1>4. CASE UNCHANGED vars
  BY <1>4 DEF vars, manager, network, agent, CleanLink, Dispatched, Workers
<1> QED BY <1>1, <1>2, <1>3, <1>4 DEF Next

-----------------------------------------------------------------------------
\* The theorems

LEMMA StaleResultKept ==
    ASSUME TypeOK, CleanLink, NoStaleResult, [Next]_vars
    PROVE  NoStaleResult'
<1>1. CASE UNCHANGED fresh
  BY <1>1 DEF NoStaleResult
<1>2. CASE RecvReserved \/ RecvDone
  <2>1. state \in Results /\ events[link] # <<>>
        /\ fresh' = (fresh /\ Head(events[link]).conn = link)
    BY <1>2 DEF RecvReserved, RecvDone, Incoming, Results
  <2>2. events[link] \in Seq(Event) /\ Len(events[link]) \in Nat \ {0}
    BY <2>1, EmptySeq DEF TypeOK, Results
  <2>3. Head(events[link]).conn = link
    BY <2>1, <2>2 DEF CleanLink
  <2> QED BY <2>1, <2>3 DEF NoStaleResult
<1>3. CASE Manager /\ ~RecvReserved /\ ~RecvDone
  BY <1>1, <1>3 DEF Manager, CmdStart, Execute, Sync, Reserve, Issue, MissingToken, SkipStale,
                    RecvReady, ReserveFails, CrackTask, StopManager, manager
<1>4. CASE MainLoop \/ \E w \in Workers : RunCmd(w)
  BY <1>1, <1>4, MainLoopLeaves, DispatchAdds, ThreadKeepsSession DEF manager
<1> QED BY <1>1, <1>2, <1>3, <1>4 DEF Next, vars, manager

LEMMA InitIInv == Init => IInv
<1> SUFFICES ASSUME Init PROVE IInv
  OBVIOUS
<1>1. TypeOK
  BY SessionAssumption, EmptySeq DEF Init, TypeOK
<1>2. Workers = {} /\ Newest = 0 /\ Len(backlog) = 0
  BY DEF Init, Workers, Newest
<1>3. \A c \in Connection : Len(events[c]) = 0
  BY DEF Init
<1>4. CleanAfterReady /\ CleanLink
  BY <1>3 DEF Init, CleanAfterReady, CleanLink, Results
<1>5. InOrder
  BY <1>2 DEF Init, InOrder
<1> QED BY <1>1, <1>2, <1>4, <1>5
        DEF Init, IInv, ExecOwner, GenerationOfSession, SenderIsSending, NoOldSender, NoStaleResult

LEMMA NextIInv == IInv /\ [Next]_vars => IInv'
<1> SUFFICES ASSUME IInv, [Next]_vars PROVE IInv'
  OBVIOUS
<1>1. TypeOK'
  <2>1. CASE UNCHANGED vars
    BY <2>1 DEF IInv, TypeOK, vars, manager, network, agent
  <2> QED BY <2>1, ManagerType, MainLoopType, RunCmdType DEF IInv, Next
<1>2. ExecOwner' /\ InOrder' /\ GenerationOfSession' /\ SenderIsSending'
  BY ExecOwnerKept, InOrderKept, GenerationKept, SenderKept DEF IInv
<1>3. NoOldSender' /\ CleanAfterReady' /\ CleanLink' /\ NoStaleResult'
  BY NoOldSenderKept, CleanAfterReadyKept, CleanLinkKept, StaleResultKept DEF IInv
<1> QED BY <1>1, <1>2, <1>3 DEF IInv

\* _exec_thread and its check under a lock let no two command threads run a protocol at
\* the same time, whatever sessions begin and end while they run.
THEOREM OneProtocolAtATime == Spec => []OneProtocolRuns
<1>1. IInv => OneProtocolRuns
  BY DEF IInv, ExecOwner, OneProtocolRuns
<1> QED BY <1>1, InitIInv, NextIInv, PTL DEF Spec

\* The generation check in _send, the READY that main writes under _send_lock, and the
\* discarding of lines before READY by the Manager keep every result of an earlier
\* session from being taken for an answer.
THEOREM NoStaleResults == Spec => []NoStaleResult
<1>1. IInv => NoStaleResult
  BY DEF IInv
<1> QED BY <1>1, InitIInv, NextIInv, PTL DEF Spec

-----------------------------------------------------------------------------
\* What the Manager may rely on while a reservation is announced

\* The threads of the Manager's present connection; one that is past has done all it
\* does to the reservations.
Mine == {w \in Workers : worker[w].conn = link}
Past(w) == worker[w].at \in {"finally", "end"}

\* Nothing was sent on a connection that is not made yet, and the Manager holds the
\* newest.
LinkIsNewest ==
    /\ state # "down" => link = connections
    /\ \A c \in Connection : c > connections => commands[c] = <<>> /\ events[c] = <<>>

\* The Manager has at most one command under way, which no thread runs yet.
OneCommand ==
    state # "down" /\ commands[link] # <<>> =>
        /\ state \in Waiting \cup {"cracked"}
        /\ Len(commands[link]) = 1 /\ commands[link][1].rid = _req_counter
        /\ \A w \in Mine : worker[w].rid # _req_counter

\* Of the threads of its session only the last one may still be at work.
EarlierArePast ==
    state # "down" => \A w \in Mine :
        /\ worker[w].rid <= _req_counter
        /\ worker[w].rid < _req_counter => Past(w)
        /\ \A v \in Mine : worker[v].rid = worker[w].rid => v = w

\* A line of this session has its thread, and a result comes when that is past.
LinesOfThreads ==
    state # "down" => \A i \in 1..Len(events[link]) :
        events[link][i].event = "READY" \/ events[link][i].conn = link =>
            /\ \E w \in Mine : worker[w].rid = events[link][i].rid
            /\ events[link][i].event # "READY" =>
                 \A w \in Mine : worker[w].rid = events[link][i].rid => Past(w)

\* Between two operations the session is at rest.
RestBetween == state \in {"idle", "reserved"} => \A w \in Mine : Past(w)

\* While EXECUTE is in flight nothing else is.
ExecuteAlone ==
    state \in {"execute_ready", "execute_result"} =>
        /\ \A w \in Mine : worker[w].rid = _req_counter => worker[w].cmd = "EXECUTE"
        /\ \A i \in 1..Len(commands[link]) : commands[link][i].cmd = "EXECUTE"

\* A reservation is announced in the session that made it.
AnnouncedHere ==
    announced # None =>
        state \in {"reserved", "execute_ready", "execute_result"} /\ Dispatched(link)

LinkInv ==
    /\ LinkIsNewest /\ OneCommand /\ EarlierArePast /\ LinesOfThreads
    /\ RestBetween /\ ExecuteAlone /\ AnnouncedHere

\* The threads of the Manager's connection are of the Agent's present session, or the
\* connection has not been accepted.
LEMMA MineArePresent ==
    ASSUME IInv, LinkIsNewest, state # "down", Mine # {}
    PROVE  main \in {"accept", "recv"} /\ _conn = link
<1>1. PICK w \in Workers : worker[w].conn = link
  BY DEF Mine
<1>2. worker[w].conn \in Nat \ {0} /\ Newest \in Nat
  BY <1>1, ThreadTypes DEF IInv
<1>3. worker[w].conn <= Newest /\ Newest <= connections /\ connections \in Nat
      /\ (main \in {"accepted", "counted"} => worker[w].conn < Newest)
  BY SessionAssumption DEF IInv, GenerationOfSession, InOrder, TypeOK
<1>4. link = connections
  BY DEF LinkIsNewest
<1>5. Newest = link /\ main \notin {"accepted", "counted"}
  BY <1>1, <1>2, <1>3, <1>4
<1>6. _conn # None
  BY <1>1, <1>2, <1>5 DEF Newest
<1> QED BY <1>5, <1>6 DEF Newest, IInv, TypeOK

LEMMA MineTypes ==
    ASSUME IInv
    PROVE  /\ Mine \subseteq Workers
           /\ \A w \in Workers : worker[w] \in Thread /\ worker[w].rid \in Nat
<1>1. ASSUME NEW w \in Workers PROVE worker[w] \in Thread
  BY DEF Workers, IInv, TypeOK
<1> QED BY <1>1 DEF Thread, Mine

\* No thread has a connection that is not made yet.
LEMMA NoneAhead ==
    ASSUME IInv, NEW c, c = connections + 1
    PROVE  \A w \in Workers : worker[w].conn # c
<1> SUFFICES ASSUME NEW w \in Workers PROVE worker[w].conn # c
  OBVIOUS
<1>1. worker[w].conn \in Nat /\ Newest \in Nat
  BY ThreadTypes DEF IInv
<1>2. worker[w].conn <= Newest /\ Newest <= connections /\ connections \in Nat
  BY SessionAssumption DEF IInv, GenerationOfSession, InOrder, TypeOK
<1> QED BY <1>1, <1>2

\* With a new connection everything starts afresh.
LEMMA ConnectStarts ==
    ASSUME IInv, LinkInv, Connect, UNCHANGED agent,
           announced' = None, state' \in {"idle", "cracked"}
    PROVE  LinkInv'
<1>1. /\ connections \in Nat /\ connections + 1 \in Connection
      /\ connections' = connections + 1 /\ link' = connections + 1
  BY SessionAssumption DEF Connect, Connection, IInv, TypeOK
<1>2. /\ commands' = commands
      /\ \A c \in Connection : events'[c] = IF c = link THEN <<>> ELSE events[c]
  BY DEF Connect, Close
<1>3. \A c \in Connection : c > connections => commands'[c] = <<>> /\ events'[c] = <<>>
  BY <1>2 DEF LinkInv, LinkIsNewest
<1>4. Mine' = {}
  BY <1>1, NoneAhead DEF Mine, Workers, agent
<1>5. commands'[link'] = <<>> /\ events'[link'] = <<>>
  BY <1>1, <1>3
<1>6. LinkIsNewest'
  BY <1>1, <1>3 DEF LinkIsNewest, Connection
<1>7. OneCommand' /\ EarlierArePast' /\ LinesOfThreads' /\ RestBetween'
  BY <1>4, <1>5 DEF OneCommand, EarlierArePast, LinesOfThreads, RestBetween
<1>8. ExecuteAlone' /\ AnnouncedHere'
  BY DEF ExecuteAlone, AnnouncedHere
<1> QED BY <1>6, <1>7, <1>8 DEF LinkInv

\* A command is sent when the session is at rest.
LEMMA IssueKeeps ==
    ASSUME IInv, LinkInv, state \in {"idle", "reserved"}, NEW cmd \in Commands,
           NEW k \in Key \cup {None}, NEW next \in Waiting, Issue(cmd, k, next),
           next = "execute_ready" => cmd = "EXECUTE",
           announced' = announced, next # "execute_ready" => announced = None
    PROVE  LinkInv'
<1> DEFINE t == [cmd |-> cmd, key |-> k, rid |-> _req_counter + 1]
<1>1. /\ link \in Connection /\ _req_counter \in Nat /\ connections \in Nat
      /\ link = connections /\ commands \in [Connection -> Seq(Command)]
  BY SessionAssumption DEF IInv, TypeOK, LinkInv, LinkIsNewest
<1>2. commands[link] = <<>>
  BY DEF LinkInv, OneCommand, Waiting
<1>3. /\ _req_counter' = _req_counter + 1 /\ state' = next
      /\ commands' = [commands EXCEPT ![link] = Append(@, t)]
      /\ UNCHANGED <<link, connections, events, worker>>
  BY DEF Issue, agent
<1>4. /\ commands'[link] = <<t>> /\ \A c \in Connection \ {link} : commands'[c] = commands[c]
  BY <1>1, <1>2, <1>3
<1>5. t.rid = _req_counter + 1 /\ t.cmd = cmd
  OBVIOUS
<1> HIDE DEF t
<1>6. Mine' = Mine /\ Workers' = Workers /\ \A w \in Workers : worker[w].rid \in Nat
  BY <1>3, MineTypes DEF Mine, Workers
<1>7. \A w \in Mine : Past(w) /\ worker[w].rid <= _req_counter /\ worker[w].rid \in Nat
  BY <1>6 DEF LinkInv, RestBetween, EarlierArePast, Mine
<1>8. LinkIsNewest'
  BY <1>1, <1>3, <1>4 DEF LinkInv, LinkIsNewest, Connection
<1>9. OneCommand'
  BY <1>1, <1>3, <1>4, <1>5, <1>6, <1>7 DEF OneCommand
<1>10. EarlierArePast'
  BY <1>1, <1>3, <1>6, <1>7 DEF LinkInv, EarlierArePast, Past
<1>11. LinesOfThreads'
  BY <1>3, <1>6 DEF LinkInv, LinesOfThreads, Past
<1>12. RestBetween'
  BY <1>3 DEF RestBetween, Waiting
<1>13. ExecuteAlone'
  BY <1>1, <1>3, <1>4, <1>5, <1>6, <1>7 DEF ExecuteAlone, Waiting
<1>14. AnnouncedHere'
  BY <1>3 DEF LinkInv, AnnouncedHere, Dispatched, Workers
<1> QED BY <1>8, <1>9, <1>10, <1>11, <1>12, <1>13, <1>14 DEF LinkInv

\* A line is taken.
LEMMA TakeLeaves ==
    ASSUME IInv, state # "down", Incoming # <<>>, Take
    PROVE  /\ link \in Connection /\ Len(events[link]) \in Nat \ {0}
           /\ Head(Incoming) = events[link][1]
           /\ Len(events'[link]) = Len(events[link]) - 1
           /\ \A i \in 1..Len(events'[link]) : events'[link][i] = events[link][i + 1]
           /\ \A c \in Connection \ {link} : events'[c] = events[c]
<1>1. link \in Connection /\ events \in [Connection -> Seq(Event)]
  BY DEF IInv, TypeOK
<1>2. events[link] \in Seq(Event) /\ events[link] # <<>>
  BY <1>1 DEF Incoming
<1>3. events'[link] = Tail(events[link]) /\ \A c \in Connection \ {link} : events'[c] = events[c]
  BY <1>1 DEF Take
<1> QED BY <1>1, <1>2, <1>3, HeadTailProperties, EmptySeq DEF Incoming

LEMMA TakeKeeps ==
    ASSUME IInv, LinkInv, state # "down", state' # "down", Incoming # <<>>, Take,
           UNCHANGED <<link, _req_counter, connections, commands, worker>>
    PROVE  /\ LinkIsNewest' /\ EarlierArePast' /\ LinesOfThreads'
           /\ Mine' = Mine /\ \A w \in Mine : Past(w)' = Past(w)
<1>0. link \in Connection /\ connections \in Nat /\ link = connections
  BY SessionAssumption DEF IInv, TypeOK, LinkInv, LinkIsNewest
<1>1. /\ Mine' = Mine /\ \A w \in Mine : Past(w)' = Past(w)
  BY DEF Mine, Past, Workers
<1>2. LinkIsNewest'
  BY <1>0, TakeLeaves DEF LinkInv, LinkIsNewest, Connection
<1>3. EarlierArePast'
  BY <1>1 DEF LinkInv, EarlierArePast
<1>4. LinesOfThreads'
  <2> SUFFICES ASSUME NEW i \in 1..Len(events'[link]),
                      events'[link][i].event = "READY" \/ events'[link][i].conn = link
               PROVE  /\ \E w \in Mine : worker[w].rid = events'[link][i].rid
                      /\ events'[link][i].event # "READY" =>
                           \A w \in Mine : worker[w].rid = events'[link][i].rid => Past(w)
    BY <1>1 DEF LinesOfThreads
  <2>1. i + 1 \in 1..Len(events[link]) /\ events'[link][i] = events[link][i + 1]
    BY TakeLeaves
  <2> QED BY <2>1 DEF LinkInv, LinesOfThreads
<1> QED BY <1>1, <1>2, <1>3, <1>4

\* A result that is taken was written by a thread that is past; with it all are.
LEMMA ResultIsLast ==
    ASSUME IInv, LinkInv, state \in Results, Incoming # <<>>, Take,
           Head(Incoming).rid = _req_counter, Head(Incoming).event # "READY"
    PROVE  \A w \in Mine : Past(w)
<1>1. 1 \in 1..Len(events[link]) /\ Head(Incoming) = events[link][1] /\ _req_counter \in Nat
  BY TakeLeaves DEF Results, IInv, TypeOK
<1>2. events[link][1].conn = link
  BY <1>1 DEF IInv, CleanLink
<1>3. \A w \in Mine : worker[w].rid = _req_counter => Past(w)
  BY <1>1, <1>2 DEF LinkInv, LinesOfThreads, Results
<1>4. \A w \in Mine : worker[w].rid \in Nat
  BY MineTypes
<1> QED BY <1>1, <1>3, <1>4 DEF LinkInv, EarlierArePast, Results

LEMMA ManagerKeepsLink ==
    ASSUME IInv, LinkInv, Manager
    PROVE  LinkInv'
<1>0. UNCHANGED agent /\ UNCHANGED worker /\ Workers' = Workers
  BY ManagerLeavesAgent DEF agent, Workers
<1>1. CASE CmdStart \/ ReserveFails \/ (CrackTask /\ Connect)
  <2>1. Connect /\ state' \in {"idle", "cracked"}
    BY <1>1 DEF CmdStart, ReserveFails, CrackTask
  <2>2. announced' = None
    BY <1>1 DEF CmdStart, ReserveFails, CrackTask, LinkInv, AnnouncedHere
  <2> QED BY <1>0, <2>1, <2>2, ConnectStarts
<1>2. CASE Sync \/ \E k \in Key : Reserve(k)
  <2>1. announced = None
    BY <1>2 DEF Sync, Reserve, LinkInv, AnnouncedHere
  <2> QED BY <1>2, <2>1, IssueKeeps DEF Sync, Reserve, Waiting, Commands
<1>3. CASE Execute
  BY <1>3, IssueKeeps DEF Execute, Waiting, Commands, IInv, TypeOK
<1>4. CASE MissingToken \/ (CrackTask /\ UNCHANGED <<link, network>>)
  <2>1. /\ state # "down" /\ state' \in {"idle", "cracked"} /\ announced' = None
        /\ UNCHANGED <<link, _req_counter, connections, commands, events>>
        /\ state' = "idle" => state = "reserved"
        /\ state' = "cracked" => state \in InFlight
    BY <1>4 DEF MissingToken, CrackTask, network, InFlight
  <2>2. Mine' = Mine /\ \A w \in Mine : Past(w)' = Past(w)
    BY <1>0, <2>1 DEF Mine, Past
  <2>3. LinkIsNewest'
    BY <2>1 DEF LinkInv, LinkIsNewest, Connection
  <2>4. EarlierArePast' /\ LinesOfThreads' /\ RestBetween'
    BY <1>0, <2>1, <2>2 DEF LinkInv, EarlierArePast, LinesOfThreads, RestBetween
  <2>5. OneCommand'
    BY <1>0, <2>1, <2>2 DEF LinkInv, OneCommand, Waiting
  <2>6. ExecuteAlone' /\ AnnouncedHere'
    BY <2>1 DEF ExecuteAlone, AnnouncedHere
  <2> QED BY <2>3, <2>4, <2>5, <2>6 DEF LinkInv
<1>5. CASE SkipStale
  <2>1. /\ state # "down" /\ Incoming # <<>> /\ Take
        /\ UNCHANGED <<state, link, _req_counter, announced, connections, commands>>
    BY <1>5 DEF SkipStale, manager, Waiting
  <2>2. /\ LinkIsNewest' /\ EarlierArePast' /\ LinesOfThreads'
        /\ Mine' = Mine /\ \A w \in Mine : Past(w)' = Past(w)
    BY <1>0, <2>1, TakeKeeps
  <2>3. OneCommand' /\ RestBetween' /\ ExecuteAlone'
    BY <1>0, <2>1, <2>2 DEF LinkInv, OneCommand, RestBetween, ExecuteAlone
  <2>4. AnnouncedHere'
    BY <1>0, <2>1 DEF LinkInv, AnnouncedHere, Dispatched
  <2> QED BY <2>2, <2>3, <2>4 DEF LinkInv
<1>6. CASE RecvReady
  <2>1. /\ state \in Waiting /\ Incoming # <<>> /\ Take
        /\ Head(Incoming).rid = _req_counter /\ Head(Incoming).event = "READY"
        /\ UNCHANGED <<link, _req_counter, announced, connections, commands>>
        /\ state' = Acknowledged(state)
    BY <1>6 DEF RecvReady, Answer
  <2>2. state # "down" /\ state' \in Results
        /\ (state' = "execute_result" <=> state = "execute_ready")
    BY <2>1 DEF Waiting, Acknowledged, Results
  <2>3. /\ LinkIsNewest' /\ EarlierArePast' /\ LinesOfThreads'
        /\ Mine' = Mine /\ \A w \in Mine : Past(w)' = Past(w)
    BY <1>0, <2>1, <2>2, TakeKeeps DEF Results
  <2>4. commands[link] = <<>>
    <3>1. 1 \in 1..Len(events[link]) /\ Head(Incoming) = events[link][1]
      BY <2>1, <2>2, TakeLeaves
    <3>2. \E w \in Mine : worker[w].rid = _req_counter
      BY <2>1, <2>2, <3>1 DEF LinkInv, LinesOfThreads
    <3> QED BY <2>2, <3>2 DEF LinkInv, OneCommand
  <2>5. OneCommand' /\ RestBetween'
    BY <2>1, <2>2, <2>4 DEF OneCommand, RestBetween, Results
  <2>6. ExecuteAlone'
    BY <1>0, <2>1, <2>2, <2>3 DEF LinkInv, ExecuteAlone, Results
  <2>7. AnnouncedHere'
    BY <1>0, <2>1, <2>2 DEF LinkInv, AnnouncedHere, Dispatched, Waiting
  <2> QED BY <2>3, <2>5, <2>6, <2>7 DEF LinkInv
<1>7. CASE RecvReserved \/ RecvDone
  <2>1. /\ state \in Results /\ Incoming # <<>> /\ Take
        /\ Head(Incoming).rid = _req_counter /\ Head(Incoming).event # "READY"
        /\ UNCHANGED <<link, _req_counter, connections, commands>>
        /\ state' \in {"idle", "reserved"} /\ (state' = "idle" => announced' = None)
    BY <1>7 DEF RecvReserved, RecvDone, Answer, Results
  <2>2. /\ LinkIsNewest' /\ EarlierArePast' /\ LinesOfThreads'
        /\ Mine' = Mine /\ \A w \in Mine : Past(w)' = Past(w)
    BY <1>0, <2>1, TakeKeeps DEF Results
  <2>3. commands[link] = <<>>
    BY <2>1 DEF LinkInv, OneCommand, Results, Waiting
  <2>4. OneCommand' /\ ExecuteAlone'
    BY <2>1, <2>3 DEF OneCommand, ExecuteAlone
  <2>5. RestBetween'
    BY <2>1, <2>2, ResultIsLast DEF RestBetween
  <2>6. AnnouncedHere'
    BY <1>0, <2>1 DEF AnnouncedHere, IInv, CleanLink, Dispatched
  <2> QED BY <2>2, <2>4, <2>5, <2>6 DEF LinkInv
<1>8. CASE StopManager
  <2>1. /\ state' = "down" /\ announced' = None /\ UNCHANGED <<connections, commands>> /\ Close
    BY <1>8 DEF StopManager
  <2>2. LinkIsNewest'
    BY <2>1 DEF Close, LinkInv, LinkIsNewest, Connection
  <2> QED BY <2>1, <2>2 DEF LinkInv, OneCommand, EarlierArePast, LinesOfThreads, RestBetween,
                            ExecuteAlone, AnnouncedHere
<1> QED BY <1>1, <1>2, <1>3, <1>4, <1>5, <1>6, <1>7, <1>8 DEF Manager, CrackTask
\* What a command thread leaves alone, and what it writes.
LEMMA ThreadWrites ==
    ASSUME IInv, NEW w \in Workers, RunCmd(w)
    PROVE  /\ Workers' = Workers /\ Mine' = Mine
           /\ UNCHANGED <<state, link, _req_counter, announced, connections, commands, _conn>>
           /\ \A v \in Workers : /\ worker'[v].rid = worker[v].rid /\ worker'[v].cmd = worker[v].cmd
                                 /\ Past(v) => Past(v)'
           /\ \A c \in Connection :
                 \/ events'[c] = events[c]
                 \/ /\ c = _conn /\ Past(w)'
                    /\ ~Past(w)
                    /\ \E e \in Event :
                          /\ events'[c] = Append(events[c], e)
                          /\ e.event # "READY"
                          /\ e.rid = worker[w].rid /\ e.conn = worker[w].conn
<1>1. /\ Workers' = Workers /\ worker[w] \in Thread /\ DOMAIN worker = Workers
      /\ \A v \in Workers \ {w} : worker'[v] = worker[v]
      /\ \A v \in Workers : worker'[v].conn = worker[v].conn
      /\ UNCHANGED <<manager, connections, _conn>>
  BY MineTypes, ThreadKeepsSession DEF IInv, Workers
<1>2. /\ \A at : Go(w, at) => /\ worker'[w].rid = worker[w].rid /\ worker'[w].cmd = worker[w].cmd
                              /\ worker'[w].at = at
  BY <1>1 DEF Go, Thread
<1>3. \A e : Report(w, e) => worker'[w].rid = worker[w].rid /\ worker'[w].cmd = worker[w].cmd
  BY <1>1 DEF Report, Thread
<1>4. (\E at : Go(w, at)) \/ (\E e : Report(w, e))
  BY DEF RunCmd, ReserveBind, ReserveError, ReserveStore, EnterProtocol, PopReserved, Protocol,
         SendCheck, SendAll, Finally
<1>5. UNCHANGED commands
  BY DEF RunCmd, ReserveBind, ReserveError, ReserveStore, EnterProtocol, PopReserved, Protocol,
         SendCheck, SendAll, Finally, network
<1>6. Past(w) => Past(w)'
  <2>1. CASE Finally(w)
    BY <1>2, <2>1 DEF Finally, Past
  <2>2. Past(w) => Finally(w)
    BY DEF Past, RunCmd, ReserveBind, ReserveError, ReserveStore, EnterProtocol, PopReserved,
           Protocol, SendCheck, SendAll, Finally, Is
  <2> QED BY <2>1, <2>2
<1>7. Mine' = Mine
  BY <1>1 DEF Mine, manager
<1>8. ASSUME NEW c \in Connection, events'[c] # events[c]
      PROVE  /\ c = _conn /\ Past(w)' /\ ~Past(w)
             /\ \E e \in Event : /\ events'[c] = Append(events[c], e) /\ e.event # "READY"
                                 /\ e.rid = worker[w].rid /\ e.conn = worker[w].conn
  <2> DEFINE e == [event |-> worker[w].event, rid |-> worker[w].rid, conn |-> worker[w].conn,
                   port |-> IF worker[w].event = "RESERVED" THEN w ELSE None]
  <2>1. SendAll(w)
    BY <1>8 DEF RunCmd, ReserveBind, ReserveError, ReserveStore, EnterProtocol, PopReserved,
                Protocol, SendCheck, Finally, network
  <2>2. w \in Nat
    BY DEF IInv, TypeOK, Workers
  <2>3. e \in Event /\ e.event # "READY" /\ e.rid = worker[w].rid /\ e.conn = worker[w].conn
    BY <1>1, <2>2, SessionAssumption DEF Thread, Event
  <2>4. Emit(e) /\ worker[w].at = "sendall" /\ Go(w, AfterSend(w))
    BY <2>1 DEF SendAll
  <2> HIDE DEF e
  <2>5. c = _conn /\ events'[c] = Append(events[c], e)
    BY <1>8, <2>4 DEF Emit, IInv, TypeOK
  <2>6. Past(w)' /\ ~Past(w)
    BY <1>2, <2>4 DEF Past, AfterSend
  <2> QED BY <2>3, <2>5, <2>6
<1>9. \A v \in Workers : /\ worker'[v].rid = worker[v].rid /\ worker'[v].cmd = worker[v].cmd
                         /\ Past(v) => Past(v)'
  BY <1>1, <1>2, <1>3, <1>4, <1>6 DEF Past
<1>10. UNCHANGED <<state, link, _req_counter, announced, connections, _conn>>
  BY <1>1 DEF manager
<1> QED BY <1>1, <1>5, <1>7, <1>8, <1>9, <1>10

\* The lines behind which one is put.
LEMMA AppendLine ==
    ASSUME TypeOK, NEW c \in Connection, NEW e \in Event, events'[c] = Append(events[c], e),
           NEW i \in 1..Len(events'[c])
    PROVE  (i \in 1..Len(events[c]) /\ events'[c][i] = events[c][i]) \/ events'[c][i] = e
<1>1. events[c] \in Seq(Event) /\ Len(events[c]) \in Nat
  BY DEF TypeOK
<1>2. /\ Len(events'[c]) = Len(events[c]) + 1
      /\ \A k \in 1..Len(events[c]) : events'[c][k] = events[c][k]
      /\ events'[c][Len(events[c]) + 1] = e
  BY <1>1, AppendProperties
<1> QED BY <1>1, <1>2

\* The Agent's connection is made.
LEMMA ConnIsMade ==
    ASSUME IInv, _conn # None
    PROVE  _conn <= connections /\ _conn \in Nat /\ connections \in Nat
<1>1. _conn \in Connection /\ connections \in Nat
  BY SessionAssumption DEF IInv, TypeOK
<1> QED BY <1>1, ConnectionIsNat DEF IInv, InOrder, Newest

LEMMA ThreadKeepsLink ==
    ASSUME IInv, LinkInv, NEW w \in Workers, RunCmd(w)
    PROVE  LinkInv'
<1>1. /\ Workers' = Workers /\ Mine' = Mine /\ Mine \subseteq Workers
      /\ UNCHANGED <<state, link, _req_counter, announced, connections, commands, _conn>>
      /\ \A v \in Workers : /\ worker'[v].rid = worker[v].rid /\ worker'[v].cmd = worker[v].cmd
                            /\ Past(v) => Past(v)'
  BY ThreadWrites, MineTypes
<1>2. LinkIsNewest'
  <2> SUFFICES ASSUME NEW c \in Connection, c > connections PROVE events'[c] = events[c]
    BY <1>1 DEF LinkInv, LinkIsNewest, Connection
  <2>1. c \in Nat /\ None # c
    BY ConnectionIsNat
  <2>2. c # _conn
    BY <2>1, ConnIsMade
  <2> QED BY <2>2, ThreadWrites
<1>3. OneCommand'
  BY <1>1 DEF LinkInv, OneCommand
<1>4. EarlierArePast'
  BY <1>1 DEF LinkInv, EarlierArePast
<1>5. RestBetween' /\ ExecuteAlone'
  BY <1>1 DEF LinkInv, RestBetween, ExecuteAlone
<1>6. AnnouncedHere'
  BY <1>1, DispatchedStays DEF LinkInv, AnnouncedHere, IInv, Next, Dispatched, Mine
<1>7. LinesOfThreads'
  <2> SUFFICES ASSUME state # "down", NEW i \in 1..Len(events'[link]),
                      events'[link][i].event = "READY" \/ events'[link][i].conn = link
               PROVE  /\ \E v \in Mine : worker[v].rid = events'[link][i].rid
                      /\ events'[link][i].event # "READY" =>
                           \A v \in Mine : worker[v].rid = events'[link][i].rid => Past(v)'
    BY <1>1 DEF LinesOfThreads
  <2>0. link \in Connection
    BY DEF IInv, TypeOK
  <2>1. CASE i \in 1..Len(events[link]) /\ events'[link][i] = events[link][i]
    BY <1>1, <2>1 DEF LinkInv, LinesOfThreads
  <2>2. ASSUME NEW e \in Event, events'[link] = Append(events[link], e), Past(w)',
               e.event # "READY", e.rid = worker[w].rid, e.conn = worker[w].conn,
               events'[link][i] = e
        PROVE  /\ \E v \in Mine : worker[v].rid = events'[link][i].rid
               /\ \A v \in Mine : worker[v].rid = events'[link][i].rid => Past(v)'
    <3>1. w \in Mine
      BY <2>2 DEF Mine
    <3>2. \A v \in Mine : worker[v].rid = worker[w].rid => v = w
      BY <3>1 DEF LinkInv, EarlierArePast
    <3> QED BY <2>2, <3>1, <3>2
  <2>3. CASE events'[link] = events[link]
    BY <2>1, <2>3
  <2>4. ASSUME NEW e \in Event, events'[link] = Append(events[link], e)
        PROVE  (i \in 1..Len(events[link]) /\ events'[link][i] = events[link][i]) \/ events'[link][i] = e
    BY <2>0, <2>4, AppendLine DEF IInv
  <2> QED BY <2>0, <2>1, <2>2, <2>3, <2>4, ThreadWrites
<1> QED BY <1>2, <1>3, <1>4, <1>5, <1>6, <1>7 DEF LinkInv

\* A command is dispatched.
LEMMA DispatchTakes ==
    ASSUME IInv, Dispatch
    PROVE  LET c == commands[_conn][1]
               n == Len(worker) + 1
           IN  /\ _conn \in Connection /\ Len(commands[_conn]) \in Nat \ {0} /\ c \in Command
               /\ Len(commands'[_conn]) = Len(commands[_conn]) - 1
               /\ \A d \in Connection \ {_conn} : commands'[d] = commands[d] /\ events'[d] = events[d]
               /\ worker'[n].rid = c.rid /\ worker'[n].cmd = c.cmd
               /\ \/ events'[_conn] = events[_conn]
                  \/ \E e \in Event : /\ events'[_conn] = Append(events[_conn], e)
                                      /\ e.event = "READY" /\ e.rid = c.rid
<1>1. _conn \in Connection /\ commands[_conn] \in Seq(Command) /\ commands[_conn] # <<>>
  BY DEF Dispatch, IInv, TypeOK
<1>2. /\ Len(commands[_conn]) \in Nat \ {0} /\ Head(commands[_conn]) = commands[_conn][1]
      /\ commands[_conn][1] \in Command
      /\ Len(Tail(commands[_conn])) = Len(commands[_conn]) - 1
  BY <1>1, HeadTailProperties, EmptySeq
<1>3. PICK c : c = commands[_conn][1]
  OBVIOUS
<1> DEFINE r == [event |-> "READY", rid |-> c.rid, conn |-> _conn, port |-> None]
           t == [cmd |-> c.cmd, key |-> c.key, rid |-> c.rid, gen |-> _generation,
                 conn |-> _conn, at |-> "start", event |-> None]
<1>4. Emit(r) /\ worker' = Append(worker, t) /\ commands' = [commands EXCEPT ![_conn] = Tail(@)]
  BY <1>2, <1>3 DEF Dispatch
<1>5. r \in Event /\ r.event = "READY" /\ r.rid = c.rid /\ t.rid = c.rid /\ t.cmd = c.cmd
  BY <1>1, <1>2, <1>3 DEF Event, Command
<1> HIDE DEF r, t
<1>6. commands \in [Connection -> Seq(Command)] /\ events \in [Connection -> Seq(Event)]
      /\ worker \in Seq(Thread)
  BY DEF IInv, TypeOK
<1>7. worker'[Len(worker) + 1] = t
  BY <1>4, <1>6, AppendProperties
<1>8. /\ Len(commands'[_conn]) = Len(commands[_conn]) - 1
      /\ \A d \in Connection \ {_conn} : commands'[d] = commands[d]
  BY <1>1, <1>2, <1>4, <1>6
<1>9. /\ \A d \in Connection \ {_conn} : events'[d] = events[d]
      /\ events'[_conn] = events[_conn] \/ events'[_conn] = Append(events[_conn], r)
  BY <1>1, <1>4, <1>6 DEF Emit
<1> QED BY <1>1, <1>2, <1>3, <1>5, <1>7, <1>8, <1>9

LEMMA DispatchKeepsLink ==
    ASSUME IInv, LinkInv, Dispatch
    PROVE  LinkInv'
<1> DEFINE n == Len(worker) + 1
<1>1. /\ Workers' = Workers \cup {n} /\ n \notin Workers /\ Mine \subseteq Workers
      /\ \A v \in Workers : worker'[v] = worker[v]
      /\ worker'[n].conn = _conn
      /\ UNCHANGED <<state, link, _req_counter, announced, connections, _conn>>
  BY DispatchAdds, MineTypes DEF IInv, manager
<1>2. PICK c : c = commands[_conn][1]
  OBVIOUS
<1>3. /\ _conn \in Connection /\ Len(commands[_conn]) \in Nat \ {0} /\ c \in Command
      /\ Len(commands'[_conn]) = Len(commands[_conn]) - 1
      /\ \A d \in Connection \ {_conn} : commands'[d] = commands[d] /\ events'[d] = events[d]
      /\ worker'[n].rid = c.rid /\ worker'[n].cmd = c.cmd
      /\ \/ events'[_conn] = events[_conn]
         \/ \E e \in Event : /\ events'[_conn] = Append(events[_conn], e)
                             /\ e.event = "READY" /\ e.rid = c.rid
  BY <1>2, DispatchTakes
<1> HIDE DEF n
<1>4. LinkIsNewest'
  <2> SUFFICES ASSUME NEW d \in Connection, d > connections
               PROVE  commands'[d] = commands[d] /\ events'[d] = events[d]
    BY <1>1 DEF LinkInv, LinkIsNewest, Connection
  <2>1. d \in Nat /\ _conn # None
    BY <1>3, ConnectionIsNat
  <2>2. d # _conn
    BY <2>1, ConnIsMade
  <2> QED BY <1>3, <2>2
<1>5. AnnouncedHere'
  BY <1>1, DispatchedStays DEF LinkInv, AnnouncedHere, IInv, Next, MainLoop, Dispatched
<1>6. CASE state = "down"
  BY <1>1, <1>4, <1>5, <1>6 DEF LinkInv, OneCommand, EarlierArePast, LinesOfThreads, RestBetween,
                                ExecuteAlone
<1>7. CASE state # "down" /\ _conn # link
  <2>1. link \in Connection
    BY <1>7 DEF IInv, TypeOK
  <2>2. commands'[link] = commands[link] /\ events'[link] = events[link]
    BY <1>3, <1>7, <2>1
  <2>3. Mine' = Mine /\ \A v \in Mine : worker'[v] = worker[v] /\ (Past(v)' = Past(v))
    BY <1>1, <1>7 DEF Mine, Past
  <2>4. OneCommand' /\ EarlierArePast'
    BY <1>1, <2>2, <2>3 DEF LinkInv, OneCommand, EarlierArePast
  <2>5. LinesOfThreads'
    BY <1>1, <2>2, <2>3 DEF LinkInv, LinesOfThreads
  <2>6. RestBetween' /\ ExecuteAlone'
    BY <1>1, <2>2, <2>3 DEF LinkInv, RestBetween, ExecuteAlone
  <2> QED BY <1>4, <1>5, <2>4, <2>5, <2>6 DEF LinkInv
<1>8. CASE state # "down" /\ _conn = link
  <2>1. /\ state \in Waiting \cup {"cracked"} /\ Len(commands[link]) = 1
        /\ c.rid = _req_counter /\ \A w \in Mine : worker[w].rid # _req_counter
    BY <1>2, <1>3, <1>8 DEF LinkInv, OneCommand
  <2>2. link \in Connection /\ _req_counter \in Nat
    BY <1>8 DEF IInv, TypeOK
  <2>3. commands'[link] = <<>>
    <3>1. commands' \in [Connection -> Seq(Command)]
      BY NextIInv DEF IInv, TypeOK, Next, MainLoop
    <3>2. commands'[link] \in Seq(Command) /\ Len(commands'[link]) = 0
      BY <1>3, <1>8, <2>1, <2>2, <3>1
    <3> QED BY <3>2, EmptySeq
  <2>4. /\ Mine' = Mine \cup {n} /\ n \notin Mine
        /\ \A v \in Mine : worker'[v] = worker[v] /\ (Past(v)' = Past(v))
        /\ worker'[n].rid = _req_counter
    BY <1>1, <1>3, <1>8, <2>1 DEF Mine, Past
  <2>5. OneCommand' /\ RestBetween'
    BY <1>1, <2>1, <2>3 DEF OneCommand, RestBetween, Waiting
  <2>6. \A v \in Mine : /\ worker[v].rid \in Nat /\ worker[v].rid < _req_counter /\ Past(v)
                        /\ \A u \in Mine : worker[u].rid = worker[v].rid => u = v
    BY <1>8, <2>1, <2>2, MineTypes DEF LinkInv, EarlierArePast
  <2>7. EarlierArePast'
    BY <1>1, <2>2, <2>4, <2>6 DEF EarlierArePast
  <2>8. ExecuteAlone'
    <3>1. state = "execute_ready" => c.cmd = "EXECUTE"
      BY <1>2, <1>8, <2>1 DEF LinkInv, ExecuteAlone
    <3> QED BY <1>1, <1>3, <2>1, <2>3, <2>4, <3>1 DEF ExecuteAlone, Waiting
  <2>9. LinesOfThreads'
    <3> SUFFICES ASSUME NEW i \in 1..Len(events'[link]),
                        events'[link][i].event = "READY" \/ events'[link][i].conn = link
                 PROVE  /\ \E v \in Mine \cup {n} : worker'[v].rid = events'[link][i].rid
                        /\ events'[link][i].event # "READY" =>
                             \A v \in Mine \cup {n} : worker'[v].rid = events'[link][i].rid => Past(v)'
      BY <1>1, <2>4 DEF LinesOfThreads
    <3>1. CASE i \in 1..Len(events[link]) /\ events'[link][i] = events[link][i]
      <4>1. PICK v \in Mine : worker[v].rid = events[link][i].rid
        BY <1>8, <3>1 DEF LinkInv, LinesOfThreads
      <4>2. events[link][i].rid # _req_counter
        BY <2>1, <4>1
      <4>3. \A u \in Mine : Past(u)' /\ worker'[u] = worker[u]
        BY <2>4, <2>6
      <4> QED BY <2>4, <3>1, <4>1, <4>2, <4>3
    <3>2. ASSUME NEW e \in Event, e.event = "READY", e.rid = c.rid, events'[link][i] = e
          PROVE  /\ \E v \in Mine \cup {n} : worker'[v].rid = events'[link][i].rid
                 /\ events'[link][i].event = "READY"
      BY <2>1, <2>4, <3>2
    <3>3. ASSUME NEW e \in Event, events'[link] = Append(events[link], e)
          PROVE  (i \in 1..Len(events[link]) /\ events'[link][i] = events[link][i]) \/ events'[link][i] = e
      BY <2>2, <3>3, AppendLine DEF IInv
    <3> QED BY <1>3, <1>8, <3>1, <3>2, <3>3
  <2> QED BY <1>4, <1>5, <2>5, <2>7, <2>8, <2>9 DEF LinkInv
<1> QED BY <1>6, <1>7, <1>8

LEMMA LinkInvKept ==
    ASSUME IInv, LinkInv, [Next]_vars
    PROVE  LinkInv'
<1>1. CASE UNCHANGED <<state, link, _req_counter, announced, connections, commands, events, worker>>
  BY <1>1 DEF LinkInv, LinkIsNewest, OneCommand, EarlierArePast, LinesOfThreads, RestBetween,
              ExecuteAlone, AnnouncedHere, Dispatched, Mine, Past, Workers
<1>2. CASE MainLoop /\ ~Dispatch
  BY <1>1, <1>2 DEF MainLoop, Accept, NewGeneration, ClearReserved, Disconnected, network, manager
<1>3. CASE UNCHANGED vars
  BY <1>1, <1>3 DEF vars, manager, network, agent
<1> QED BY <1>2, <1>3, ManagerKeepsLink, DispatchKeepsLink, ThreadKeepsLink DEF Next, MainLoop

LEMMA InitLinkInv == Init => LinkInv
<1> SUFFICES ASSUME Init PROVE LinkInv
  OBVIOUS
<1>1. \A c \in Connection : commands[c] = <<>> /\ events[c] = <<>>
  BY DEF Init
<1> QED BY <1>1 DEF Init, LinkInv, LinkIsNewest, OneCommand, EarlierArePast, LinesOfThreads,
                    RestBetween, ExecuteAlone, AnnouncedHere

\* While a reservation is announced, the thread of the present generation that could
\* touch the reservations is the one of the EXECUTE in flight.
LEMMA OnlyExecute ==
    ASSUME IInv, LinkInv, announced # None, NEW w \in Workers, ~Past(w)
    PROVE  \/ worker[w].gen < _generation
           \/ worker[w].cmd = "EXECUTE" /\ worker[w].rid = _req_counter
<1>1. state \in {"reserved", "execute_ready", "execute_result"} /\ Mine # {}
  BY DEF LinkInv, AnnouncedHere, Dispatched, Mine
<1>2. main \in {"accept", "recv"} /\ _conn = link
  BY <1>1, MineArePresent DEF LinkInv
<1>3. worker[w].gen \in Nat /\ _generation \in Nat /\ worker[w].gen <= _generation
  BY ThreadTypes DEF IInv, GenerationOfSession
<1> SUFFICES ASSUME worker[w].gen = _generation
             PROVE  worker[w].cmd = "EXECUTE" /\ worker[w].rid = _req_counter
  BY <1>3
<1>4. w \in Mine
  BY <1>2 DEF IInv, GenerationOfSession, Mine
<1>5. worker[w].rid \in Nat /\ _req_counter \in Nat
  BY MineTypes DEF IInv, TypeOK
<1>6. worker[w].rid = _req_counter
  BY <1>1, <1>4, <1>5 DEF LinkInv, EarlierArePast
<1>7. state # "reserved"
  BY <1>4 DEF LinkInv, RestBetween
<1> QED BY <1>1, <1>4, <1>6, <1>7 DEF LinkInv, ExecuteAlone

LEMMA AnnouncedStaysStep ==
    ASSUME IInv, LinkInv, [Next]_vars, announced # None, _reserved'[key] # _reserved[key]
    PROVE  \E w \in Workers :
               /\ worker'[w] # worker[w]
               /\ \/ worker[w].gen < _generation
                  \/ worker[w].cmd = "EXECUTE" /\ worker[w].rid = _req_counter
<1>1. ~ClearReserved
  <2>1. state # "down" /\ Mine # {}
    BY DEF LinkInv, AnnouncedHere, Dispatched, Mine
  <2> QED BY <2>1, MineArePresent DEF LinkInv, ClearReserved
<1>2. PICK w \in Workers : ReserveStore(w) \/ PopReserved(w)
  BY <1>1, ManagerLeavesAgent
     DEF Next, vars, agent, MainLoop, Accept, NewGeneration, Dispatch, Disconnected, RunCmd,
         ReserveBind, ReserveError, EnterProtocol, Protocol, SendCheck, SendAll, Finally
<1>3. worker[w].at \in {"store", "pop"} /\ worker[w] \in Thread
  BY <1>2, MineTypes DEF ReserveStore, PopReserved, Is
<1>4. worker'[w].at \in {"send", "protocol"}
  <2>1. \A at : Go(w, at) => worker'[w].at = at
    BY <1>3 DEF Go, Thread, Workers
  <2>2. \A e : Report(w, e) => worker'[w].at = "send"
    BY <1>3 DEF Report, Thread, Workers
  <2> QED BY <1>2, <2>1, <2>2 DEF ReserveStore, PopReserved
<1> QED BY <1>3, <1>4, OnlyExecute DEF Past

\* ClearReserved, a RESERVE that stores its port and an EXECUTE that takes one change
\* the reservations; while one is announced, only the EXECUTE it is meant for does, or
\* a thread of an earlier generation.
THEOREM AnnouncedReservationStays == Spec => AnnouncedStays
<1>1. IInv /\ LinkInv /\ [Next]_vars =>
        [ announced # None /\ announced' # None /\ _reserved'[key] # _reserved[key] =>
            \E w \in Workers :
                /\ worker'[w] # worker[w]
                /\ \/ worker[w].gen < _generation
                   \/ worker[w].cmd = "EXECUTE" /\ worker[w].rid = _req_counter ]_vars
  BY AnnouncedStaysStep
<1>2. Init => IInv /\ LinkInv
  BY InitIInv, InitLinkInv
<1>3. IInv /\ LinkInv /\ [Next]_vars => IInv' /\ LinkInv'
  BY NextIInv, LinkInvKept
<1> QED BY <1>1, <1>2, <1>3, PTL DEF Spec, AnnouncedStays

=============================================================================
