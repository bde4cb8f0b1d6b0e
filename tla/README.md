# A TLA+ model of the C3 multi-party private membership test

The repository implements a multi-party private membership test (C3): set
holders JOIN, UPDATE or QUIT with a secret-shared Bloom filter, three Agents
(STEWARD, PEER0, PEER1) keep and aggregate the shares, and queriers learn
whether an element is in the union of the sets.  This directory holds TLA+
modules that model the program, from the vector arithmetic up to the server
processes, the TLC configurations that check them, and TLAPS proofs.  Paths
below are relative to the repository.

## 1. Inventory

| component | source | state | operations | hard part |
|---|---|---|---|---|
| TreeCache | `src/mpmt/_tree_cache.py` | `leaf_num`, `phi_f`, `phi_r`, `dirty_leaf`, `_corrupted`, `root_node`; share files, root files, `meta.json` | constructor, `insert`, `update`, `remove`, `execute_merge` | crash or I/O error at any step; several map entries move per call; skipped nodes must be current |
| Manage Server | `application/manage_server/app.py`, `db.py`, `application/_c3_task_status.py`, `application/run.py` | tables `operations`, `users`, `user_agent_tokens`; `task_status.json`; crack flag, availability flag, SYNC queue, running SYNC; three management sockets | `/reserve_*`, `/execute`, `/status`, `ms start`, `ms sync`, `ms exit`, scheduler, one thread per operation | handlers, threads, scheduler and operator interleave; reads before locks; partial dispatch; crash between two commits; leases |
| Agent Server | `application/agent_server/app.py` | `_conn`, `_generation`, `_reserved`, `_exec_thread`; a TreeCache | management session, RESERVE, EXECUTE, SYNC | workers of an old session next to a new one; DONE before the thread slot is free |
| Clients | `application/set_holder/app.py`, `application/querier/app.py` | none that lasts | reserve, poll, run the protocol | a client may stop at any time; the response that carries the ports may be lost |
| Protocols | `src/mpmt/{agent_server,set_holder,querier,util}.py` | channels | JOIN, UPDATE, QUIT, QUERY, merge; `bf_param`, `gen_bf` | four parties whose programs must meet; ring widths and filter sizes at their boundaries |
| aby3 | `include/ref_impl/shr_rep3/aby3.hpp` | ring of two channels per party, four workers' flags, pseudo-random cache | sharing, arithmetic, conversion, opening | worker handshake; three random streams in step though each party has its own position and mode |
| emp2 | `include/ref_impl/shr_add2/emp2.hpp`, `include/common.hpp` | one channel | two-party additive sharing, hash, modulus, equality | widths; the circuit and the local hash must agree |
| bgi16 | `include/ref_impl/dpf/bgi16.hpp` | keys, threads of one evaluation | `gen`, `fullEval`, `rangeEval`, `reveal` | pruned subtrees of a wrapping range; threads that share a buffer; in-place expansion |
| rvector | `include/rvector.hpp` | storage, packed bytes, a file | element access, arithmetic, `pack`, `unpack`, `save`, `load` | eight widths with groups of their own; padding bits; files cut short |
| ideal functionality, bindings | `include/ideal_functionality/`, `src/bind/` | none of their own | interfaces; pybind11 wrappers | checks before a call is forwarded |
| pretreat, logging, I/O | `application/pretreat`, `_c3_log.py`, `_c3_io.py` | files | one-shot preparation, formatting | none |

How they interact.  A client asks the Manager over HTTP to reserve and then
polls `/execute`.  The Manager keeps the queue in its database and, when the
operation is at the head and nothing else runs, asks the Agents to RESERVE a
port over one management connection each, answers the client with the ports,
and starts a thread that sends EXECUTE and collects one terminal event (DONE,
with a leaf token for JOIN, or ERROR) per Agent.  `ms sync` puts a SYNC in a
queue of length one that a scheduler thread starts when nothing is active; it
takes precedence over waiting operations.  An Agent runs the protocol against
its TreeCache: QUERY works on the root with emp2 (towards the Querier), the
point functions (to select filter positions) and aby3 (among the Agents), and
all of them on vectors of rvector.  If the outcome of a request that may have
reached an Agent is unknown, the Manager *cracks* the task: a flag in memory,
`FAILED` rows, and `task_status.json`, which stops every later start.

What makes each part correct, in short: the TreeCache never serves a half done
tree and a merge yields the OR of exactly the current leaves; the Manager has
one request on the wire, keeps the database in agreement with the Agents, stays
FIFO, serves everyone who keeps polling and never forgets a request of unknown
outcome; an Agent keeps the sessions of two Managers apart; a worker touches a
buffer only while it is lent; shares open to what plain arithmetic gives, with
random masks that are in step and never used twice; an evaluated range is that of
the point function, by any number of threads; a vector keeps its padding clear
and a load never brings back something that was not saved; a QUERY answers
whether the element's positions are all set.

## 2. Modules

| module | content |
|---|---|
| `TreeCache` | the TreeCache with its disk, one Agent |
| `TreeCacheAbs` | what it promises: a filter per holder, an aggregate, all or nothing |
| `ManageServer` | the Manager, with the part of clients and Agents it talks to |
| `AgentSession` | the management connection of one Agent: sessions, command threads, reservations |
| `ReshareRing` | the threads of the three `Aby3` objects and the channels between them |
| `Rvector` | vectors, packed vectors and their file, one template width at a time |
| `Aby3` | the shares of three parties, the arithmetic on them, their random streams |
| `Dpf` | the point function: keys, evaluation by threads, reveal |
| `Emp2` | operators: two-party sharing, the hash circuit and the local hash |
| `Query` | the four programs of a QUERY; composes `Emp2` with what `Dpf` and `Aby3` show |
| `MCTreeCache`, `MCManageServer`, `MCAgentSession`, `MCReshareRing`, `MCRvector`, `MCProtocols` | instances for TLC; `MCProtocols` holds those of `Aby3`, `Dpf` and `Query` |
| `NumberLemmas` | division, residues, sums over sets of numbers, the extremes of such sets, steps from 0 to n |
| `TreeCacheProofs` | proofs about `TreeCache`: maps and `meta.json`; files and the refinement |
| `ManageServerProofs`, `AgentSessionProofs`, `ReshareRingProofs`, `Aby3Proofs`, `DpfProofs`, `RvectorProofs` | proofs about the module of that name |

A definition that some run exchanges for another to see a property fail stands
after its variant, whose comment begins with "Mutant of".

### TreeCache

Variables carry the names of the attributes; `meta`, `file` and `root_file` are
the disk.  A Bloom filter is the set of its 1 bits: OR becomes union, and the
ring conversions between the tree and the root preserve the set.  The two share
files of a node are one file, either absent, complete, or `Torn`.

An operation is a chain of steps linked by `pc`: *Begin* (refused when
`_corrupted`, otherwise `_mark_corrupted`), file writes, map changes,
`MarkValid`.  A step boundary is where a crash or an exception leaves a
different disk.  `RaiseIOError`, `RaiseMetaError` and `Crash` can hit every one
of them.  The constructor is the group `Load*`: it rejects a `meta.json` that is
not valid, unreadable, or whose maps fail its checks, picks the root from the
root files, from node 1, or from nowhere, and refuses to start otherwise.  The vector
that it allocates for the root is not initialised, so that a cache without a root on
disk, a new one included, has any of `Memory` in `root_node` until its first merge, and
queries read it.  `_mark_corrupted` sets the flag before it opens `meta.json`: if
`open()` raises, the file is still valid and the next process serves again; if the write
raises, it is malformed (`RaiseMetaError`).
`holders` (the filters as of the last `_mark_valid`) is a history variable and
appears in no guard.

`TreeCacheAbs` is the promise: an operation changes one holder's filter or
nothing, only SYNC changes the aggregate, an operation that was begun and did not
complete breaks the cache for good, and one that failed before it wrote anything stops
it until the next process (`"refusing"`).  Neither keeps queries from reading the root
of the running process, as `response_query` does not look at `_corrupted`; a merge that
failed while it wrote that root may have left anything in it (`Break`).  `Start` says
what a restart serves, which in three cases no SYNC has aggregated (section 6,
divergences).

### ManageServer

`ops`, `user_status` and `tokens` are the three tables, `task_status` is the
file.  `req[c]` is the position of the handler on connection `c`, `thread[x]`
the position of the thread of operation `x`; `thread[SyncReq]` is `_run_sync`,
and `_active_sync` is set exactly while it is not `"none"`.  The database
functions `enqueue_reserved`, `reorder_queue` and `promote_first_queued` are operators
on a value of the table.

A step ends where another thread can come in: what a handler reads before it
takes `self._lock` is a step (`ReserveCheck`, `ExecuteCheck`), and so is each commit
that a handler makes under the lock, which it keeps in between: an eviction is two
(`EvictHead`, `EvictReorder`) for each stale head, then come the promotion (`Promote`)
and BUSY (`QuitBusy`, or `PortsReserved` after the Agents answered).  The renewal of the
lease is part of the step that follows it (`Touch`).  The scheduler reads
`_agents_available` before it waits for the lock: `saw_available` says that it may have
read the flag before a handler cleared it, so that a SYNC can start, or be passed over
(`SchedulerSkip`), after the flag is cleared.  Each commit of `_crack_task` is a step,
with a crash possible between any two commits.  An Agent is reduced to `job` (its `_exec_thread`),
`answer` (its terminal event) and the number of leaves it holds per user.
`AgentDone` leaves the slot in state `"sent"`, because DONE is sent before the
`finally` clause frees it.

`OddErrors` turns on the exceptions that no `except` clause names and the
writes whose errors `_crack_task` logs and skips.  Leases are timed by `Expire`,
which may happen to a waiting operation at any moment: every real timing is
among these behaviours.

### AgentSession

`main` is the position of the Agent's main thread: `_conn` is assigned (`Accept`),
`_generation` incremented (`NewGeneration`), `_reserved` cleared
(`ClearReserved`), then commands are dispatched.  These are separate steps
because the command threads of the old session still run.  `worker[w]` is such a
thread; a port is named by the thread that bound it.  `_send` is two steps under
`_send_lock`: the comparison of generations, and the write to whatever `_conn` is
then.  `_exec_lock` and `_reserved_lock` guard single steps and need no variable.

The Manager's end follows `_reserve_ports`, `_run_execute` and `_run_sync` for
this one Agent.  A failure at another Agent can make it reconnect or crack at any
point.  A restarted Manager counts its request ids from 1 again, which is what
could confuse an answer of an old session with one of the new.  The model lets
it restart after a stop at any point: a stop while an operation is BUSY is
followed by a start only in the window of `manage_forget`.

### ReshareRing

Each party has a protocol thread (`pc`) and the send and receive workers
(`worker`).  `ready`, `done`, `total`, `failed` and `shutdown` are the members of
`Aby3`; a condition variable is the set of threads asleep on it, `notify_one`
wakes one or nobody, and wakeups may be spurious.  `notify_one` belongs to the
step that changes the flag before it.  A channel is a queue of `Capacity` chunks;
its sender blocks when it is full.  Data is abstracted to *who sent it in which
call*, which is what `RightDataArrives` compares.  `_reshare_ring` uses the
workers; scalar operations and `revealAll` use the same channels from the
protocol thread.  A broken connection makes its users throw; the party then shuts
its workers down as the destructor does.  `GoesOn(p)` collects the guards of the
steps that a thread of party `p` can take on its own; `NobodyIsStuck` is stated with
it, because a formula about guards can be proved where one about `ENABLED` cannot.

### Rvector

`ell` is the template argument, chosen at the start.  Storage is a sequence of
*cells*: bits in whole words for a width of one, else a byte per element, of
which the bits above the width may be anything.  Fresh memory holds any of
`Memory`, because the constructor does not initialise it.  Each call of the class
is an action (`Call` records operation, arguments and outcome), a call that
throws in the middle keeps what it has done so far, and outputs may be inputs.
Packing goes group by group as the kernels do, then through the window for the
rest.  A file is the sequence of what was written; a crash, an error or the
`fclose` whose result nobody looks at leaves a prefix of it.  `save` packs between the
header and the payload, so a failed header leaves the buffer alone, and a save that
throws before it truncates the file (its name, or `fopen`) changes nothing at all.
`saved` is the vector of the save that last opened the file.

### Aby3

A program is a list of rounds that the parties begin and finish each at its own
speed: `Begin` draws, computes and sends, `Finish` receives.  `ringConv` is two
rounds.  `gen[p]` is the generator of party `p` with the members of the code:
the cache of blocks, the counter, `crngPtr_`, `crngIsXor_`.  A draw refills
when the mode changed (`Stale`) or too little is left, by the rules of the bit, byte and
vector paths.  `plain` holds the values that plain arithmetic gives, and `spent`
the units of the pseudo-random function each party has used; both are history
variables.  The pseudo-random function is any function.  A wire is a vector of
`Size[w]` elements of the ring of `Width[w]` bits; `Legal` lists what the template
arguments and the checks of sizes let through.  A conversion of no bits returns at
once, draws and sends nothing, and is no round.

### Dpf

`Generate`, then per evaluator `RangeEval` or `FullEval` with its threads (`Visit`,
`Load`, `Store`, `Join`), then the reveal (`Reveal`, `Receive`, `Combine`).  The
tasks are the subtrees of `splitCoff`, a thread visits the leaves of its tasks in
the order of the code (`Visit`), and an element is written by a load and a store
of its memory word, two steps, so that two threads in one word would lose an
update.  A thread may fail; the main thread joins the others before it throws.
`todo` holds the leaves of the present subtree that are still to be written, as a
function of their index.

### Emp2 and Query

`Emp2` has no state: a circuit is an operator of both parties' inputs and the
mask of party 0.  `CircuitHash` and `LocalHash` are the two implementations of
the hash that must agree.  `Query` gives each party a list of steps, taken from
`querier.py` and `response_query`, with the joint steps as rendezvous: a channel
has one user at each end, so buffering adds no order of messages and no deadlock.
`bf_param`'s arithmetic on widths is included, the size of the filter is an input.

## 3. Runs

| run | instance | distinct states | shows |
|---|---|---|---|
| `tree_cache` | 4 leaves, 7 tokens, 2 filters | 173 k | the invariants of the cache and the refinement of `TreeCacheAbs` |
| `manage_threads` | 1 set holder, 1 Agent, 2 connections, 3 operations, 1 SYNC | 1.01 M | `OneRequestOnTheWire`, `SingleActive`, arrival order (`QueueIsFifo`), types |
| `manage_restart` | 1 set holder, 2 Agents, 1 connection, 2 operations, 1 SYNC, 1 crash, odd errors | 1.28 M | database and Agents agree, unknown outcomes are remembered, cracked is the end, final is final |
| `manage_live` | 2 queriers, 1 Agent, 2 operations, 1 SYNC, 1 dead client | 76 k | everyone who polls is served; an accepted SYNC runs or the Agents are gone |
| `agent_session` | 1 key, 2 connections, 5 commands | 742 k | answers, protocols and reservations of two sessions are kept apart |
| `reshare_ring` | 4 calls (vector, scalar, reveal, long vector), capacity 1, one connection may break | 1.51 M | `BufferIsLent`, `RightDataArrives`, `NobodyIsStuck` |
| `rvector` | widths 1 to 8, words of 8 bits, 2 vectors, calls up to a cost of 6 | 310 k | padding, exact arithmetic, truthful loads, types |
| `protocols` | sharing: bits and integers modulo 4, vectors of 3, 3 rounds; point functions: domain of 8; QUERY: filters of 5 to 7 | 472 k | shares open to plain values, generators in step, fresh masks; exact ranges without a data race; the answer of a QUERY |
| `manage_forget`, `manage_busy_agent`, `agent_stale_reserve`, `query_power` | as small as possible | | findings, section 6 |

Bounds.  *tree_cache*: four leaves give a tree with two levels of internal nodes,
a leaf that is not in the last pair (so `remove` must move one), and merges that
skip a clean internal node; seven tokens are exactly what four leaves need.  Two
filters distinguish a stale node from a current one.  *manage_...*: two
connections are enough for a handler to overtake another one between its check
and the lock; two operations to wait behind each other; three, in `manage_threads`, so
that a row that was renumbered still waits when another one enters behind it, after a
promotion or an eviction; two Agents let a dispatch reach some of them and an ERROR meet a DONE; one crash can
come before and after every step.  *agent_session*: two connections are an old and
a new session, and five commands are enough for a RESERVE in each, an EXECUTE and
a SYNC with one to spare.  *reshare_ring*: the second vector call is the second
use of the workers (stale flags of the first would show), has more chunks than a
channel holds, and comes after calls of the protocol thread on the same channels.
`BreakInLastCall` lets the connection break in the last call only: a party that
throws makes no more calls, and the last call has every kind of thread at work.

*rvector*: the sizes make, for every width, a full group and a rest, with an
element across two bytes where the width has one, and bit vectors that end
inside a word and at its end; memory is all ones or a pattern.  A call costs 3, or
2 if it makes or reads a file or a pack (`Cost`): two calls let the second meet what the
first left in the cells, and three of files let a load follow an overwrite, a save that
could not open the file, or a pack of another size.  *protocols*: with bytes of three
bits, blocks of two bytes and two blocks per refill, three rounds exhaust, refill
and switch the cache between bits and bytes, scalars and vectors.  The domain of
eight with subtrees of two leaves has tasks that a range covers, cuts and misses,
at both ends; every range (those that wrap included) and every length of the
buffer is tried with one and two threads.  The elements of a QUERY take one and two
blocks of the hash, full and not, and two or three hash functions.

Tokens are random and interchangeable.  `DrawLeastToken` makes the model draw
the least unused one and `UpToTokenNames` identifies states that differ in token
names only.  `WithoutFault` drops the history variable no property of the run
reads, and `WithQueue` also the owner and outcome of terminal rows, the leases of
rows that do not wait and the arrivals of operations that left the queue, which no
later step of that run reads.  `Interchangeable` permutes connections, Agents and queriers.
`CHECK_DEADLOCK FALSE` is set because a broken cache, a cracked task, the end of a
program and the bounds on calls are legitimate ends.

Fairness (`manage_live` only).  Weak fairness of the start: the operator starts
the Manager.  Strong fairness of the scheduler, of workers and of each handler:
they compete for `self._lock`, which Python's threads obtain in the end, and
every loop of a worker has a deadline, so that a silent Agent only makes the
thread time out and crack.  Strong fairness of `Poll(o)`: a live client polls
again after every answer.  Weak fairness of the expiry of a dead client's lease.
Nothing is assumed of the Agents and nothing of the operator's other commands.

`ReshareRing` and `Query` have no fairness: `NobodyIsStuck` and `QueryIsNotStuck`
say that as long as the work is not over some thread of the code (not the
environment) has a step to take.  Each call moves a finite number of chunks, so
with threads that are scheduled this is what termination rests on.

## 4. Proofs

Each theorem holds for every value of the constants that satisfies the named
assumptions of its module:

| module | assumptions |
|---|---|
| `TreeCache` | `FilterAssumption` (filters are sets of bits), `MarkAssumption` (the marks `NoFile` and `Torn` are different and no filters, and `Noise` is neither), `BoundAssumption` |
| `ManageServer` | `BoundsAssumption`, `UsersAssumption` (no user is also a querier), `RolesAssumption` (there is an Agent), `ConnAssumption`, `ErrorsAssumption` |
| `AgentSession` | `SessionAssumption` (bounds are numbers) |
| `ReshareRing` | `CallsAssumption` (a list of calls; each moves at least one chunk, a scalar call exactly one), `CapacityAssumption` (a channel holds at least one chunk), `BreakableAssumption` |
| `Rvector` | `WordAssumption` (words are whole bytes), `EllAssumption` (widths 1 to 8), `MemoryAssumption` (memory holds bytes), `IndexAssumption` |
| `Dpf` | `EvalAssumption` (at most 31 bits in an index, numbers of threads that are powers of two, ends of a range in the domain, 1 to 8 bits in a value, `beta` a natural number; roots and the values of the pseudo-random functions are any blocks) |
| `Aby3` | `SizeAssumption` (bytes, blocks and batches are not empty), `ProgramAssumption` (widths 1 to 8, every call `Legal`, initial values are ring elements; the pseudo-random function is not constrained) |

**TreeCacheProofs**, first part: `TypeCorrect`, `TreeShapeAlways`, `ValidMetaAlwaysAcceptable`,
`MetaAlwaysMatchesMemory`.  None of them is inductive alone.  `TreeShape` needs to
know that the operation in progress holds a token of a leaf (or, for an insert, a
token not in the tree); that a valid `meta.json` describes a well shaped tree,
because a restart loads it; and this in turn needs that `MarkValid` runs only
when the tree in memory is well shaped.  The inductive invariant `IInv` is
`DataTypes`, `ArgOK` (the locals of the operation in progress), `MemoryTree` and
`MetaTree` (the shape in memory and in `meta.json`) and `MetaAgrees` (the two
agree while usable, and what differs after a start without a root).
`InsertSplit` and `RemoveCollapse` are where the shape is at stake and are split
by the position of the tokens they move.

**TreeCacheProofs**, second part: `FilesAlwaysMatchTree`, `CleanNodesAreAlwaysCurrent`,
`MergeAlwaysReadsCompleteFiles`, `CleanRootIsAlwaysUnionOfLeaves`, and
`ImplementsTreeCacheAbs`.  `FileInv` adds the files to `IInv`: between two
operations, and until an operation has changed something, the leaf files are
complete, internal nodes that no dirty leaf is below are the OR of their
children, and with nothing dirty the root file is the file of node 1
(`Intact`); inside an operation the exceptions are named (`insert_map`,
`update_mark`, and `LoopOK` for the merge loop, whose remaining nodes are closed
under taking parents); and a valid `meta.json` always describes an intact disk,
which a restart needs.  `Ancestors` is defined as a least set, and the lemmas about
it use just that.  That the root is the union of the leaves needs no induction over
the tree: of the nodes that hold a bit the greatest must be a leaf and the least
must be node 1 (`HeapUnion`).  For the refinement `AbsInv` says where the members of
the abstract cache are (`MembersOK`: in the leaves in memory until the running
operation changes one, then in `Effect`, and on disk below a valid `meta.json`)
and what the root files can be (`RootOK`: truncated only while the process is down
or refused to start, and never absent when the file of an internal root
exists).  Each action has its lemma: *Begin*, file writes and all merge steps but one
are stutters, `MarkValid` is `Join`, `Update`, `Quit` or a stutter, the step that
publishes is `Sync`, an error in an operation is `Break`, one in `_mark_corrupted` is
`Refuse` or `Break`, a crash is `Stop` or `Die`, the last step of the constructor is
`Start`.

**ManageServerProofs**: `OneRequestAtATime`, `ActiveIsSingle`, `AgentsAgree`,
`UncertaintyKept`, `QueueKeepsOrder`, `CrackIsFinal`, `TerminalRowsStay`,
`TypeCorrect`.  They support each other: that the wire has one user rests on the one
active row, this on the thread that owns it, and that on the lock and on what a
crack has written so far.  `IInv` is `TypeOK`, `ReqOK` (what a handler's locals say about
the table), `HeldOK` (a handler between two commits holds the lock, and
what it has found out about its row and the queue is still so), `ThreadOK`, `OneActive`, `CrackOK` (which commits of a crack are behind),
`PendingOK` and `RecordOK` (who answers for an unconfirmed request), `ArrivalOK`,
`QueueIsFifo`, `RowsOK` and `PermittedOK` (a row's protocol still suits its user when
it runs), `JobOK` and `LeavesOK` (how far the Agents are behind the database).

**AgentSessionProofs**: `OneProtocolAtATime`, `NoStaleResults`,
`AnnouncedReservationStays`.  The first needs only
`ExecOwner` (`_exec_thread` is the thread that runs).  The second relates the
generation a thread was born with to the connection: `InOrder` and
`GenerationOfSession` (sessions and generations grow together),
`SenderIsSending` and `NoOldSender` (who can be between the comparison and the write
of `_send`), `CleanAfterReady` and `CleanLink` (what may be on the wire of a session
before and after the first READY the Manager waits for).  The third is an action
property and needs `LinkInv`, an account of the threads of the newest session: the
Manager has one command outstanding, every thread of an earlier command is past its
effects (`EarlierArePast`), between commands all are (`RestBetween`), what they
wrote is of their kind (`LinesOfThreads`), and a reservation that was announced on
this link is the one in `_reserved` unless a thread of an older generation is to
blame (`AnnouncedHere`).

**ReshareRingProofs**: `RingTypeCorrect`, `BuffersAreLent`, `DataIsRight`,
`NobodyGetsStuck`, for every sequence of calls, chunk count and channel capacity.

* `BufferIsLent` says nothing about a worker that waits; `IInv` adds `MainOK` (a thread
  that runs a call runs one that exists) and `Handshake`: unless the party shuts down,
  `ready` is set only while the buffer is lent and its total is that of the call,
  `done` is set only after the worker finished and before the caller noticed, and
  never both.
* For `RightDataArrives`, `StageInv` says how far a party is in its call: which of its
  transfers are made, under way, or to come (`ScriptOK` for calls of the protocol
  thread, `VectorOK` for the workers).  From this, `Has(op, p, c, k)` is a predicate
  on the party alone, "chunk `k` of call `c` has been transferred".  `StreamInv` then
  says that a channel holds exactly the chunks that its sender has sent and its
  receiver has not taken, in increasing order (`ChanOK`), and a buffer exactly the
  chunks received in this call (`GotOK`).  A transfer appends the greatest or takes
  the least; everything else leaves `Has` alone (`AddsNothing`).
* For `NobodyIsStuck`, `WakeInv` says that a thread sleeps only while what it waits
  for is not so, that a worker exits only after shutdown (`SleepOf`), and that a
  party stops early only after a connection broke (`HealthyOf`).  So a stuck party has
  a transfer that is blocked at a channel.  Take the parties furthest behind (`Last`):
  the peer of a blocked receive is in the same call and has still to send, the peer
  of a blocked send, whose channel is full, is in the same call and has still to
  receive.  Following these waits around the three parties leads either to two
  that wait for each other on one channel (`NotBoth`) or to a circle of transfers each
  of which comes before the next in the call (`Earlier`, `NoCircle`).

**Aby3Proofs**: `MasksAreFresh`, `GeneratorsInStep`, `SharesAlwaysOpen`,
`RevealIsAlwaysPlain`.

* `Remembered` says that what a party has drawn comes from counters below its next one,
  and in the block it has cached lies before its position, in its mode.  `ProgramOK`
  types the script: it is a list of legal rounds, both halves of a conversion stand
  together, and `plain` is what plain arithmetic makes of it (`IsProgram`).
* The other three follow from a *history*: a sequence that holds, for each round, the
  generator before it, the units spent and the shares of all three, as if the parties
  went through the program together (`IsHistory`, whose step is `AfterRound`).  The
  inductive invariant is that there is a history of the present script that every
  party follows at its own pace (`Going`): its generator is that of the rounds it has
  begun (`GensFollow`), its shares those of the rounds it has finished
  (`SharesFollow`), what it has sent is what the history says (`SentFollows`), and
  each channel is the increasing sequence of the rounds posted and not yet received,
  with their data (`ChannelsOK`).  When a party extends the script the history is
  extended with it, before anybody runs the new rounds.
* So the arithmetic is about one round at a time, and all parties at once:
  `GoodAt` says that after round `k` the shares are replicated and add up to
  `plain[k + 1]`, or, between the halves of a conversion, that they are `HalfWay`:
  the sum is the exclusive or of the first two bits.  The three masks are differences
  `F(p) - F(PREV(p))` and cancel modulo `2^w`; the three contributions of a product are
  the nine products of shares; `x + y - 2xy` is the exclusive or of bits.  The
  congruences are lemmas of `NumberLemmas`.  A sum over a vector (`dot`) is
  reasoned about with its partial sums: the least length at which a claim about them
  fails is neither zero nor a successor (`PartialSums`, `TotalCong`).

**DpfProofs**: `ThreadsNeverRace`, `WritesAlwaysFit`, `StacksAlwaysFit`, `RangeAlwaysExact`,
`RevealAlwaysPoint`.

* `IInv` says of each thread (`ThreadOK`) that the nodes on its stack lie in its tasks
  (`Owned`: no leaf before `Lo`, none after `Hi`) and that the leaves it has still to
  write do, too, are in the range, and go to the place that `Offset` gives.  A child has
  no leaf outside its node (`ChildFacts`), tasks of different threads have no leaf in
  common (`Apart`), and different leaves of the range have different places, all of
  them in the buffer (`Places`): hence no race and no write outside, whether the range
  wraps around or not.
* The stack gets deeper with the layer: of its nodes each lies at least one layer below
  the one under it, except for the two children on top (`StackOK`).  No node on it is
  deeper than `ELL_IN - LOCAL_BFS_D`, so it has at most one more node than that.
* Powers of two are taken from `0..31`, and the two facts about them (`Power`,
  `PowerSplit`) are proved there.
* What the key stands for is one tree: `NodeSt` is the block of a node, taken from the
  path to its first leaf, which all leaves below it share (`SamePath`).  The three
  expansions of the code all compute it: the tasks, expanded in place from the last node
  to the first (`SplitFacts`, `TasksFacts`), the children on the stack (`NodeChild`), and
  the leaves below a node, in two buffers (`BelowFacts`).
* `gen` is right by one level at a time: on the path to `alpha` the control bits of both
  trees differ, so that exactly one of them applies the correction, which makes the
  children off the path equal and leaves the control bits on it different (`LevelOfGen`,
  `Differ`).  Hence both trees agree on every node off the path, and on it are those of
  `gen` (`TreesOfKeys`); equal leaves cancel, and at `alpha` the last correction adds
  `beta` with the sign of the Evaluator that applies it (`ValuesAdd`).
* `EInv` adds to `IInv` that every node on a stack carries its block, every leaf to be
  written its value, and that a loaded word is the cell of the next leaf (`RightThread`);
  and that no leaf of the range is lost (`NothingLost`): it has been written, or is below
  a node on a stack, in a task not yet taken, or among the leaves to be written, unless
  the evaluation is going to throw.  A visit keeps this because a subtree that is
  pruned, or not pushed, has no leaf in the range (`PruningIsSafe`), whether it wraps
  around or not; a call establishes it because the threads' tasks cover the tree, the
  number of tasks per thread being rounded up (`ThreadOfTask`, `TaskOfLeaf`).  When all
  threads have finished nothing is pending (`JoinExact`).  `Session` says which of the
  two Evaluators has sent what.
* Values of recursive functions on `0..n` come from `Recursion` (such a function exists)
  and `UpTo` (what holds at 0 and is handed on holds up to `n`), both shown in
  `NumberLemmas` with a least counterexample.

**RvectorProofs**: `PaddingStaysZero`, `StorageMatchesSize`, `TypeCorrect`,
`ArithmeticAlwaysExact`, `LoadIsTruthful`.

* Every loop bound relies on the second, which is why the first invariant, `IInv`, is
  `ell`, `Objects` (size and cells of each vector agree, and padding is zero) and `Buffer`
  (the same for the packed bytes).
* `CInv` adds what cells hold, `Contents`: sizes are ones that memory is long enough for,
  and the bytes of the file after its header are bytes, because a load copies them to the
  buffer even when it then throws.
* A byte is the `Weight` of the set of its bits.  For a set of bits below eight, dividing,
  taking remainders and multiplying by powers of two shift and cut the set (`WeightDiv`,
  `WeightMod`, `WeightTimes`), whence the bits of a byte are those it was made from
  (`ByteOfBits`).
* Packing: bit `b` of element `k` is bit `k * ell + b` of the packed bytes, for each of the
  eight widths (`PackedBits`): the kernels find it in their group and its window
  (`PlaceInGroup`), and no kernel indexes beyond its arguments (`BitsInBytes`,
  `TailInBytes`; the last element of a width that does not divide eight may touch two
  bytes, and both exist).  Unpacking, in groups, through two bytes or by copy, puts those
  bits together (`UnpackedIsStream`).  Hence unpacking undoes packing (`StreamOfPacked`).
* From `CInv` follows what each operation promises, one lemma for each (`FillPromise` to
  `UnpackPromise`): results of remainders are remainders of results (`ModOfResults`), and
  the sum over all cells of a vector is that over its elements, because the padding is zero
  and sums of congruent numbers are congruent (`SameSums`, `CongSums`).
* `FileInv`: the file is a prefix of what a save of the vector last saved writes.  Save and
  crash establish it wherever they stop (`SavedImage`), nothing else touches the file.  A
  load that returns has compared the size and the length of the file, so it read all
  the packed bytes of that vector (`LoadReturns`).
* Sums are the library's fold over a set; that this fold exists (`SumExists`), and may begin
  with any element (`AnyOrder`), is shown in `NumberLemmas` with a least counterexample in
  the number of elements.

Only model checked, and why:

* `QueuedIsServed` and `SyncRunsOrBlocked` rest on fairness.
* `AnswerIsMembership`: what the hash chain of the protocols computes for every input is
  an induction over data.  The provers cannot apply an induction theorem; a least
  counterexample stands in for one where the data is a sum (`Rvector`) or a tree (`Dpf`),
  but chains of blocks through the four programs would need one for each list of steps.
* `QueryIsNotStuck` depends on the four lists of steps, which are fixed by the code and
  enumerated by the runs.

## 5. Hazards

`PROJECT.json` lists them at their lines with the properties that would catch
them going wrong.  Those that no property covers:

* `application/manage_server/app.py:615`: a thread that ends on an exception no
  `except` clause names leaves its row BUSY, or ACTIVE, for ever.  The steps are in
  the model (`OddErrors`); the code has no recovery to claim.
* `app.py:410`: the lock is held while ports are reserved, so live clients may be
  evicted.  The eviction is in the model; a claim about time needs a clock.
* `app.py:394`: the response that carries the ports is lost.  Agents then time out and
  the task is cracked, the documented policy.
* `src/bind/rvector_bind.cpp:169`: `save` and `load` release the GIL.  The callers use a
  vector from one thread.
* `src/bind/aby3_bind.cpp:593`: calls that block on the network keep the GIL, and
  with it all threads of the Agent.  The GIL is not modelled.
* `include/ref_impl/shr_add2/emp2.hpp:171`: the hash of an empty string, see below.

## 6. Findings

* `manage_forget`: `_crack_task` and the constructor commit `FAILED` before they
  write `task_status.json`; a stop in between, or a stop while a SYNC runs,
  leaves nothing that tells the next start that the Agents' state is unknown.
* `manage_busy_agent`: an Agent reports DONE before it accepts the next request;
  a fast Manager is answered "busy" and cracks a task in which nothing failed.
* `agent_stale_reserve`: `cmd_reserve` compares generations before it takes
  `_reserved_lock`; a thread of the previous session that passed the comparison
  replaces, and closes, the reservation whose port the new session announced.
* `query_power`: `bf_param` returns `ceil(log2(bf_size))` as the width of the ring
  in which indices are reduced modulo `bf_size`.  If the size is a power of two it is
  no element of that ring, `mod` throws, and so does every QUERY; so does
  `ring_mod` in `gen_bf`, for JOIN and UPDATE.

One more way to forget needs no crash: an `OSError` other than `ConnectionError` or
a timeout leaves `_run_sync` through its `finally` clause without a crack
(`CollectRaised`).  `UncertaintyIsRemembered` excludes exactly these windows
(`Forget`, `CollectRaised`, a failed write in `CrackStatus`) and shows that
there are no others.  In the same way `AnnouncedStays` excludes the threads of
earlier sessions and shows that nothing else touches a reservation.

### Divergences

Places where text and code disagree and that no run of its own shows:

* A restart can serve an aggregate that no SYNC made: with one leaf and no root on
  disk the constructor publishes the leaf (`src/mpmt/_tree_cache.py:324`).  A cache
  without holders, or with several and no root on disk, starts with a root whose memory
  nobody has written (line 30), which QUERY reads until the next SYNC; the same holds
  for a new cache before its first.  `README.md:183` lets only SYNC aggregate.
  `TreeCacheAbs!StartAggregates` lists the cases.
* A cache that is corrupted refuses every operation, but goes on answering queries
  (`src/mpmt/agent_server.py:385`, `:452`).
* A SYNC accepted while Agents are unreachable is announced as deferred, but
  nothing sets `_agents_available` again (`application/manage_server/app.py:824`), so
  it does not run without a restart.  `SyncRunsOrBlocked` names this exception.
* An empty element: the circuit hashes one block of padding (`emp2.hpp:171`), the local
  `hashAESDM` none, so an empty element that was joined is not found, although
  `tutorial/building_blocks/add2.md:120` says that the circuit "computes the same
  function as `mpmt.hash_aes_dm`".  The instance's elements are not empty.
* The same page and `src/bind/emp2_bind.cpp:211` limit the input to 16 bytes; the code
  takes any length.
* `src/bind/aby3_bind.cpp:376` promises a zero-initialised share vector; its memory is
  not initialised.
* `src/bind/dpf_bind.cpp:107` and `tutorial/building_blocks/dpf.md:59` speak of
  XOR-reconstruction; the shares are added modulo the output ring, as `Dpf` has it.
* With `ELL_OUT` = 1 the threads of one evaluation would share words of the output.
  The bindings exclude it (`DPF_ELL_OUT_MIN`, `src/bind/bind_common.hpp:84`);
  `NoDataRace` is about the widths they accept.
* `bf_param` accepts rates up to 9.99e-1 (`src/mpmt/util.py:11`) for which it returns a
  single hash function and a ring width of one, or fails on `log2(0)`; an Agent with a
  single hash function cannot be constructed, because the point function needs a width of
  two.  `Query` is checked with two and three.

## 7. Not modelled, and what is left

Left out: the clients' own loops (their effect on the Manager is in `ManageServer`);
the JSON form of point-function keys and the registry of network handles in the
bindings; type dispatch and the GIL; the ring sizes of the messages of JOIN and
UPDATE; oblivious transfer and the circuits of emp-sh2pc, which are external;
pretreat, logging and file helpers, which keep no state that outlives a call.

Left to do, in this order: a `Client` module with a clock, for claims about leases and
lost responses; JOIN and UPDATE as message exchanges beside `Query`; a proof of
`AnswerIsMembership`, one step of the exchange at a time.
