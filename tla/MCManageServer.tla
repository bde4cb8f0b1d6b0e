--------------------------- MODULE MCManageServer ---------------------------
(* Small instances of ManageServer for TLC. *)
EXTENDS ManageServer, TLC

\* HTTP connections are interchangeable, and so are the Agents: the Manager
\* treats them alike.
Interchangeable == Permutations(Conn) \cup Permutations(Role) \cup Permutations(Querier)

\* The state without the history variable that no property of the run reads.
WithoutFault ==
    <<database, task_status, flags, web, thread, sync_queue, clients, agents,
      arrival, pending, forgotten, counters>>

\* What is still read of a row: of a terminal one whose request no Agent runs any
\* more, neither whose it was nor, as nothing crashes in this run, how it ended.
RowRead(o) ==
    IF Status(o) \in Final /\ \A r \in Role : job[r].req # o
    THEN [pos |-> ops[o].pos] ELSE ops[o]

\* The state with as much as later steps and the properties of the run read: leases
\* matter in the queue only, and of the history the order in which the operations came
\* that still wait.
WithQueue ==
    <<[o \in OpId |-> RowRead(o)], user_status, tokens, task_status, flags, web, thread,
      sync_queue, expired \cap Queued, dead, agents,
      SelectSeq(arrival, LAMBDA o : o \in Queued), counters>>

=============================================================================
