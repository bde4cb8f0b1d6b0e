----------------------------- MODULE TreeCacheAbs -----------------------------
(***************************************************************************)
(* What a TreeCache promises to the Agent that owns it: a filter per set   *)
(* holder, an aggregate that only SYNC recomputes, and all or nothing.     *)
(* An operation that was begun and does not complete breaks the cache for  *)
(* good: neither this process nor a restarted one uses it again.  A        *)
(* failure before anything was written stops this process only.  Neither   *)
(* stops its queries: they read what was published until it ends.          *)
(***************************************************************************)
CONSTANTS
    Token, Filters,
    Memory,     \* what a vector can hold that nobody has written: anything
    NoFile

VARIABLES
    members,    \* token of a set holder -> its filter
    published,  \* what QUERY reads, or NoFile while no process can answer
    kept,       \* the aggregate on disk, or NoFile
    status      \* "up", "refusing" (until a restart), "down" or "broken"

vars == <<members, published, kept, status>>

UnionOf(m) == UNION {m[t] : t \in DOMAIN m}

Init ==
    /\ members = [t \in {} |-> 0]
    /\ published = NoFile
    /\ kept = NoFile
    /\ status = "down"

Join(t, c) ==
    /\ status = "up"
    /\ t \notin DOMAIN members
    /\ members' = [u \in DOMAIN members \cup {t} |-> IF u = t THEN c ELSE members[u]]
    /\ UNCHANGED <<published, kept, status>>

Update(t, c) ==
    /\ status = "up"
    /\ t \in DOMAIN members
    /\ members' = [members EXCEPT ![t] = c]
    /\ UNCHANGED <<published, kept, status>>

Quit(t) ==
    /\ status = "up"
    /\ t \in DOMAIN members
    /\ members' = [u \in DOMAIN members \ {t} |-> members[u]]
    /\ UNCHANGED <<published, kept, status>>

Sync ==
    /\ status = "up"
    /\ published' = UnionOf(members)
    /\ kept' = IF DOMAIN members = {} THEN NoFile ELSE UnionOf(members)
    /\ UNCHANGED <<members, status>>

\* An operation fails before it has written anything.
Refuse ==
    /\ status = "up"
    /\ status' = "refusing"
    /\ UNCHANGED <<members, published, kept>>

\* An operation fails later: a SYNC may have written part of the aggregate.
Break ==
    /\ status = "up"
    /\ status' = "broken"
    /\ \E m \in {published} \cup Memory : published' = m
    /\ UNCHANGED <<members, kept>>

\* A process ends and no other can serve after it.
Die ==
    /\ status \in {"up", "broken", "down"}
    /\ status' = "broken"
    /\ published' = NoFile
    /\ UNCHANGED <<members, kept>>

Stop ==
    /\ status \in {"up", "refusing"}
    /\ status' = "down"
    /\ published' = NoFile
    /\ UNCHANGED <<members, kept>>

OnlyOne == \E t \in Token : DOMAIN members = {t}

\* A restart serves the aggregate on disk, with three exceptions.  A cache that
\* has no holders, or has several and no aggregate on disk, serves whatever is in
\* its memory until the next SYNC.  When nothing is on disk the filter of a single
\* holder is served, and kept, although no SYNC saw it.
StartAggregates ==
    CASE DOMAIN members = {} -> Memory
      [] DOMAIN members # {} /\ kept # NoFile -> {kept}
      [] OnlyOne /\ kept = NoFile -> {UnionOf(members)}
      [] OTHER -> Memory

Start ==
    /\ status = "down"
    /\ status' = "up"
    /\ \E m \in StartAggregates : published' = m
    /\ kept' = IF kept = NoFile /\ OnlyOne THEN UnionOf(members) ELSE kept
    /\ UNCHANGED members

Next ==
    \/ \E t \in Token, c \in Filters : Join(t, c) \/ Update(t, c)
    \/ \E t \in Token : Quit(t)
    \/ Sync
    \/ Refuse
    \/ Break
    \/ Die
    \/ Stop
    \/ Start

Spec == Init /\ [][Next]_vars

=============================================================================
