------------------------------ MODULE TreeCache ------------------------------
(***************************************************************************)
(* The TreeCache of one Agent (src/mpmt/_tree_cache.py): a complete binary *)
(* tree of Bloom filters, kept in memory as two maps between node ids and  *)
(* tokens and on disk as one pair of share files per token, a pair of root *)
(* files and meta.json.  Leaves are the set holders' filters, an internal  *)
(* node is the OR of its children, and the root, converted to the ring the *)
(* queries use, is what QUERY reads.                                       *)
(*                                                                         *)
(* A filter is the set of its 1 bits, so the OR of two filters is their    *)
(* union and ring conversion changes nothing a property can see.  A pair   *)
(* of share files (this, nxt) is one file: the code only asks whether both *)
(* exist, and reading a truncated one raises.                              *)
(*                                                                         *)
(* An operation is split where a crash or an I/O error can leave a trace   *)
(* on disk: after _mark_corrupted, while a share file is being written,    *)
(* between the nodes of a merge, and before _mark_valid.                   *)
(***************************************************************************)
EXTENDS Naturals, FiniteSets

CONSTANTS
    Token,      \* the values secrets.token_hex(16) can return
    Bit,        \* the positions of a Bloom filter
    Filters,    \* the filters set holders contribute in this model
    MaxLeaf,    \* bound on leaf_num (the code has none)
    NoFile,     \* the pair of files does not exist
    Torn,       \* the pair of files exists, one of them is truncated
    Noise,      \* contents of a vector in memory that are no filter
    NoToken     \* no token has been drawn yet

ASSUME FilterAssumption == Filters \subseteq SUBSET Bit
ASSUME MarkAssumption ==
    /\ NoFile # Torn /\ Noise \notin {NoFile, Torn}
    /\ \A c \in SUBSET Bit : c \notin {NoFile, Torn, Noise}
ASSUME BoundAssumption == MaxLeaf \in Nat

VARIABLES
    leaf_num, phi_f, phi_r, dirty_leaf,   \* the tree, in memory
    corrupted,      \* self._corrupted
    root_node,      \* self.root_node, what QUERY reads
    meta,           \* meta.json
    file,           \* share files of every token
    root_file,      \* root_this.mpmtrvp and root_nxt.mpmtrvp
    pc,             \* where the running operation is
    arg,            \* its arguments and locals
    dirty_node,     \* the nodes execute_merge still has to recompute
    holders         \* history: leaf token -> filter, as of the last _mark_valid

tree == <<leaf_num, phi_f, phi_r, dirty_leaf>>
disk == <<meta, file, root_file>>
vars == <<tree, corrupted, root_node, disk, pc, arg, dirty_node, holders>>

EmptyMap == [x \in {} |-> 0]
Put(f, k, v) == [x \in DOMAIN f \cup {k} |-> IF x = k THEN v ELSE f[x]]
\* Mutant of Drop: the entries stay.
DropNothing(f, S) == f

Drop(f, S) == [x \in DOMAIN f \ S |-> f[x]]
NoArg == [token |-> NoToken, node |-> {}]

\* Ids of a tree with n leaves: 1..n-1 are internal, n..2n-1 are leaves.
NodeIds(n) == IF n = 0 THEN {} ELSE 1..(2 * n - 1)
LeafIds(n) == IF n = 0 THEN {} ELSE n..(2 * n - 1)

LeafTokens == {t \in DOMAIN phi_f : phi_f[t] >= leaf_num}

\* No operation runs, and the next one will not be refused.
Usable == pc = "idle" /\ ~corrupted

Contents == (SUBSET Bit) \cup {NoFile, Torn}
IsFilter(c) == c \notin {NoFile, Torn}

\* What a vector can hold before anything is written to it: its memory is not
\* initialised, so it may be a filter or not.
Memory == (SUBSET Bit) \cup {Noise}

\* Mutants of Meta: leaf_num counts tokens; the dirty leaves are not saved.
MetaCountsTokens(state) ==
    [state |-> state, leaf_num |-> Cardinality(DOMAIN phi_f), phi_f |-> phi_f,
     phi_r |-> phi_r, dirty_leaf |-> dirty_leaf]
MetaForgetsDirty(state) ==
    [state |-> state, leaf_num |-> leaf_num, phi_f |-> phi_f,
     phi_r |-> phi_r, dirty_leaf |-> {}]

Meta(state) == [state |-> state, leaf_num |-> leaf_num, phi_f |-> phi_f,
                phi_r |-> phi_r, dirty_leaf |-> dirty_leaf]

EmptyMeta(state) == [state |-> state, leaf_num |-> 0, phi_f |-> EmptyMap,
                     phi_r |-> EmptyMap, dirty_leaf |-> {}]

\* The strict ancestors of the leaves in D: the least set that holds the parent
\* of every leaf in D and is closed under taking the parent of a node above 1.
AboveClosed(S, D) == \A m \in D \cup S : m \div 2 > 0 => m \div 2 \in S
\* Mutant of Ancestors: the walk towards the root stops after one step.
ParentsOnly(n, D) == {m \in 1..(n - 1) : \E d \in D : m = d \div 2}

Ancestors(n, D) ==
    {m \in 1..(n - 1) : \A S \in SUBSET (1..(n - 1)) : AboveClosed(S, D) => m \in S}

-----------------------------------------------------------------------------
\* _mark_corrupted and _mark_valid.  open(.., "w") truncates meta.json first,
\* so a write that fails leaves a file json.load rejects.

\* Mutant of MarkCorrupted: the mark is set in memory only.
MarkCorruptedInMemory == corrupted' = TRUE /\ UNCHANGED meta

MarkCorrupted ==
    /\ corrupted' = TRUE
    /\ meta' = Meta("dirty")

\* The ways an operation can enter its body: it refuses to run on a corrupted
\* cache, and marks the cache corrupted before it touches anything.
Enter(label, a) ==
    /\ pc = "idle"
    /\ ~corrupted
    /\ MarkCorrupted
    /\ pc' = label
    /\ arg' = a
    /\ UNCHANGED <<tree, root_node, file, root_file, dirty_node, holders>>

LeafFilters == [t \in LeafTokens |-> file[t]]

MarkValid ==
    /\ pc = "mark_valid"
    /\ meta' = Meta("valid")
    /\ corrupted' = FALSE
    /\ pc' = "idle"
    /\ arg' = NoArg
    /\ holders' = LeafFilters
    /\ UNCHANGED <<tree, root_node, file, root_file, dirty_node>>

-----------------------------------------------------------------------------
\* insert (JOIN)

InsertBegin(c) ==
    /\ leaf_num < MaxLeaf
    /\ Enter("insert_save", [token |-> NoToken, node |-> c])

\* _new_token draws until the token is not in use; then the files are opened.
InsertSave(token) ==
    /\ pc = "insert_save"
    /\ token \in Token \ DOMAIN phi_f
    /\ file' = [file EXCEPT ![token] = Torn]
    /\ arg' = [arg EXCEPT !.token = token]
    /\ pc' = "insert_map"
    /\ UNCHANGED <<tree, corrupted, root_node, meta, root_file, dirty_node, holders>>

InsertFirst(token) ==
    /\ leaf_num' = 1
    /\ phi_r' = [i \in {1} |-> token]
    /\ phi_f' = [t \in {token} |-> 1]
    /\ dirty_leaf' = dirty_leaf \cup {1}

\* The first leaf becomes internal: it moves to its own left child, the new
\* leaf is the right child, and the freed id gets a token of its own.
InsertSplit(token, new_root_token) ==
    LET old_leaf_id == leaf_num
        lc_id == 2 * leaf_num
        rc_id == 2 * leaf_num + 1
        ori_root_token == phi_r[leaf_num]
    IN  /\ new_root_token \in Token \ (DOMAIN phi_f \cup {token})
        /\ phi_r' = Put(Put(Put(phi_r, rc_id, token), old_leaf_id, new_root_token),
                        lc_id, ori_root_token)
        /\ phi_f' = Put(Put(Put(phi_f, token, rc_id), new_root_token, old_leaf_id),
                        ori_root_token, lc_id)
        /\ dirty_leaf' = (IF old_leaf_id \in dirty_leaf
                          THEN (dirty_leaf \ {old_leaf_id}) \cup {lc_id}
                          ELSE dirty_leaf) \cup {rc_id}
        /\ leaf_num' = leaf_num + 1

InsertMap ==
    /\ pc = "insert_map"
    /\ file' = [file EXCEPT ![arg.token] = arg.node]
    /\ \/ /\ leaf_num = 0
          /\ InsertFirst(arg.token)
       \/ /\ leaf_num > 0
          /\ \E new_root_token \in Token : InsertSplit(arg.token, new_root_token)
    /\ pc' = "mark_valid"
    /\ UNCHANGED <<corrupted, root_node, meta, root_file, arg, dirty_node, holders>>

-----------------------------------------------------------------------------
\* update (UPDATE): an unknown or internal token raises before any change.

UpdateBegin(token, c) ==
    /\ token \in LeafTokens
    /\ Enter("update_save", [token |-> token, node |-> c])

UpdateSave ==
    /\ pc = "update_save"
    /\ file' = [file EXCEPT ![arg.token] = Torn]
    /\ pc' = "update_mark"
    /\ UNCHANGED <<tree, corrupted, root_node, meta, root_file, arg, dirty_node, holders>>

UpdateMark ==
    /\ pc = "update_mark"
    /\ file' = [file EXCEPT ![arg.token] = arg.node]
    /\ dirty_leaf' = dirty_leaf \cup {phi_f[arg.token]}
    /\ pc' = "mark_valid"
    /\ UNCHANGED <<leaf_num, phi_f, phi_r, corrupted, root_node, meta, root_file,
                   arg, dirty_node, holders>>

-----------------------------------------------------------------------------
\* remove (QUIT): an unknown token returns, an internal one raises, unchanged.

RemoveBegin(del_token) ==
    /\ del_token \in LeafTokens
    /\ Enter("remove_map", [token |-> del_token, node |-> {}])

\* Mutants of RemoveLast: dirty_leaf is not cleared; the files are not unlinked.
RemoveLastStaysDirty ==
    /\ leaf_num' = 0 /\ phi_f' = EmptyMap /\ phi_r' = EmptyMap
    /\ file' = [file EXCEPT ![arg.token] = NoFile]
    /\ UNCHANGED dirty_leaf
RemoveLastKeepsFile ==
    /\ leaf_num' = 0 /\ phi_f' = EmptyMap /\ phi_r' = EmptyMap /\ dirty_leaf' = {}
    /\ UNCHANGED file

RemoveLast ==
    /\ leaf_num' = 0
    /\ phi_f' = EmptyMap
    /\ phi_r' = EmptyMap
    /\ dirty_leaf' = {}
    /\ file' = [file EXCEPT ![arg.token] = NoFile]

\* The last internal node collapses: one of its two leaves is promoted into it,
\* the other leaves or takes the place of the leaf that does.
RemoveCollapse(del_token) ==
    LET del_id == phi_f[del_token]
        collapse_id == leaf_num - 1
        left_id == 2 * collapse_id
        right_id == left_id + 1
        internal_token == phi_r[collapse_id]
        left_token == phi_r[left_id]
        right_token == phi_r[right_id]
        moved == del_id \notin {left_id, right_id}
        promoted_token == IF del_id = left_id THEN right_token ELSE left_token
        swapped_r == IF moved THEN Put(phi_r, del_id, right_token) ELSE phi_r
        swapped_f == IF moved THEN Put(phi_f, right_token, del_id) ELSE phi_f
    IN  /\ phi_r' = Drop(Put(swapped_r, collapse_id, promoted_token), {left_id, right_id})
        /\ phi_f' = Drop(Put(swapped_f, promoted_token, collapse_id),
                         {internal_token, del_token})
        /\ leaf_num' = leaf_num - 1
        /\ dirty_leaf' = ((IF moved THEN dirty_leaf \cup {del_id} ELSE dirty_leaf)
                             \ {left_id, right_id}) \cup {collapse_id}
        /\ file' = [file EXCEPT ![del_token] = NoFile, ![internal_token] = NoFile]

\* The maps change in memory and the files are unlinked before _mark_valid.
RemoveMap ==
    /\ pc = "remove_map"
    /\ \/ leaf_num = 1 /\ RemoveLast
       \/ leaf_num > 1 /\ RemoveCollapse(arg.token)
    /\ pc' = "mark_valid"
    /\ UNCHANGED <<corrupted, root_node, meta, root_file, arg, dirty_node, holders>>

-----------------------------------------------------------------------------
\* execute_merge (SYNC)

MergeBegin == Enter("merge", NoArg)

\* Mutant of Publish: the root in memory is not replaced.
PublishNowhere(c) == UNCHANGED root_node

Publish(c) == root_node' = c

\* leaf_num = 0: the root in memory is zeroed and the root files are deleted.
MergeEmpty ==
    /\ pc = "merge"
    /\ leaf_num = 0
    /\ Publish({})
    /\ root_file' = NoFile
    /\ dirty_leaf' = {}
    /\ pc' = "mark_valid"
    /\ UNCHANGED <<leaf_num, phi_f, phi_r, corrupted, meta, file, arg, dirty_node, holders>>

\* leaf_num = 1: the only leaf is the root.
MergeSingle ==
    /\ pc = "merge"
    /\ leaf_num = 1
    /\ IF dirty_leaf # {} \/ root_file = NoFile
       THEN /\ IsFilter(file[phi_r[1]])
            /\ Publish(file[phi_r[1]])
            /\ root_file' = file[phi_r[1]]
       ELSE UNCHANGED <<root_node, root_file>>
    /\ dirty_leaf' = {}
    /\ pc' = "mark_valid"
    /\ UNCHANGED <<leaf_num, phi_f, phi_r, corrupted, meta, file, arg, dirty_node, holders>>

\* leaf_num > 1: every internal node above a dirty leaf is recomputed.
MergeCollect ==
    /\ pc = "merge"
    /\ leaf_num > 1
    /\ dirty_node' = Ancestors(leaf_num, dirty_leaf)
    /\ dirty_leaf' = {}
    /\ pc' = "merge_loop"
    /\ UNCHANGED <<leaf_num, phi_f, phi_r, corrupted, root_node, disk, arg, holders>>

\* Mutant of IsGreatest: the loop runs from the root down.
IsLeast(node, S) == node \in S /\ \A m \in S : node <= m

IsGreatest(node, S) == node \in S /\ \A m \in S : m <= node

\* One iteration of the loop over sorted(dirty_node, reverse=True).
MergeNode(node) ==
    LET lc == file[phi_r[2 * node]]
        rc == file[phi_r[2 * node + 1]]
    IN  /\ pc = "merge_loop"
        /\ IsGreatest(node, dirty_node)
        /\ IsFilter(lc) /\ IsFilter(rc)
        /\ file' = [file EXCEPT ![phi_r[node]] = lc \cup rc]
        /\ IF node = 1
           THEN Publish(lc \cup rc) /\ root_file' = lc \cup rc
           ELSE UNCHANGED <<root_node, root_file>>
        /\ dirty_node' = dirty_node \ {node}
        /\ UNCHANGED <<tree, corrupted, meta, pc, arg, holders>>

MergeEnd ==
    /\ pc = "merge_loop"
    /\ dirty_node = {}
    /\ pc' = "mark_valid"
    /\ UNCHANGED <<tree, corrupted, root_node, disk, arg, dirty_node, holders>>

-----------------------------------------------------------------------------
\* Failures

\* The next step of the merge converts its result into root_node.
ConvertsRoot ==
    \/ pc = "merge" /\ leaf_num = 1 /\ (dirty_leaf # {} \/ root_file = NoFile)
    \/ pc = "merge_loop" /\ dirty_node = {1}

\* What root_node can be when that step fails instead: a conversion may stop midway,
\* and a merge of no leaves writes zeros before it deletes the root files.
RootLeft ==
    {root_node}
        \cup (IF ConvertsRoot THEN Memory ELSE {})
        \cup (IF pc = "merge" /\ leaf_num = 0 THEN {{}} ELSE {})

\* An exception anywhere in an operation's body.  A half written leaf of insert is
\* unlinked, and _mark_valid fails before it opens meta.json or with the file half
\* written.  Other node and root files that were being written stay as they were in
\* this model: meta.json is not valid, and no process reads them again.
RaiseIOError ==
    /\ pc \in {"insert_save", "insert_map", "update_save", "update_mark",
               "remove_map", "merge", "merge_loop", "mark_valid"}
    /\ corrupted' = TRUE
    /\ file' = IF pc = "insert_map" THEN [file EXCEPT ![arg.token] = NoFile] ELSE file
    /\ meta' \in {meta} \cup
          (IF pc = "mark_valid" THEN {EmptyMeta("malformed")} ELSE {})
    /\ root_node' \in RootLeft
    /\ pc' = "idle"
    /\ arg' = NoArg
    /\ dirty_node' = {}
    /\ UNCHANGED <<tree, root_file, holders>>

\* _mark_corrupted itself fails: open() raised and meta.json is untouched, or
\* json.dump into the truncated file did.
RaiseMetaError ==
    /\ pc = "idle"
    /\ ~corrupted
    /\ corrupted' = TRUE
    /\ meta' \in {meta, EmptyMeta("malformed")}
    /\ UNCHANGED <<tree, root_node, file, root_file, pc, arg, dirty_node, holders>>

\* The Agent process dies: memory is gone, the disk stays as it is, except that
\* meta.json or the root files may be truncated if they were being written.
Crash ==
    /\ pc \notin {"down", "refused"}
    /\ pc' = "down"
    /\ leaf_num' = 0 /\ phi_f' = EmptyMap /\ phi_r' = EmptyMap /\ dirty_leaf' = {}
    /\ corrupted' = FALSE
    /\ root_node' = {}
    /\ arg' = NoArg
    /\ dirty_node' = {}
    /\ root_file' \in {root_file} \cup (IF pc = "load_save" THEN {Torn} ELSE {})
    /\ meta' \in {meta} \cup
          (IF Usable \/ pc = "mark_valid" THEN {EmptyMeta("malformed")} ELSE {})
    /\ UNCHANGED <<file, holders>>

-----------------------------------------------------------------------------
\* __init__: load what the previous process left.

\* The checks of the constructor on the contents of meta.json.
Acceptable(m) ==
    /\ m.state = "valid"
    /\ m.dirty_leaf \subseteq LeafIds(m.leaf_num)
    /\ \A s, t \in DOMAIN m.phi_f : m.phi_f[s] = m.phi_f[t] => s = t
    /\ \A t \in DOMAIN m.phi_f :
          m.phi_f[t] \in DOMAIN m.phi_r /\ m.phi_r[m.phi_f[t]] = t
    /\ \A i \in DOMAIN m.phi_r :
          m.phi_r[i] \in DOMAIN m.phi_f /\ m.phi_f[m.phi_r[i]] = i
    /\ DOMAIN m.phi_r = NodeIds(m.leaf_num)

\* Where the root of a cache with leaves comes from: the root files, or else the
\* files of node 1, which are converted and saved, or else nowhere.
RootSource ==
    IF root_file # NoFile THEN "root_files"
    ELSE IF file[meta.phi_r[1]] # NoFile THEN "node_1" ELSE "none"

LoadTree ==
    /\ leaf_num' = meta.leaf_num
    /\ phi_f' = meta.phi_f
    /\ phi_r' = meta.phi_r
    /\ corrupted' = FALSE
    /\ UNCHANGED <<meta, file, root_file, arg, dirty_node, holders>>

\* No meta.json: a new cache, if the directory is empty.  The constructor does
\* not write the root it allocates; it stays so until the first merge.
LoadNew ==
    /\ pc = "down"
    /\ meta.state = "absent"
    /\ root_file = NoFile /\ \A t \in Token : file[t] = NoFile
    /\ root_node' \in Memory
    /\ pc' = "idle"
    /\ UNCHANGED <<tree, corrupted, disk, arg, dirty_node, holders>>

LoadEmpty ==
    /\ pc = "down"
    /\ Acceptable(meta)
    /\ meta.leaf_num = 0
    /\ LoadTree
    /\ dirty_leaf' = meta.dirty_leaf
    /\ root_node' \in Memory
    /\ pc' = "idle"

LoadRootFiles ==
    /\ pc = "down"
    /\ Acceptable(meta)
    /\ meta.leaf_num > 0
    /\ RootSource = "root_files"
    /\ IsFilter(root_file)
    /\ LoadTree
    /\ dirty_leaf' = meta.dirty_leaf
    /\ root_node' = root_file
    /\ pc' = "idle"

LoadNodeOne ==
    /\ pc = "down"
    /\ Acceptable(meta)
    /\ meta.leaf_num > 0
    /\ RootSource = "node_1"
    /\ IsFilter(file[meta.phi_r[1]])
    /\ LoadTree
    /\ dirty_leaf' = meta.dirty_leaf
    /\ root_node' = file[meta.phi_r[1]]
    /\ pc' = "load_save"

LoadSave ==
    /\ pc = "load_save"
    /\ root_file' = root_node
    /\ pc' = "idle"
    /\ UNCHANGED <<tree, corrupted, root_node, meta, file, arg, dirty_node, holders>>

LoadNoRoot ==
    /\ pc = "down"
    /\ Acceptable(meta)
    /\ meta.leaf_num > 1
    /\ RootSource = "none"
    /\ LoadTree
    /\ dirty_leaf' = meta.dirty_leaf \cup LeafIds(meta.leaf_num)
    /\ root_node' \in Memory
    /\ pc' = "idle"

\* The constructor raises: nothing is loaded and the Agent does not start.
LoadRefuse ==
    /\ pc = "down"
    /\ \/ meta.state \in {"dirty", "malformed"}
       \/ meta.state = "valid" /\ ~Acceptable(meta)
       \/ /\ Acceptable(meta)
          /\ meta.leaf_num > 0
          /\ \/ RootSource = "root_files" /\ ~IsFilter(root_file)
             \/ RootSource = "node_1" /\ ~IsFilter(file[meta.phi_r[1]])
             \/ RootSource = "none" /\ meta.leaf_num = 1
       \/ /\ meta.state = "absent"
          /\ root_file # NoFile \/ \E t \in Token : file[t] # NoFile
    /\ pc' = "refused"
    /\ UNCHANGED <<tree, corrupted, root_node, disk, arg, dirty_node, holders>>

-----------------------------------------------------------------------------
Init ==
    /\ leaf_num = 0 /\ phi_f = EmptyMap /\ phi_r = EmptyMap /\ dirty_leaf = {}
    /\ corrupted = FALSE
    /\ root_node = {}
    /\ meta = EmptyMeta("absent")
    /\ file = [t \in Token |-> NoFile]
    /\ root_file = NoFile
    /\ pc = "down"
    /\ arg = NoArg
    /\ dirty_node = {}
    /\ holders = EmptyMap

Insert == (\E c \in Filters : InsertBegin(c)) \/ (\E t \in Token : InsertSave(t)) \/ InsertMap
Update == (\E t \in Token, c \in Filters : UpdateBegin(t, c)) \/ UpdateSave \/ UpdateMark
Remove == (\E t \in Token : RemoveBegin(t)) \/ RemoveMap
Merge  == MergeBegin \/ MergeEmpty \/ MergeSingle \/ MergeCollect
              \/ (\E n \in 1..(leaf_num - 1) : MergeNode(n)) \/ MergeEnd
Fail   == RaiseIOError \/ RaiseMetaError \/ Crash
Load   == LoadNew \/ LoadEmpty \/ LoadRootFiles \/ LoadNodeOne \/ LoadSave
              \/ LoadNoRoot \/ LoadRefuse

Next == Insert \/ Update \/ Remove \/ Merge \/ MarkValid \/ Fail \/ Load

Spec == Init /\ [][Next]_vars

-----------------------------------------------------------------------------
\* Properties

PcValues == {"down", "refused", "idle", "insert_save", "insert_map", "update_save",
             "update_mark", "remove_map", "merge", "merge_loop", "mark_valid", "load_save"}

LeafUnion == UNION {file[t] : t \in LeafTokens}

\* Every variable has its type; a map from ids to tokens has ids of the tree.
TypeOK ==
    /\ leaf_num \in Nat
    /\ phi_r \in [NodeIds(leaf_num) -> Token]
    /\ DOMAIN phi_f \subseteq Token /\ phi_f \in [DOMAIN phi_f -> Nat]
    /\ dirty_leaf \subseteq Nat /\ dirty_node \subseteq Nat
    /\ corrupted \in BOOLEAN
    /\ root_node \in Memory
    /\ meta.state \in {"absent", "valid", "dirty", "malformed"}
    /\ file \in [Token -> Contents]
    /\ root_file \in Contents
    /\ pc \in PcValues
    /\ arg \in [token : Token \cup {NoToken}, node : SUBSET Bit]

ShapeOf(n, f, r, d) ==
    /\ DOMAIN r = NodeIds(n)
    /\ \A i \in DOMAIN r : r[i] \in DOMAIN f /\ f[r[i]] = i
    /\ \A t \in DOMAIN f : f[t] \in DOMAIN r /\ r[f[t]] = t
    /\ d \subseteq LeafIds(n)

\* In every state, during operations, after errors and restarts too: phi_f and
\* phi_r are inverse to each other over the ids 1..2*leaf_num-1, and only leaves
\* are dirty.  insert and remove move several tokens at once to keep this.
TreeShape == ShapeOf(leaf_num, phi_f, phi_r, dirty_leaf)

\* A meta.json in state "valid" always passes the checks of the constructor, so
\* a process that stopped between operations can start again on its files.
ValidMetaIsAcceptable == meta.state = "valid" => Acceptable(meta)

\* No copy of the root is on disk: the constructor marks every leaf dirty.
NoRootOnDisk ==
    leaf_num > 1 /\ root_file = NoFile /\ file[phi_r[1]] = NoFile

\* While the cache accepts operations, meta.json describes the tree in memory:
\* a restart returns the same leaves under the same ids, and the next merge after
\* it recomputes what the next merge without it would.
MetaMatchesMemory ==
    Usable /\ meta.state # "absent" =>
        /\ meta.state = "valid"
        /\ meta.leaf_num = leaf_num /\ meta.phi_f = phi_f /\ meta.phi_r = phi_r
        /\ \/ meta.dirty_leaf = dirty_leaf
           \/ dirty_leaf = LeafIds(leaf_num) /\ NoRootOnDisk

\* A cache that accepts operations has the complete file of every leaf and no
\* file of a token that left the tree, whatever crashed or failed before.
FilesMatchTree ==
    Usable =>
        /\ \A t \in LeafTokens : IsFilter(file[t])
        /\ \A t \in Token : file[t] # NoFile => t \in DOMAIN phi_f

\* Every internal node that execute_merge would skip holds the OR of its children.
CleanNodesAreCurrent ==
    Usable =>
        \A n \in (1..(leaf_num - 1)) \ Ancestors(leaf_num, dirty_leaf) :
            /\ IsFilter(file[phi_r[2 * n]]) /\ IsFilter(file[phi_r[2 * n + 1]])
            /\ file[phi_r[n]] = file[phi_r[2 * n]] \cup file[phi_r[2 * n + 1]]

\* Every file the merge loop reads exists and is complete, even though insert
\* creates internal nodes without a file and remove deletes files.
MergeReadsCompleteFiles ==
    pc = "merge_loop" =>
        \A n \in dirty_node : IsGreatest(n, dirty_node) =>
            IsFilter(file[phi_r[2 * n]]) /\ IsFilter(file[phi_r[2 * n + 1]])

\* A cache with leaves and nothing dirty answers queries from the OR of exactly
\* the current leaves, in memory and in the root files.
CleanRootIsUnionOfLeaves ==
    Usable /\ leaf_num > 0 /\ dirty_leaf = {} =>
        root_node = LeafUnion /\ root_file = LeafUnion

-----------------------------------------------------------------------------
\* The promise of TreeCacheAbs.

\* The constructor has returned: response_query reads root_node, corrupted or not.
Running == pc \notin {"down", "refused", "load_save"}

AbsStatus ==
    LET intact == meta.state \in {"absent", "valid"} /\ root_file # Torn
    IN  IF Running
        THEN IF Usable \/ pc # "idle" THEN "up" ELSE IF intact THEN "refusing" ELSE "broken"
        ELSE IF pc # "refused" /\ intact THEN "down" ELSE "broken"

Abs == INSTANCE TreeCacheAbs WITH
    members <- holders,
    status <- AbsStatus,
    kept <- IF root_file = Torn THEN NoFile ELSE root_file,
    published <- IF Running THEN root_node ELSE NoFile

\* TreeCache implements TreeCacheAbs: JOIN, UPDATE and QUIT change one holder's
\* filter and nothing that queries see, SYNC publishes the OR of all holders, and
\* no cache serves again that an operation left incomplete, by a crash or an error.
AbsSpec == Abs!Spec

=============================================================================
