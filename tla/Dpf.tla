-------------------------------- MODULE Dpf --------------------------------
(***************************************************************************)
(* The distributed point function (include/ref_impl/dpf/bgi16.hpp).  The   *)
(* Dealer makes a pair of keys for the function that is beta at alpha and  *)
(* 0 elsewhere; each Evaluator expands its key into additive shares of the *)
(* function's values over the whole domain (fullEval) or over a range that *)
(* may wrap around (rangeEval), with several threads that write into one   *)
(* vector; the Dealer adds what both send it.                              *)
(*                                                                         *)
(* A block is the set of its 1 bits, so that XOR is symmetric difference.  *)
(* The two pseudo-random functions are any functions on blocks.  The two   *)
(* Evaluators are processes without shared memory and make no use of each  *)
(* other: the model lets them run one after the other.                     *)
(***************************************************************************)
EXTENDS Integers, Sequences, FiniteSetsExt

CONSTANTS
    EllIn, EllOut,   \* bits of an index and of a value
    Bfs,             \* LOCAL_BFS_D: depth of the subtrees expanded at once
    ExtraSplit,      \* the 3 of splitCoff: log2 of the tasks per thread
    Msb,             \* the highest bit of a block
    CoreCounts,      \* the thread counts a call may ask for, powers of two
    H(_, _, _),      \* CCRH: the block for a pseudo-random key, a direction and a block
    PrgKeys, Roots,  \* what randombytes_buf may yield: keyL with keyR, stRoot
    Points,          \* the pairs alpha, beta that gen may be called with
    Ranges,          \* the pairs bg, ed that rangeEval may be called with
    Sizes            \* the lengths that its buffer may have

Pid == 0..1
Dir == 0..1
VEC_LEN == 2^EllIn
Block == SUBSET (0..Msb)

\* What the bindings instantiate and the checks of a call let through: an index has at
\* most 31 bits, the number of threads is a power of two, and both ends of a range lie
\* in the domain.  Roots and pseudo-random blocks are blocks.
ASSUME EvalAssumption ==
    /\ EllIn \in 0..31 /\ EllOut \in 1..8 /\ Msb \in Nat
    /\ Bfs \in 0..EllIn /\ ExtraSplit \in Nat
    /\ \A c \in CoreCounts : c \in Nat \ {0} /\ \E k \in 0..c : 2^k = c
    /\ Ranges \subseteq (0..(VEC_LEN - 1)) \X (0..(VEC_LEN - 1))
    /\ Points \subseteq Nat \X Nat /\ Roots \subseteq [Pid -> Block]
    /\ \A prg \in PrgKeys, d \in Dir, v \in Block : H(prg, d, v) \in Block

VARIABLES
    point,      \* history: what gen was called with
    keys,       \* the keys of the Evaluators
    call,       \* the last evaluation, running or not
    tasks,      \* the subtrees of the domain that it starts from
    thread,     \* its threads: tasks, stack, leaves still to write by their index
    buf,        \* fdresBuf: a word per memory cell, from the elements in it
    failed,     \* threadError is set, or a thread could not be created
    sent,       \* what Evaluators have sent to the Dealer, or Broken
    got,        \* the Evaluators from which the Dealer's threads have received
    revealed    \* what the Dealer's reveal returned

fssvars == <<point, keys, call, tasks, thread, buf, failed, sent, got, revealed>>
eval == <<call, tasks, thread, buf, failed>>

-----------------------------------------------------------------------------
\* The tree.

Xor(a, b) == (a \ b) \cup (b \ a)
getMsb(v) == Msb \in v
getTrunc(v) == MapThenSumSet(LAMBDA b : 2^b, v \cap 0..(EllOut - 1))

\* A child of a node: the pseudo-random block, corrected where the control bit is 1.
Child(prg, cw, st, d) == Xor(H(prg, d, st), IF getMsb(st) THEN cw[d] ELSE {})

\* The bits of an index from the highest, which select the path to its leaf.
PathBit(x, i) == (x \div 2^(EllIn - 1 - i)) % 2

\* Mutant of Correction: the control bits of both children are made equal.
EqualBits(prg, st, ai) ==
    LET exp(p, d) == H(prg, d, st[p])
        common == Xor(exp(0, 1 - ai), exp(1, 1 - ai)) \ {Msb}
    IN  [d \in Dir |-> IF getMsb(Xor(exp(0, d), exp(1, d))) THEN common \cup {Msb} ELSE common]

\* stCw of one level: makes the children off the path equal, and their control bits
\* equal off the path and different on it.
Correction(prg, st, ai) ==
    LET exp(p, d) == H(prg, d, st[p])
        common == Xor(exp(0, 1 - ai), exp(1, 1 - ai)) \ {Msb}
    IN  [d \in Dir |-> IF (d = ai) # getMsb(Xor(exp(0, d), exp(1, d)))
                       THEN common \cup {Msb} ELSE common]

\* cwLast: makes the two leaves at alpha add up to beta.
LastCorrection(beta, st) ==
    (IF getMsb(st[1]) THEN getTrunc(st[0]) - getTrunc(st[1]) - beta
                      ELSE beta - getTrunc(st[0]) + getTrunc(st[1])) % 2^EllOut

\* The blocks stRoot of both keys at every level of the path to alpha.
PathOf(alpha, prg, roots) ==
    LET at[i \in 0..EllIn] ==
            IF i = 0 THEN [p \in Pid |-> IF p = 0 THEN roots[p] \ {Msb} ELSE roots[p] \cup {Msb}]
            ELSE LET ai == PathBit(alpha, i - 1)
                     cw == Correction(prg, at[i - 1], ai)
                 IN  [p \in Pid |-> Child(prg, cw, at[i - 1][p], ai)]
    IN  at

\* gen: the keys differ in stOrigin alone.
KeyPair(alpha, beta, prg, roots) ==
    LET path == PathOf(alpha, prg, roots)
    IN  [p \in Pid |->
            [prg |-> prg, stOrigin |-> path[0][p],
             cws |-> [i \in 0..(EllIn - 1) |-> Correction(prg, path[i], PathBit(alpha, i))],
             cwLast |-> LastCorrection(beta, path[EllIn])]]

\* The value at a leaf: Evaluator 1 negates.
LeafValue(p, key, st) ==
    LET raw == getTrunc(st) + (IF getMsb(st) THEN key.cwLast ELSE 0)
    IN  (IF p = 0 THEN raw ELSE -raw) % 2^EllOut

-----------------------------------------------------------------------------
\* The parts of a call.

Log2(c) == CHOOSE k \in 0..c : 2^k = c
Least(a, b) == IF a < b THEN a ELSE b
SplitCoff(cores) == Least(EllIn - Bfs, Log2(cores) + ExtraSplit)
TotalTasks(cores) == 2^SplitCoff(cores)
TasksPerThread(cores) == (TotalTasks(cores) + cores - 1) \div cores

\* One level of the first expansion, in place, from the last node to the first.
SplitLevel(key, d, t) ==
    LET after[n \in 0..2^d] ==
            IF n = 0 THEN t
            ELSE LET i == 2^d - n
                     st == after[n - 1][i]
                 IN  [after[n - 1] EXCEPT ![2 * i] = Child(key.prg, key.cws[d], st, 0),
                                          ![2 * i + 1] = Child(key.prg, key.cws[d], st, 1)]
    IN  after[2^d]

Tasks(key, cores) ==
    LET level[d \in 0..SplitCoff(cores)] ==
            IF d = 0 THEN [j \in 0..(TotalTasks(cores) - 1) |-> IF j = 0 THEN key.stOrigin ELSE {}]
            ELSE SplitLevel(key, d - 1, level[d - 1])
    IN  level[SplitCoff(cores)]

\* The leaves below a node, level by level in two buffers that take turns.
LeavesBelow(key, node) ==
    LET bfs[b \in 0..(EllIn - node.layer)] ==
            IF b = 0 THEN [j \in {0} |-> node.st]
            ELSE [j \in 0..(2^b - 1) |->
                     Child(key.prg, key.cws[node.layer + b - 1], bfs[b - 1][j \div 2], j % 2)]
    IN  bfs[EllIn - node.layer]

NodeStart(id, layer) == id * 2^(EllIn - layer)
NodeEnd(id, layer) == (id + 1) * 2^(EllIn - layer)

IsCircular(c) == c.ed < c.bg
RangeLen(c) == IF IsCircular(c) THEN (VEC_LEN - c.bg) + c.ed + 1 ELSE c.ed - c.bg + 1

\* A subtree without a leaf in the range.
Pruned(c, id, layer) ==
    IF IsCircular(c) THEN NodeStart(id, layer) > c.ed /\ NodeEnd(id, layer) <= c.bg
    ELSE NodeEnd(id, layer) <= c.bg \/ NodeStart(id, layer) > c.ed

\* Mutant of Overlaps: a subtree must lie on one side of the gap.
OverlapsBoth(c, id, layer) == NodeStart(id, layer) <= c.ed /\ NodeEnd(id, layer) > c.bg

\* A child that is pushed because it has a leaf in the range.
Overlaps(c, id, layer) ==
    IF IsCircular(c) THEN NodeEnd(id, layer) > c.bg \/ NodeStart(id, layer) <= c.ed
    ELSE NodeStart(id, layer) <= c.ed /\ NodeEnd(id, layer) > c.bg

Skipped(c, x) == IF IsCircular(c) THEN x > c.ed /\ x < c.bg ELSE x < c.bg \/ x > c.ed

\* Mutant of Offset: one place too far after the end of the domain.
OffsetPast(c, x) ==
    IF IsCircular(c) THEN IF x >= c.bg THEN x - c.bg ELSE (VEC_LEN - c.bg) + x + 1
    ELSE x - c.bg

Offset(c, x) ==
    IF IsCircular(c) THEN IF x >= c.bg THEN x - c.bg ELSE (VEC_LEN - c.bg) + x
    ELSE x - c.bg

\* Mutant of CellOf: bits, eight to a word (ELL_OUT = 1, which DPF_ELL_OUT_MIN excludes).
CellOfBit(i) == i \div 8

\* The memory cell of Rvector's data_ that holds an element.
CellOf(i) == i

-----------------------------------------------------------------------------
NoCall == [pid |-> 0, bg |-> 0, ed |-> 0, n |-> 0, cores |-> 1, state |-> "none"]
NoWord == <<>>
Broken == <<>>

FssInit ==
    /\ point = [alpha |-> 0, beta |-> 0]
    /\ keys = <<>>
    /\ call = NoCall
    /\ tasks = <<>>
    /\ thread = <<>>
    /\ buf = <<>>
    /\ failed = FALSE
    /\ sent = <<>>
    /\ got = {}
    /\ revealed = Broken

\* The Dealer's gen, and send_key to both.
Generate ==
    /\ keys = <<>>
    /\ \E pt \in Points, prg \in PrgKeys, roots \in Roots :
         /\ pt[1] < VEC_LEN
         /\ point' = [alpha |-> pt[1], beta |-> pt[2]]
         /\ keys' = KeyPair(pt[1], pt[2], prg, roots)
    /\ UNCHANGED <<eval, sent, got, revealed>>

\* Up to the creation of the threads, of which only the first k can be created.
\* The buffer holds what an earlier call has left in it.
Run(c, k) ==
    LET cells == {CellOf(i) : i \in 0..(c.n - 1)}
    IN  /\ call' = c
        /\ tasks' = Tasks(keys[c.pid], c.cores)
        /\ thread' = [t \in 1..k |->
                        [next |-> (t - 1) * TasksPerThread(c.cores),
                         end |-> Least(t * TasksPerThread(c.cores), TotalTasks(c.cores)),
                         stk |-> <<>>, todo |-> <<>>, loaded |-> NoWord]]
        /\ buf' = [w \in cells |-> [i \in {j \in 0..(c.n - 1) : CellOf(j) = w} |-> 2^EllOut - 1]]

\* The threads that get a task.
ThreadsOf(c) == {t \in 1..c.cores : (t - 1) * TasksPerThread(c.cores) < TotalTasks(c.cores)}

\* Evaluator p has its key, and it is its turn.
Idle(p) ==
    /\ p \in DOMAIN keys /\ p = Cardinality(DOMAIN sent)
    /\ call.state # "running" /\ (call.state = "none" \/ call.pid # p)

\* Evaluator p calls rangeEval, or fullEval, with a buffer of n elements.  If a
\* thread cannot be created, the ones that exist are joined and the call throws.
Call(p, bg, ed, n, cores) ==
    LET c == [pid |-> p, bg |-> bg, ed |-> ed, n |-> n, cores |-> cores, state |-> "running"]
    IN  /\ p = 1 => bg = call.bg /\ ed = call.ed
        /\ \/ /\ n # RangeLen(c)
              /\ call' = [c EXCEPT !.state = "threw"]
              /\ UNCHANGED <<tasks, thread, buf, failed>>
           \/ /\ n = RangeLen(c)
              /\ \E k \in 0..Cardinality(ThreadsOf(c)) :
                   Run(c, k) /\ failed' = (k < Cardinality(ThreadsOf(c)))
    /\ UNCHANGED <<point, keys, sent, got, revealed>>

RangeEval ==
    \E p \in Pid : Idle(p) /\
        \E r \in Ranges, n \in Sizes, cores \in CoreCounts : Call(p, r[1], r[2], n, cores)

\* fullEval is the same loop without the tests for the range.
FullEval ==
    \E p \in Pid : Idle(p) /\
        \E n \in Sizes, cores \in CoreCounts : Call(p, 0, VEC_LEN - 1, n, cores)

\* The loop over the leaves below a node goes up.
NextLeaf(th) == Min(DOMAIN th.todo)
Written(th) == DOMAIN th.todo = {}

\* A thread takes a node from its stack, or else its next task.
NodeTaken(th) ==
    IF th.stk # <<>> THEN th.stk[Len(th.stk)]
    ELSE [st |-> tasks[th.next], id |-> th.next, layer |-> SplitCoff(call.cores)]
Popped(th) ==
    IF th.stk # <<>> THEN [th EXCEPT !.stk = SubSeq(th.stk, 1, Len(th.stk) - 1)]
    ELSE [th EXCEPT !.next = th.next + 1]

\* Mutant of ChildOf: the layer of the parent.
ChildInPlace(key, node, d) ==
    [st |-> Child(key.prg, key.cws[node.layer], node.st, d),
     id |-> 2 * node.id + d, layer |-> node.layer]

ChildOf(key, node, d) ==
    [st |-> Child(key.prg, key.cws[node.layer], node.st, d),
     id |-> 2 * node.id + d, layer |-> node.layer + 1]
Pushed(c, key, node, d) ==
    LET child == ChildOf(key, node, d)
    IN  IF Overlaps(c, child.id, child.layer) THEN <<child>> ELSE <<>>

\* The leaves below a node that are in the range, each with its place and value.
LeavesOf(c, key, node) ==
    LET start == NodeStart(node.id, node.layer)
        below == LeavesBelow(key, node)
    IN  [x \in {y \in start..(NodeEnd(node.id, node.layer) - 1) : ~Skipped(c, y)} |->
            [i |-> Offset(c, x), val |-> LeafValue(c.pid, key, below[x - start])]]

Visit(t) ==
    LET th == thread[t]
        key == keys[call.pid]
        node == NodeTaken(th)
        popped == Popped(th)
    IN  /\ Written(th) /\ (th.stk # <<>> \/ th.next < th.end)
        /\ thread' = [thread EXCEPT ![t] =
               IF Pruned(call, node.id, node.layer) THEN popped
               ELSE IF EllIn - node.layer <= Bfs
               THEN [popped EXCEPT !.todo = LeavesOf(call, key, node)]
               ELSE [popped EXCEPT !.stk = popped.stk \o Pushed(call, key, node, 1)
                                                     \o Pushed(call, key, node, 0)]]
        /\ UNCHANGED <<point, keys, call, tasks, buf, failed, sent, got, revealed>>

\* Rvector's set reads the cell of the element, or throws for an index out of range:
\* then threadError is set and the thread ends ...
Load(t) ==
    LET th == thread[t]
        i == th.todo[NextLeaf(th)].i
    IN  /\ ~Written(th) /\ th.loaded = NoWord
        /\ thread' = [thread EXCEPT ![t] =
               IF i < call.n THEN [th EXCEPT !.loaded = buf[CellOf(i)]]
               ELSE [th EXCEPT !.todo = <<>>, !.stk = <<>>, !.next = th.end]]
        /\ failed' = (failed \/ i >= call.n)
        /\ UNCHANGED <<point, keys, call, tasks, buf, sent, got, revealed>>

\* ... and writes it back with the element changed.
Store(t) ==
    LET th == thread[t]
        e == th.todo[NextLeaf(th)]
    IN  /\ ~Written(th) /\ th.loaded # NoWord
        /\ buf' = [buf EXCEPT ![CellOf(e.i)] = [th.loaded EXCEPT ![e.i] = e.val]]
        /\ thread' = [thread EXCEPT ![t].todo = [x \in DOMAIN @ \ {NextLeaf(th)} |-> @[x]],
                                      ![t].loaded = NoWord]
        /\ UNCHANGED <<point, keys, call, tasks, failed, sent, got, revealed>>

Finished(th) == Written(th) /\ th.stk = <<>> /\ th.next >= th.end

\* All threads are joined, and their error is thrown again.
Join ==
    /\ call.state = "running"
    /\ \A t \in DOMAIN thread : Finished(thread[t])
    /\ call' = [call EXCEPT !.state = IF failed THEN "threw" ELSE "done"]
    /\ failed' = FALSE /\ tasks' = <<>> /\ thread' = <<>>
    /\ UNCHANGED <<point, keys, buf, sent, got, revealed>>

Contents == [i \in 0..(call.n - 1) |-> buf[CellOf(i)][i]]

\* The Evaluator's reveal.  One whose evaluation threw ends, and so does its channel.
Reveal ==
    /\ call.state \in {"done", "threw"} /\ call.pid \notin DOMAIN sent
    /\ sent' = [p \in DOMAIN sent \cup {call.pid} |->
                   IF p # call.pid THEN sent[p] ELSE IF call.state = "done" THEN Contents ELSE Broken]
    /\ buf' = <<>>
    /\ UNCHANGED <<point, keys, call, tasks, thread, failed, got, revealed>>

\* The Dealer's reveal: a thread for each Evaluator receives, or catches an error.
Receive(p) ==
    /\ p \in DOMAIN sent \ got
    /\ got' = got \cup {p}
    /\ UNCHANGED <<point, keys, eval, sent, revealed>>

\* Both threads are joined; an error is thrown again, or else the shares are added.
Combine ==
    /\ got = Pid /\ \A p \in Pid : sent[p] # Broken
    /\ revealed = Broken
    /\ revealed' = [i \in DOMAIN sent[0] |-> (sent[0][i] + sent[1][i]) % 2^EllOut]
    /\ UNCHANGED <<point, keys, eval, sent, got>>

FssNext ==
    \/ Generate \/ RangeEval \/ FullEval
    \/ \E t \in DOMAIN thread : Visit(t) \/ Load(t) \/ Store(t)
    \/ Join \/ Reveal
    \/ \E p \in Pid : Receive(p)
    \/ Combine

FssSpec == FssInit /\ [][FssNext]_fssvars

-----------------------------------------------------------------------------
\* Two threads are never about to write the same memory cell: set is not atomic,
\* and one of the two elements would be lost.
Touched(t) ==
    IF Written(thread[t]) THEN {} ELSE {CellOf(thread[t].todo[NextLeaf(thread[t])].i)}
NoDataRace == \A t, u \in DOMAIN thread : t # u => Touched(t) \cap Touched(u) = {}

\* Every place that a thread still has to write is an element of the buffer: the call
\* of set in the leaf loop does not throw, whatever the range.
WritesFit ==
    \A t \in DOMAIN thread : \A x \in DOMAIN thread[t].todo :
        thread[t].todo[x].i \in 0..(call.n - 1)

\* The stack of a thread stays within the array stk, which has ELL_IN - LOCAL_BFS_D + 2
\* places.
StacksFit == \A t \in DOMAIN thread : Len(thread[t].stk) <= EllIn - Bfs + 2

\* The blocks on the path from the root to the leaf of an index.
Walk(key, x) ==
    LET at[i \in 0..EllIn] ==
            IF i = 0 THEN key.stOrigin
            ELSE Child(key.prg, key.cws[i - 1], at[i - 1], PathBit(x, i - 1))
    IN  at
LeafOf(key, x) == Walk(key, x)[EllIn]

\* The i-th element that an evaluation returns is the value at the i-th index of
\* the range, counted from bg and around the end of the domain, however the tree is
\* split, pruned and divided among threads.
RangeIsExact ==
    call.state = "done" /\ buf # <<>> =>
        Contents = [i \in 0..(RangeLen(call) - 1) |->
            LeafValue(call.pid, keys[call.pid], LeafOf(keys[call.pid], (call.bg + i) % VEC_LEN))]

\* What the Dealer adds up is beta, reduced to the output ring, at alpha and 0 at every
\* other index of the range, whatever the random keys were.
RevealIsPoint ==
    revealed # Broken =>
        revealed = [i \in 0..(RangeLen(call) - 1) |->
                  IF (call.bg + i) % VEC_LEN = point.alpha THEN point.beta % 2^EllOut ELSE 0]

=============================================================================
