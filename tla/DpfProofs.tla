----------------------------- MODULE DpfProofs -----------------------------
(***************************************************************************)
(* Proofs about the evaluation of a point function (Dpf), for every width  *)
(* of an index that the bindings instantiate, depth of the subtrees,       *)
(* number of threads, range, key and pseudo-random function: the threads   *)
(* never write the same memory cell, no write is outside the buffer, and   *)
(* no stack grows beyond its array; what an evaluation returns is exact,   *)
(* and what the Dealer reveals is the point function.                      *)
(***************************************************************************)
EXTENDS Dpf, NumberLemmas, SequenceTheorems, TLAPS

-----------------------------------------------------------------------------
\* Powers of two, for the widths of an index.

LEMMA PowerStep ==
    ASSUME NEW k \in 0..30
    PROVE  2^k \in Nat \ {0} /\ 2^(k + 1) \in Nat \ {0} /\ 2^(k + 1) = 2 * 2^k
<1>1. CASE k = 0
  BY <1>1
<1>2. CASE k = 1
  BY <1>2
<1>3. CASE k = 2
  BY <1>3
<1>4. CASE k = 3
  BY <1>4
<1>5. CASE k = 4
  BY <1>5
<1>6. CASE k = 5
  BY <1>6
<1>7. CASE k = 6
  BY <1>7
<1>8. CASE k = 7
  BY <1>8
<1>9. CASE k = 8
  BY <1>9
<1>10. CASE k = 9
  BY <1>10
<1>11. CASE k = 10
  BY <1>11
<1>12. CASE k = 11
  BY <1>12
<1>13. CASE k = 12
  BY <1>13
<1>14. CASE k = 13
  BY <1>14
<1>15. CASE k = 14
  BY <1>15
<1>16. CASE k = 15
  BY <1>16
<1>17. CASE k = 16
  BY <1>17
<1>18. CASE k = 17
  BY <1>18
<1>19. CASE k = 18
  BY <1>19
<1>20. CASE k = 19
  BY <1>20
<1>21. CASE k = 20
  BY <1>21
<1>22. CASE k = 21
  BY <1>22
<1>23. CASE k = 22
  BY <1>23
<1>24. CASE k = 23
  BY <1>24
<1>25. CASE k = 24
  BY <1>25
<1>26. CASE k = 25
  BY <1>26
<1>27. CASE k = 26
  BY <1>27
<1>28. CASE k = 27
  BY <1>28
<1>29. CASE k = 28
  BY <1>29
<1>30. CASE k = 29
  BY <1>30
<1>31. CASE k = 30
  BY <1>31
<1> QED BY <1>1, <1>2, <1>3, <1>4, <1>5, <1>6, <1>7, <1>8, <1>9, <1>10, <1>11,
          <1>12, <1>13, <1>14, <1>15, <1>16, <1>17, <1>18, <1>19, <1>20, <1>21, <1>22,
          <1>23, <1>24, <1>25, <1>26, <1>27, <1>28, <1>29, <1>30, <1>31

LEMMA Power ==
    ASSUME NEW e \in 0..31
    PROVE  2^e \in Nat \ {0} /\ (e # 0 => 2^(e - 1) \in Nat \ {0} /\ 2^e = 2 * 2^(e - 1))
<1>1. CASE e = 0
  <2>1. 2^e = 1
    BY <1>1
  <2> QED BY <1>1, <2>1
<1>2. CASE e # 0
  <2>1. PICK k \in 0..30 : e = k + 1
    BY <1>2, e - 1 \in 0..30
  <2>2. 2^k \in Nat \ {0} /\ 2^(k + 1) \in Nat \ {0} /\ 2^(k + 1) = 2 * 2^k
    BY PowerStep
  <2>3. e - 1 = k
    BY <2>1
  <2> QED BY <2>1, <2>2, <2>3
<1> QED BY <1>1, <1>2

\* A tree of depth e has 2^s nodes at depth s with 2^(e - s) leaves each.
LEMMA PowerSplit ==
    ASSUME NEW e \in 0..31, NEW s \in 0..e
    PROVE  2^s * 2^(e - s) = 2^e
<1> DEFINE T == {x \in 0..e : 2^x * 2^(e - x) # 2^e}
<1> SUFFICES ASSUME T # {} PROVE FALSE
  OBVIOUS
<1>1. PICK x \in T : \A y \in T : x <= y
  <2>1. T \in SUBSET (0..e) /\ e \in Nat
    OBVIOUS
  <2> HIDE DEF T
  <2> QED BY <2>1, Extremes
<1>2. x \in 0..e /\ 2^x * 2^(e - x) # 2^e
  OBVIOUS
<1>3. PICK p \in Nat : p = 2^(e - x)
  BY <1>2, Power, e - x \in 0..31
<1>4. CASE x = 0
  <2>1. 2^x = 1 /\ p = 2^e
    BY <1>3, <1>4, e - 0 = e
  <2> QED BY <1>2, <1>3, <2>1
<1>5. CASE x # 0
  <2>1. x - 1 \in 0..e /\ ~(x <= x - 1)
    BY <1>2, <1>5
  <2>2. x - 1 \notin T
    BY <1>1, <2>1
  <2>3. 2^(x - 1) * 2^(e - (x - 1)) = 2^e
    BY <2>1, <2>2
  <2>4. PICK q \in Nat : q = 2^(x - 1) /\ 2^x = 2 * q
    BY <1>2, <1>5, Power, x \in 0..31
  <2>5. 2^(e - (x - 1)) = 2 * p
    <3>1. e - (x - 1) \in 0..31 /\ e - (x - 1) # 0 /\ (e - (x - 1)) - 1 = e - x
      BY <1>2, <1>5
    <3> QED BY <1>3, <3>1, Power
  <2>6. (2 * q) * p = q * (2 * p)
    BY p \in Nat, q \in Nat, Z3
  <2> QED BY <1>2, <1>3, <2>3, <2>4, <2>5, <2>6
<1> QED BY <1>4, <1>5

-----------------------------------------------------------------------------
\* Nodes and their leaves.

LEMMA NodeFacts ==
    ASSUME NEW id \in Nat, NEW layer \in 0..EllIn
    PROVE  /\ NodeStart(id, layer) \in Nat /\ 2^(EllIn - layer) \in Nat \ {0}
           /\ NodeEnd(id, layer) = NodeStart(id, layer) + 2^(EllIn - layer)
           /\ NodeEnd(id, layer) = NodeStart(id + 1, layer)
<1>1. PICK p \in Nat \ {0} : p = 2^(EllIn - layer)
  <2>1. EllIn - layer \in 0..31
    BY EvalAssumption
  <2> QED BY <2>1, Power
<1>2. id * p \in Nat /\ (id + 1) * p = id * p + p
  BY <1>1, Z3
<1> QED BY <1>1, <1>2 DEF NodeStart, NodeEnd

LEMMA ChildFacts ==
    ASSUME NEW id \in Nat, NEW layer \in 0..EllIn, layer < EllIn, NEW d \in Dir
    PROVE  /\ NodeStart(id, layer) <= NodeStart(2 * id + d, layer + 1)
           /\ NodeEnd(2 * id + d, layer + 1) <= NodeEnd(id, layer)
<1>1. PICK p \in Nat : p = 2^(EllIn - (layer + 1)) /\ 2^(EllIn - layer) = 2 * p
  <2>1. EllIn - layer \in 0..31 /\ EllIn - layer # 0 /\ (EllIn - layer) - 1 = EllIn - (layer + 1)
    BY EvalAssumption
  <2> QED BY <2>1, Power
<1>2. d = 0 \/ d = 1
  BY DEF Dir
<1>3. /\ NodeStart(id, layer) = id * (2 * p) /\ NodeEnd(id, layer) = (id + 1) * (2 * p)
      /\ NodeStart(2 * id + d, layer + 1) = (2 * id + d) * p
      /\ NodeEnd(2 * id + d, layer + 1) = (2 * id + d + 1) * p
  BY <1>1 DEF NodeStart, NodeEnd
<1>4. PICK q \in Nat : q = id * p
  BY <1>1, Z3
<1>5. id * (2 * p) = 2 * q /\ (id + 1) * (2 * p) = 2 * q + 2 * p
  BY <1>1, <1>4, Z3
<1>6. (2 * id + d) * p = 2 * q + d * p /\ (2 * id + d + 1) * p = 2 * q + d * p + p
  BY <1>1, <1>2, <1>4, Z3
<1>7. d * p = 0 \/ d * p = p
  BY <1>1, <1>2
<1>8. d * p \in Nat /\ d * p <= p
  BY <1>1, <1>7
<1> QED BY <1>1, <1>3, <1>4, <1>5, <1>6, <1>8

LEMMA NodeOrder ==
    ASSUME NEW i \in Nat, NEW j \in Nat, i <= j, NEW layer \in 0..EllIn
    PROVE  NodeStart(i, layer) <= NodeStart(j, layer)
<1>1. PICK p \in Nat : p = 2^(EllIn - layer)
  <2>1. EllIn - layer \in 0..31
    BY EvalAssumption
  <2> QED BY <2>1, Power
<1>2. p * i <= p * j
  BY <1>1, TimesMonotonic
<1>3. p * i = i * p /\ p * j = j * p
  BY <1>1, Z3
<1> QED BY <1>1, <1>2, <1>3 DEF NodeStart

LEMMA CoresFacts ==
    ASSUME NEW c \in CoreCounts
    PROVE  /\ SplitCoff(c) \in 0..EllIn /\ SplitCoff(c) <= EllIn - Bfs
           /\ TotalTasks(c) \in Nat \ {0} /\ TasksPerThread(c) \in Nat
           /\ NodeStart(TotalTasks(c), SplitCoff(c)) = VEC_LEN /\ VEC_LEN \in Nat \ {0}
<1>1. c \in Nat \ {0} /\ Log2(c) \in 0..c
  BY EvalAssumption DEF Log2
<1>2. SplitCoff(c) \in 0..EllIn /\ SplitCoff(c) <= EllIn - Bfs
  BY <1>1, EvalAssumption DEF SplitCoff, Least
<1>3. TotalTasks(c) \in Nat \ {0} /\ VEC_LEN \in Nat \ {0}
  <2>1. EllIn \in 0..31 /\ SplitCoff(c) \in 0..31
    BY <1>2, EvalAssumption
  <2> QED BY <2>1, Power DEF TotalTasks, VEC_LEN
<1>4. TasksPerThread(c) \in Nat
  BY <1>1, <1>3, TotalTasks(c) + c - 1 \in Nat, Division DEF TasksPerThread
<1>5. NodeStart(TotalTasks(c), SplitCoff(c)) = VEC_LEN
  BY <1>2, PowerSplit, EvalAssumption DEF NodeStart, TotalTasks, VEC_LEN
<1> QED BY <1>2, <1>3, <1>4, <1>5

\* Different indices of a range have different places in the buffer, and all of them
\* are in it.
LEMMA Places ==
    ASSUME NEW c, c.bg \in 0..(VEC_LEN - 1), c.ed \in 0..(VEC_LEN - 1),
           NEW x \in 0..(VEC_LEN - 1), NEW y \in 0..(VEC_LEN - 1), ~Skipped(c, x), ~Skipped(c, y)
    PROVE  /\ Offset(c, x) \in 0..(RangeLen(c) - 1)
           /\ x # y => Offset(c, x) # Offset(c, y)
<1>1. VEC_LEN \in Nat
  BY Power, EvalAssumption DEF VEC_LEN
<1> HIDE DEF VEC_LEN
<1> QED BY <1>1 DEF Skipped, Offset, RangeLen, IsCircular

-----------------------------------------------------------------------------
\* The invariant.  It is about a call c, a thread t and its state th, so that a step
\* only changes the arguments.

Depth(c) == SplitCoff(c.cores)

\* The first and the last leaf of the tasks of thread t, which end before task end.
Lo(c, t) == NodeStart((t - 1) * TasksPerThread(c.cores), Depth(c))
Hi(c, end) == NodeStart(end, Depth(c)) - 1

\* A node at one of these tasks or below.
Owned(c, t, end, node) ==
    /\ node.id \in Nat /\ node.layer \in Depth(c)..EllIn
    /\ Lo(c, t) <= NodeStart(node.id, node.layer)
    /\ NodeEnd(node.id, node.layer) <= Hi(c, end) + 1

IsSeq(s) == \E S : s \in Seq(S)

\* A stack of such nodes above the subtrees, each deeper than the one below it.
Steep(c, t, end, s) ==
    /\ IsSeq(s)
    /\ \A k \in 1..Len(s) :
          /\ Owned(c, t, end, s[k])
          /\ Depth(c) + k <= s[k].layer /\ s[k].layer <= EllIn - Bfs

\* The two children on top of the stack of a thread are equally deep.
StackOK(c, t, end, s) ==
    /\ IsSeq(s)
    /\ \A k \in 1..Len(s) :
          /\ Owned(c, t, end, s[k])
          /\ Depth(c) + k <= s[k].layer + (IF k = Len(s) THEN 1 ELSE 0)
          /\ s[k].layer <= EllIn - Bfs

TodoOK(c, t, end, todo) ==
    /\ DOMAIN todo \subseteq Lo(c, t)..Hi(c, end)
    /\ \A x \in DOMAIN todo : ~Skipped(c, x) /\ todo[x].i = Offset(c, x)

ThreadOK(c, t, th) ==
    /\ t \in Nat \ {0}
    /\ th = [next |-> th.next, end |-> th.end, stk |-> th.stk, todo |-> th.todo,
             loaded |-> th.loaded]
    /\ th.end = Least(t * TasksPerThread(c.cores), TotalTasks(c.cores))
    /\ th.next \in Nat /\ (t - 1) * TasksPerThread(c.cores) <= th.next
    /\ StackOK(c, t, th.end, th.stk)
    /\ TodoOK(c, t, th.end, th.todo)

CallOK(c) ==
    /\ c.cores \in CoreCounts /\ c.bg \in 0..(VEC_LEN - 1) /\ c.ed \in 0..(VEC_LEN - 1)
    /\ c.n = RangeLen(c)

IInv ==
    /\ call.state # "running" => DOMAIN thread = {}
    /\ DOMAIN thread # {} => CallOK(call)
    /\ \A t \in DOMAIN thread : ThreadOK(call, t, thread[t])

-----------------------------------------------------------------------------
\* Stacks

LEMMA Popping ==
    ASSUME NEW s, IsSeq(s), s # <<>>
    PROVE  LET r == SubSeq(s, 1, Len(s) - 1)
           IN  /\ IsSeq(r) /\ Len(s) \in Nat \ {0} /\ Len(r) = Len(s) - 1
               /\ \A k \in 1..Len(r) : r[k] = s[k]
<1>1. PICK S : s \in Seq(S)
  BY DEF IsSeq
<1>2. Len(s) \in Nat \ {0}
  BY <1>1, EmptySeq
<1>3. PICK n \in Nat : n = Len(s) - 1
  BY <1>2
<1>4. SubSeq(s, 1, n) = [k \in 1..n |-> s[k]]
  <2>1. \A k \in 1..n : 1 + k - 1 = k
    BY <1>3
  <2> QED BY <1>1, <1>2, <1>3, <2>1, SubSeqProperties
<1>5. SubSeq(s, 1, n) \in Seq(S) /\ Len(SubSeq(s, 1, n)) = n
  <2>1. \A k \in 1..n : s[k] \in S
    BY <1>1, <1>2, <1>3, ElementOfSeq
  <2> QED BY <1>3, <1>4, <2>1
<1> QED BY <1>2, <1>3, <1>4, <1>5 DEF IsSeq

LEMMA Pushing ==
    ASSUME NEW s, IsSeq(s), NEW x
    PROVE  LET r == s \o <<x>>
           IN  /\ IsSeq(r) /\ Len(s) \in Nat /\ Len(r) = Len(s) + 1
               /\ r[Len(s) + 1] = x /\ \A k \in 1..Len(s) : r[k] = s[k]
<1>1. PICK S : s \in Seq(S)
  BY DEF IsSeq
<1> DEFINE U == S \cup {x}
<1>2. s \in Seq(U) /\ <<x>> \in Seq(U) /\ Len(<<x>>) = 1 /\ <<x>>[1] = x
  <2>1. S \subseteq U
    OBVIOUS
  <2> HIDE DEF U
  <2>2. s \in Seq(U)
    BY <1>1, <2>1, SeqMonotonic
  <2>3. x \in U
    BY DEF U
  <2> QED BY <2>2, <2>3
<1> HIDE DEF U
<1>3. /\ s \o <<x>> \in Seq(U) /\ Len(s \o <<x>>) = Len(s) + 1
      /\ \A k \in 1..(Len(s) + 1) : (s \o <<x>>)[k] = IF k <= Len(s) THEN s[k] ELSE <<x>>[k - Len(s)]
  BY <1>2, ConcatProperties
<1>4. Len(s) \in Nat
  BY <1>1
<1> QED BY <1>2, <1>3, <1>4 DEF IsSeq

LEMMA NotPushing == \A s : IsSeq(s) => s \o <<>> = s
  BY ConcatEmptySeq DEF IsSeq

LEMMA PushSteep ==
    ASSUME NEW c, NEW t, NEW end, NEW s, Steep(c, t, end, s), NEW x, Owned(c, t, end, x),
           Depth(c) \in Nat, EllIn \in Nat, Bfs \in Nat,
           Depth(c) + Len(s) + 1 <= x.layer, x.layer <= EllIn - Bfs
    PROVE  Steep(c, t, end, s \o <<x>>)
<1> DEFINE r == s \o <<x>>
<1>1. /\ IsSeq(r) /\ Len(s) \in Nat /\ Len(r) = Len(s) + 1
      /\ r[Len(s) + 1] = x /\ \A k \in 1..Len(s) : r[k] = s[k]
  BY Pushing DEF Steep
<1> HIDE DEF r
<1>2. \A k \in 1..Len(r) : k \in 1..Len(s) \/ k = Len(s) + 1
  BY <1>1
<1>3. ASSUME NEW k \in 1..Len(r)
      PROVE  Owned(c, t, end, r[k]) /\ Depth(c) + k <= r[k].layer /\ r[k].layer <= EllIn - Bfs
  <2>1. CASE k \in 1..Len(s)
    BY <1>1, <2>1 DEF Steep
  <2>2. CASE k = Len(s) + 1
    <3>1. r[k] = x
      BY <1>1, <2>2
    <3>2. Depth(c) + k <= x.layer
      BY <1>1, <2>2
    <3> QED BY <3>1, <3>2, Zenon
  <2> QED BY <1>2, <2>1, <2>2
<1>4. Steep(c, t, end, r)
  BY <1>1, <1>3 DEF Steep
<1> QED BY <1>4 DEF r

LEMMA PushTop ==
    ASSUME NEW c, NEW t, NEW end, NEW s, Steep(c, t, end, s), NEW x, Owned(c, t, end, x),
           Depth(c) \in Nat, EllIn \in Nat, Bfs \in Nat,
           Depth(c) + Len(s) <= x.layer, x.layer <= EllIn - Bfs
    PROVE  StackOK(c, t, end, s \o <<x>>)
<1> DEFINE r == s \o <<x>>
<1>1. /\ IsSeq(r) /\ Len(s) \in Nat /\ Len(r) = Len(s) + 1
      /\ r[Len(s) + 1] = x /\ \A k \in 1..Len(s) : r[k] = s[k]
  BY Pushing DEF Steep
<1> HIDE DEF r
<1>2. \A k \in 1..Len(r) : (k \in 1..Len(s) /\ k # Len(r)) \/ k = Len(r)
  BY <1>1
<1>3. ASSUME NEW k \in 1..Len(r)
      PROVE  /\ Owned(c, t, end, r[k]) /\ r[k].layer <= EllIn - Bfs
             /\ Depth(c) + k <= r[k].layer + (IF k = Len(r) THEN 1 ELSE 0)
  <2>1. CASE k \in 1..Len(s) /\ k # Len(r)
    <3>1. Owned(c, t, end, r[k]) /\ Depth(c) + k <= r[k].layer /\ r[k].layer <= EllIn - Bfs
      BY <1>1, <2>1 DEF Steep
    <3>2. r[k].layer \in Int
      BY <3>1 DEF Owned
    <3> QED BY <2>1, <3>1, <3>2
  <2>2. CASE k = Len(r)
    <3>1. x.layer \in Int
      BY DEF Owned
    <3> QED BY <1>1, <2>2, <3>1
  <2> QED BY <1>2, <2>1, <2>2
<1>4. StackOK(c, t, end, r)
  BY <1>1, <1>3 DEF StackOK
<1> QED BY <1>4 DEF r

LEMMA SteepIsOK ==
    ASSUME NEW c, NEW t, NEW end, NEW s, Steep(c, t, end, s), Depth(c) \in Nat
    PROVE  StackOK(c, t, end, s)
<1>1. ASSUME NEW k \in 1..Len(s)
      PROVE  Depth(c) + k <= s[k].layer + (IF k = Len(s) THEN 1 ELSE 0)
  <2>1. Depth(c) + k <= s[k].layer /\ s[k].layer \in Int
    BY DEF Steep, Owned
  <2> QED BY <2>1
<1> QED BY <1>1 DEF Steep, StackOK

\* A thread takes a node of its own, and leaves a steep stack.
LEMMA Taking ==
    ASSUME CallOK(call), NEW t, NEW th, ThreadOK(call, t, th),
           th.stk # <<>> \/ th.next < th.end
    PROVE  LET r == Popped(th).stk
           IN  /\ Popped(th) = [next |-> Popped(th).next, end |-> th.end, stk |-> r,
                                todo |-> th.todo, loaded |-> th.loaded]
               /\ Popped(th).next \in Nat /\ th.next <= Popped(th).next
               /\ Owned(call, t, th.end, NodeTaken(th))
               /\ Steep(call, t, th.end, r)
               /\ Len(r) \in Nat /\ Depth(call) + Len(r) <= NodeTaken(th).layer
<1> DEFINE r == Popped(th).stk
           S == Depth(call)
<1>1. /\ S \in 0..EllIn /\ EllIn \in Nat /\ Bfs \in Nat
      /\ TotalTasks(call.cores) \in Nat /\ TasksPerThread(call.cores) \in Nat
  <2>1. call.cores \in CoreCounts
    BY DEF CallOK
  <2>2. EllIn \in Nat /\ Bfs \in Nat
    BY EvalAssumption
  <2> QED BY <2>1, <2>2, CoresFacts DEF Depth
<1>2. CASE th.stk # <<>>
  <2>1. /\ Popped(th) = [th EXCEPT !.stk = SubSeq(th.stk, 1, Len(th.stk) - 1)]
        /\ NodeTaken(th) = th.stk[Len(th.stk)]
    BY <1>2 DEF Popped, NodeTaken
  <2>2. /\ Popped(th) = [next |-> th.next, end |-> th.end, stk |-> r, todo |-> th.todo, loaded |-> th.loaded]
        /\ r = SubSeq(th.stk, 1, Len(th.stk) - 1)
    BY <2>1 DEF ThreadOK
  <2>3. /\ IsSeq(r) /\ Len(th.stk) \in Nat \ {0} /\ Len(r) = Len(th.stk) - 1
        /\ \A k \in 1..Len(r) : r[k] = th.stk[k]
    BY <1>2, <2>2, Popping DEF ThreadOK, StackOK
  <2>4. Owned(call, t, th.end, NodeTaken(th)) /\ S + Len(th.stk) <= NodeTaken(th).layer + 1
    <3>1. Len(th.stk) \in 1..Len(th.stk)
      BY <2>3
    <3> QED BY <2>1, <3>1 DEF ThreadOK, StackOK
  <2>5. \A k \in 1..Len(r) : k \in 1..Len(th.stk) /\ k # Len(th.stk)
    BY <2>3
  <2> HIDE DEF r
  <2>6. ASSUME NEW k \in 1..Len(r)
        PROVE  Owned(call, t, th.end, r[k]) /\ S + k <= r[k].layer /\ r[k].layer <= EllIn - Bfs
    <3>1. k \in 1..Len(th.stk) /\ k # Len(th.stk) /\ r[k] = th.stk[k]
      BY <2>3, <2>5
    <3>2. /\ Owned(call, t, th.end, r[k]) /\ S + k <= r[k].layer + 0 /\ r[k].layer <= EllIn - Bfs
      BY <3>1 DEF ThreadOK, StackOK
    <3> QED BY <3>2 DEF Owned
  <2>7. Steep(call, t, th.end, r)
    BY <2>3, <2>6 DEF Steep
  <2>8. NodeTaken(th).layer \in Int
    BY <2>4 DEF Owned
  <2>9. S + Len(r) <= NodeTaken(th).layer
    BY <1>1, <2>3, <2>4, <2>8
  <2> HIDE DEF S
  <2> QED BY <2>2, <2>3, <2>4, <2>7, <2>9 DEF r, S, ThreadOK
<1>3. CASE th.stk = <<>> /\ th.next < th.end
  <2>1. /\ Popped(th) = [th EXCEPT !.next = th.next + 1]
        /\ NodeTaken(th) = [st |-> tasks[th.next], id |-> th.next, layer |-> S]
    BY <1>3 DEF Popped, NodeTaken, Depth
  <2>2. /\ Popped(th) = [next |-> th.next + 1, end |-> th.end, stk |-> r, todo |-> th.todo, loaded |-> th.loaded]
        /\ r = <<>>
    BY <1>3, <2>1 DEF ThreadOK
  <2>3. NodeTaken(th).id = th.next /\ NodeTaken(th).layer = S
    BY <2>1
  <2>4. th.next \in Nat /\ th.end \in Nat /\ t - 1 \in Nat /\ th.next + 1 <= th.end
    <3>1. t * TasksPerThread(call.cores) \in Nat
      BY <1>1, Z3 DEF ThreadOK
    <3> QED BY <1>1, <1>3, <3>1 DEF ThreadOK, Least
  <2>5. (t - 1) * TasksPerThread(call.cores) \in Nat
    BY <1>1, <2>4, Z3
  <2>6. Lo(call, t) <= NodeStart(th.next, S)
    BY <1>1, <2>4, <2>5, NodeOrder DEF Lo, ThreadOK
  <2>7. NodeEnd(th.next, S) <= Hi(call, th.end) + 1
    <3> HIDE DEF S
    <3>1. NodeEnd(th.next, S) = NodeStart(th.next + 1, S)
      BY <2>4 DEF NodeEnd, NodeStart
    <3>2. NodeStart(th.next + 1, S) <= NodeStart(th.end, S)
      BY <1>1, <2>4, NodeOrder
    <3>3. NodeStart(th.end, S) \in Nat /\ NodeStart(th.next + 1, S) \in Nat
      <4>1. S \in 0..EllIn /\ th.end \in Nat /\ th.next + 1 \in Nat
        BY <1>1, <2>4
      <4>2. \A id \in Nat : NodeStart(id, S) \in Nat
        BY <4>1, NodeFacts
      <4> QED BY <4>1, <4>2
    <3> QED BY <3>1, <3>2, <3>3 DEF Hi, S
  <2>8. Owned(call, t, th.end, NodeTaken(th))
    BY <1>1, <2>3, <2>4, <2>6, <2>7 DEF Owned
  <2>9. Len(r) = 0 /\ IsSeq(r)
    BY <2>2 DEF IsSeq
  <2>10. Steep(call, t, th.end, r)
    BY <2>9 DEF Steep
  <2> QED BY <1>1, <2>2, <2>3, <2>4, <2>8, <2>9, <2>10
<1> QED BY <1>2, <1>3

-----------------------------------------------------------------------------
\* Where the tasks of a thread lie.

LEMMA Bounds ==
    ASSUME NEW c, CallOK(c), NEW t, NEW th, ThreadOK(c, t, th)
    PROVE  /\ Depth(c) \in 0..EllIn /\ Depth(c) <= EllIn - Bfs /\ EllIn \in Nat /\ Bfs \in Nat
           /\ TasksPerThread(c.cores) \in Nat /\ t \in Nat \ {0}
           /\ (t - 1) * TasksPerThread(c.cores) \in Nat /\ t * TasksPerThread(c.cores) \in Nat
           /\ th.end \in Nat /\ th.end <= t * TasksPerThread(c.cores)
           /\ Lo(c, t) \in Nat /\ Hi(c, th.end) \in Int /\ Hi(c, th.end) < VEC_LEN
           /\ VEC_LEN \in Nat \ {0}
<1>1. /\ Depth(c) \in 0..EllIn /\ Depth(c) <= EllIn - Bfs
      /\ TotalTasks(c.cores) \in Nat \ {0} /\ TasksPerThread(c.cores) \in Nat
      /\ NodeStart(TotalTasks(c.cores), Depth(c)) = VEC_LEN /\ VEC_LEN \in Nat \ {0}
  <2>1. c.cores \in CoreCounts
    BY DEF CallOK
  <2> QED BY <2>1, CoresFacts DEF Depth
<1>2. EllIn \in Nat /\ Bfs \in Nat
  BY EvalAssumption
<1>3. PICK m \in Nat : m = TasksPerThread(c.cores)
  BY <1>1
<1>4. t \in Nat \ {0} /\ t - 1 \in Nat
  BY DEF ThreadOK
<1>5. (t - 1) * m \in Nat /\ t * m \in Nat
  BY <1>3, <1>4, Z3
<1>6. th.end = Least(t * m, TotalTasks(c.cores))
  BY <1>3 DEF ThreadOK
<1>7. th.end \in Nat /\ th.end <= t * m /\ th.end <= TotalTasks(c.cores)
  BY <1>1, <1>5, <1>6 DEF Least
<1>8. \A id \in Nat : NodeStart(id, Depth(c)) \in Nat
  BY <1>1, NodeFacts
<1>9. Lo(c, t) \in Nat
  BY <1>3, <1>5, <1>8 DEF Lo
<1>10. NodeStart(th.end, Depth(c)) <= NodeStart(TotalTasks(c.cores), Depth(c))
  BY <1>1, <1>7, NodeOrder
<1>11. NodeStart(th.end, Depth(c)) \in Nat
  BY <1>7, <1>8
<1>12. Hi(c, th.end) \in Int /\ Hi(c, th.end) < VEC_LEN
  BY <1>1, <1>10, <1>11 DEF Hi
<1> HIDE DEF VEC_LEN
<1> QED BY <1>1, <1>2, <1>3, <1>4, <1>5, <1>7, <1>9, <1>12

\* The leaves of a thread lie below those of the next ones.
LEMMA Apart ==
    ASSUME NEW c, CallOK(c), NEW t, NEW a, ThreadOK(c, t, a),
           NEW u, NEW b, ThreadOK(c, u, b), t < u
    PROVE  Hi(c, a.end) < Lo(c, u)
<1>1. PICK m \in Nat : m = TasksPerThread(c.cores)
  BY Bounds
<1>2. /\ Depth(c) \in 0..EllIn /\ t \in Nat \ {0} /\ u \in Nat \ {0} /\ t <= u - 1 /\ u - 1 \in Nat
      /\ a.end \in Nat /\ a.end <= t * m /\ (u - 1) * m \in Nat /\ t * m \in Nat
  BY <1>1, Bounds
<1>3. t * m <= (u - 1) * m
  <2>1. m * t <= m * (u - 1)
    BY <1>1, <1>2, TimesMonotonic
  <2>2. m * t = t * m /\ m * (u - 1) = (u - 1) * m
    BY <1>1, <1>2, Z3
  <2> QED BY <2>1, <2>2
<1>4. a.end <= (u - 1) * m
  BY <1>2, <1>3
<1>5. NodeStart(a.end, Depth(c)) <= NodeStart((u - 1) * m, Depth(c))
  BY <1>2, <1>4, NodeOrder
<1>6. \A id \in Nat : NodeStart(id, Depth(c)) \in Nat
  BY <1>2, NodeFacts
<1>7. NodeStart(a.end, Depth(c)) \in Nat /\ NodeStart((u - 1) * m, Depth(c)) \in Nat
  BY <1>2, <1>6
<1> QED BY <1>1, <1>5, <1>7 DEF Hi, Lo

\* The element that a thread writes next has its place in the buffer.
LEMMA NextWrite ==
    ASSUME NEW c, CallOK(c), NEW t, NEW th, ThreadOK(c, t, th), ~Written(th)
    PROVE  /\ NextLeaf(th) \in DOMAIN th.todo
           /\ NextLeaf(th) \in Lo(c, t)..Hi(c, th.end) /\ NextLeaf(th) \in 0..(VEC_LEN - 1)
           /\ ~Skipped(c, NextLeaf(th)) /\ th.todo[NextLeaf(th)].i = Offset(c, NextLeaf(th))
           /\ th.todo[NextLeaf(th)].i \in 0..(c.n - 1)
<1>1. /\ Lo(c, t) \in Nat /\ Hi(c, th.end) \in Int /\ Hi(c, th.end) < VEC_LEN
      /\ VEC_LEN \in Nat \ {0}
  BY Bounds
<1> HIDE DEF VEC_LEN
<1>2. DOMAIN th.todo \subseteq Lo(c, t)..Hi(c, th.end)
  BY DEF ThreadOK, TodoOK
<1>3. PICK D : D = DOMAIN th.todo
  OBVIOUS
<1>4. D \in SUBSET (0..VEC_LEN) /\ D # {}
  BY <1>1, <1>2, <1>3 DEF Written
<1>5. \E x \in D : \A y \in D : x <= y
  BY <1>1, <1>4, Extremes
<1>6. NextLeaf(th) \in D
  BY <1>3, <1>5 DEF NextLeaf, Min
<1>7. NextLeaf(th) \in Lo(c, t)..Hi(c, th.end) /\ NextLeaf(th) \in 0..(VEC_LEN - 1)
  BY <1>1, <1>2, <1>3, <1>6
<1>8. ~Skipped(c, NextLeaf(th)) /\ th.todo[NextLeaf(th)].i = Offset(c, NextLeaf(th))
  BY <1>3, <1>6 DEF ThreadOK, TodoOK
<1>9. Offset(c, NextLeaf(th)) \in 0..(RangeLen(c) - 1)
  <2>1. c.bg \in 0..(VEC_LEN - 1) /\ c.ed \in 0..(VEC_LEN - 1)
    BY DEF CallOK
  <2> QED BY <1>7, <1>8, <2>1, Places
<1> QED BY <1>3, <1>6, <1>7, <1>8, <1>9 DEF CallOK

-----------------------------------------------------------------------------
\* The invariant holds in every state.

\* A step of a thread leaves the others alone.
LEMMA OneThread ==
    ASSUME IInv, NEW t \in DOMAIN thread, NEW v, CallOK(call) => ThreadOK(call, t, v),
           UNCHANGED call, thread' = [thread EXCEPT ![t] = v]
    PROVE  IInv'
<1>1. DOMAIN thread' = DOMAIN thread /\ CallOK(call) /\ call.state = "running"
  BY DEF IInv
<1>2. ASSUME NEW u \in DOMAIN thread
      PROVE  ThreadOK(call, u, thread'[u])
  <2>1. CASE u = t
    BY <1>1, <2>1
  <2>2. CASE u # t
    BY <2>2 DEF IInv
  <2> QED BY <2>1, <2>2
<1>3. call' = call
  OBVIOUS
<1> QED BY <1>1, <1>2, <1>3 DEF IInv

\* A node without a leaf in the range, whose task or place on the stack is gone.
LEMMA PopKeeps ==
    ASSUME CallOK(call), NEW t, NEW th, ThreadOK(call, t, th),
           th.stk # <<>> \/ th.next < th.end
    PROVE  ThreadOK(call, t, Popped(th))
<1> DEFINE p == Popped(th)
<1>1. /\ p = [next |-> p.next, end |-> th.end, stk |-> p.stk, todo |-> th.todo, loaded |-> th.loaded]
      /\ p.next \in Nat /\ th.next <= p.next /\ Steep(call, t, th.end, p.stk)
  BY Taking
<1> HIDE DEF p
<1>2. p.end = th.end /\ p.todo = th.todo /\ p.loaded = th.loaded
  BY <1>1
<1>3. /\ Depth(call) \in Nat /\ (t - 1) * TasksPerThread(call.cores) \in Nat
  BY Bounds
<1>4. StackOK(call, t, th.end, p.stk)
  BY <1>1, <1>3, SteepIsOK
<1>5. (t - 1) * TasksPerThread(call.cores) <= p.next
  <2>1. (t - 1) * TasksPerThread(call.cores) <= th.next /\ th.next \in Nat
    BY DEF ThreadOK
  <2> QED BY <1>1, <1>3, <2>1
<1>6. ThreadOK(call, t, p)
  BY <1>1, <1>2, <1>4, <1>5 DEF ThreadOK
<1> QED BY <1>6 DEF p

\* The leaves of a node are those of the thread that are in the range.
LEMMA LeavesKeep ==
    ASSUME CallOK(call), NEW t, NEW th, ThreadOK(call, t, th), NEW key,
           th.stk # <<>> \/ th.next < th.end
    PROVE  ThreadOK(call, t, [Popped(th) EXCEPT !.todo = LeavesOf(call, key, NodeTaken(th))])
<1> DEFINE p == Popped(th)
           L == LeavesOf(call, key, NodeTaken(th))
           n == NodeTaken(th)
<1>1. /\ p = [next |-> p.next, end |-> th.end, stk |-> p.stk, todo |-> th.todo, loaded |-> th.loaded]
      /\ Owned(call, t, th.end, n)
  BY Taking
<1>2. ThreadOK(call, t, p)
  BY PopKeeps
<1>3. /\ DOMAIN L = {y \in NodeStart(n.id, n.layer)..(NodeEnd(n.id, n.layer) - 1) : ~Skipped(call, y)}
      /\ \A x \in DOMAIN L : L[x].i = Offset(call, x)
  BY DEF LeavesOf
<1>4. TodoOK(call, t, th.end, L)
  <2>1. Depth(call) \in 0..EllIn /\ EllIn \in Nat /\ Lo(call, t) \in Nat /\ Hi(call, th.end) \in Int
    BY Bounds
  <2> HIDE DEF L, n
  <2>2. /\ n.id \in Nat /\ n.layer \in 0..EllIn
        /\ Lo(call, t) <= NodeStart(n.id, n.layer) /\ NodeEnd(n.id, n.layer) <= Hi(call, th.end) + 1
    BY <1>1, <2>1 DEF Owned
  <2>3. NodeStart(n.id, n.layer) \in Nat /\ NodeEnd(n.id, n.layer) \in Int
    <3>1. /\ NodeStart(n.id, n.layer) \in Nat /\ 2^(EllIn - n.layer) \in Nat \ {0}
          /\ NodeEnd(n.id, n.layer) = NodeStart(n.id, n.layer) + 2^(EllIn - n.layer)
      BY <2>2, NodeFacts
    <3> QED BY <3>1
  <2>4. DOMAIN L \subseteq Lo(call, t)..Hi(call, th.end)
    BY <1>3, <2>1, <2>2, <2>3
  <2> QED BY <1>3, <2>4 DEF TodoOK
<1> HIDE DEF p, L
<1>5. [p EXCEPT !.todo = L] =
          [next |-> p.next, end |-> th.end, stk |-> p.stk, todo |-> L, loaded |-> th.loaded]
  BY <1>1
<1>6. p.end = th.end
  BY <1>1
<1>7. ThreadOK(call, t, [p EXCEPT !.todo = L])
  BY <1>2, <1>4, <1>5, <1>6 DEF ThreadOK
<1> QED BY <1>7 DEF p, L

\* The children of a node that are pushed, right before left.
LEMMA PushKeeps ==
    ASSUME CallOK(call), NEW t, NEW th, ThreadOK(call, t, th), NEW key,
           th.stk # <<>> \/ th.next < th.end, ~(EllIn - NodeTaken(th).layer <= Bfs)
    PROVE  ThreadOK(call, t, [Popped(th) EXCEPT !.stk =
               Popped(th).stk \o Pushed(call, key, NodeTaken(th), 1) \o Pushed(call, key, NodeTaken(th), 0)])
<1> DEFINE p == Popped(th)
           n == NodeTaken(th)
           s == p.stk \o Pushed(call, key, n, 1) \o Pushed(call, key, n, 0)
<1>1. /\ p = [next |-> p.next, end |-> th.end, stk |-> p.stk, todo |-> th.todo, loaded |-> th.loaded]
      /\ Owned(call, t, th.end, n) /\ Steep(call, t, th.end, p.stk)
      /\ Len(p.stk) \in Nat /\ Depth(call) + Len(p.stk) <= n.layer
  BY Taking
<1>2. ThreadOK(call, t, p)
  BY PopKeeps
<1>3. StackOK(call, t, th.end, s)
  <2> DEFINE x(d) == ChildOf(key, n, d)
  <2>1. /\ Depth(call) \in 0..EllIn /\ EllIn \in Nat /\ Bfs \in Nat
        /\ Lo(call, t) \in Nat /\ Hi(call, th.end) \in Int
    BY Bounds
  <2>2. ~(EllIn - n.layer <= Bfs)
    OBVIOUS
  <2>3. \A d \in Dir : x(d).id = 2 * n.id + d /\ x(d).layer = n.layer + 1
    BY DEF ChildOf
  <2>4. \A d \in Dir : Pushed(call, key, n, d) = <<x(d)>> \/ Pushed(call, key, n, d) = <<>>
    BY DEF Pushed
  <2>5. 0 \in Dir /\ 1 \in Dir
    BY DEF Dir
  <2> HIDE DEF n, x, p
  <2>6. /\ n.id \in Nat /\ n.layer \in 0..EllIn /\ n.layer < EllIn /\ n.layer + 1 <= EllIn - Bfs
        /\ n.layer + 1 \in Depth(call)..EllIn
        /\ Lo(call, t) <= NodeStart(n.id, n.layer) /\ NodeEnd(n.id, n.layer) <= Hi(call, th.end) + 1
    BY <1>1, <2>1, <2>2, SMTT(30) DEF Owned
  <2>7. ASSUME NEW d \in Dir
        PROVE  Owned(call, t, th.end, x(d)) /\ x(d).layer = n.layer + 1
    <3>1. x(d).id \in Nat /\ x(d).id = 2 * n.id + d /\ x(d).layer = n.layer + 1
      BY <2>3, <2>6 DEF Dir
    <3>2. /\ NodeStart(n.id, n.layer) <= NodeStart(x(d).id, x(d).layer)
          /\ NodeEnd(x(d).id, x(d).layer) <= NodeEnd(n.id, n.layer)
      BY <2>6, <3>1, ChildFacts
    <3>3. /\ NodeStart(n.id, n.layer) \in Nat /\ NodeEnd(n.id, n.layer) \in Nat
          /\ NodeStart(x(d).id, x(d).layer) \in Nat /\ NodeEnd(x(d).id, x(d).layer) \in Nat
      <4>1. \A id \in Nat, layer \in 0..EllIn :
                NodeStart(id, layer) \in Nat /\ NodeEnd(id, layer) \in Nat
        <5> SUFFICES ASSUME NEW id \in Nat, NEW layer \in 0..EllIn
                     PROVE  NodeStart(id, layer) \in Nat /\ NodeEnd(id, layer) \in Nat
          OBVIOUS
        <5>1. /\ NodeStart(id, layer) \in Nat /\ 2^(EllIn - layer) \in Nat \ {0}
              /\ NodeEnd(id, layer) = NodeStart(id, layer) + 2^(EllIn - layer)
          BY NodeFacts
        <5> QED BY <5>1
      <4>2. x(d).layer \in 0..EllIn
        BY <2>1, <2>6, <3>1
      <4> QED BY <2>6, <3>1, <4>1, <4>2
    <3>4. /\ Lo(call, t) <= NodeStart(x(d).id, x(d).layer)
          /\ NodeEnd(x(d).id, x(d).layer) <= Hi(call, th.end) + 1
      BY <2>1, <2>6, <3>2, <3>3, SMTT(30)
    <3> QED BY <2>6, <3>1, <3>4 DEF Owned
  <2>8. ASSUME NEW r, Steep(call, t, th.end, r), NEW d \in Dir, Depth(call) + Len(r) <= n.layer + 1
        PROVE  StackOK(call, t, th.end, r \o Pushed(call, key, n, d))
    <3>1. CASE Pushed(call, key, n, d) = <<x(d)>>
      <4>1. StackOK(call, t, th.end, r \o <<x(d)>>)
        BY <2>1, <2>6, <2>7, <2>8, PushTop
      <4> QED BY <3>1, <4>1
    <3>2. CASE Pushed(call, key, n, d) = <<>>
      <4>1. r \o <<>> = r
        BY <2>8, NotPushing DEF Steep
      <4>2. StackOK(call, t, th.end, r)
        BY <2>1, <2>8, SteepIsOK
      <4> QED BY <3>2, <4>1, <4>2
    <3> QED BY <2>4, <3>1, <3>2
  <2>9. CASE Pushed(call, key, n, 1) = <<x(1)>>
    <3> DEFINE r == p.stk \o <<x(1)>>
    <3>1. Steep(call, t, th.end, r)
      <4>1. Owned(call, t, th.end, x(1)) /\ x(1).layer = n.layer + 1
        BY <2>5, <2>7
      <4> QED BY <1>1, <2>1, <2>6, <4>1, PushSteep
    <3>2. Len(r) = Len(p.stk) + 1
      BY <1>1, Pushing DEF Steep
    <3> HIDE DEF r
    <3>3. Depth(call) + Len(r) <= n.layer + 1
      BY <1>1, <2>1, <2>6, <3>2, SMTT(30)
    <3>4. StackOK(call, t, th.end, r \o Pushed(call, key, n, 0))
      BY <2>5, <2>8, <3>1, <3>3
    <3> QED BY <2>9, <3>4 DEF r
  <2>10. CASE Pushed(call, key, n, 1) = <<>>
    <3>1. p.stk \o <<>> = p.stk
      BY <1>1, NotPushing DEF Steep
    <3>2. Depth(call) + Len(p.stk) <= n.layer + 1
      BY <1>1, <2>1, <2>6
    <3>3. StackOK(call, t, th.end, p.stk \o Pushed(call, key, n, 0))
      BY <1>1, <2>5, <2>8, <3>2
    <3> QED BY <2>10, <3>1, <3>3
  <2> QED BY <2>4, <2>5, <2>9, <2>10
<1> HIDE DEF p, s
<1>4. [p EXCEPT !.stk = s] =
          [next |-> p.next, end |-> th.end, stk |-> s, todo |-> th.todo, loaded |-> th.loaded]
  BY <1>1
<1>5. p.end = th.end /\ p.todo = th.todo
  BY <1>1
<1>6. ThreadOK(call, t, [p EXCEPT !.stk = s])
  BY <1>2, <1>3, <1>4, <1>5 DEF ThreadOK
<1> QED BY <1>6 DEF p, s

LEMMA VisitStep ==
    ASSUME IInv, NEW t \in DOMAIN thread, Visit(t)
    PROVE  IInv'
<1> DEFINE th == thread[t]
           key == keys[call.pid]
           n == NodeTaken(th)
           a == Popped(th)
           b == [Popped(th) EXCEPT !.todo = LeavesOf(call, key, n)]
           c == [Popped(th) EXCEPT !.stk = Popped(th).stk \o Pushed(call, key, n, 1)
                                                           \o Pushed(call, key, n, 0)]
           v == IF Pruned(call, n.id, n.layer) THEN a ELSE IF EllIn - n.layer <= Bfs THEN b ELSE c
<1>1. /\ th.stk # <<>> \/ th.next < th.end
      /\ thread' = [thread EXCEPT ![t] = v] /\ UNCHANGED call
  BY DEF Visit
<1>2. CallOK(call) /\ ThreadOK(call, t, th)
  BY DEF IInv
<1>3. ThreadOK(call, t, a) /\ ThreadOK(call, t, b)
  BY <1>1, <1>2, PopKeeps, LeavesKeep
<1>4. ~(EllIn - n.layer <= Bfs) => ThreadOK(call, t, c)
  BY <1>1, <1>2, PushKeeps
<1> HIDE DEF a, b, c
<1>5. ThreadOK(call, t, v)
  BY <1>3, <1>4
<1> HIDE DEF v
<1> QED BY <1>1, <1>5, OneThread

\* The index is never out of range: set does not throw.
LEMMA LoadStep ==
    ASSUME IInv, NEW t \in DOMAIN thread, Load(t)
    PROVE  IInv'
<1> DEFINE th == thread[t]
           i == th.todo[NextLeaf(th)].i
           v == [th EXCEPT !.loaded = buf[CellOf(i)]]
<1>1. CallOK(call) /\ ThreadOK(call, t, th)
  BY DEF IInv
<1>2. i \in 0..(call.n - 1)
  BY <1>1, NextWrite DEF Load
<1>3. call.n \in Int
  <2>1. VEC_LEN \in Nat \ {0} /\ call.bg \in 0..(VEC_LEN - 1) /\ call.ed \in 0..(VEC_LEN - 1)
    BY <1>1, Bounds DEF CallOK
  <2> HIDE DEF VEC_LEN
  <2> QED BY <1>1, <2>1 DEF CallOK, RangeLen
<1>4. i < call.n
  BY <1>2, <1>3
<1>5. thread' = [thread EXCEPT ![t] = v] /\ UNCHANGED call
  BY <1>4 DEF Load
<1>6. v = [next |-> th.next, end |-> th.end, stk |-> th.stk, todo |-> th.todo, loaded |-> v.loaded]
  BY <1>1 DEF ThreadOK
<1> HIDE DEF v
<1>7. v.next = th.next /\ v.end = th.end /\ v.stk = th.stk /\ v.todo = th.todo
  BY <1>6
<1>8. ThreadOK(call, t, v)
  BY <1>1, <1>6, <1>7 DEF ThreadOK
<1> QED BY <1>5, <1>8, OneThread

LEMMA StoreStep ==
    ASSUME IInv, NEW t \in DOMAIN thread, Store(t)
    PROVE  IInv'
<1> DEFINE th == thread[t]
           d == [x \in DOMAIN th.todo \ {NextLeaf(th)} |-> th.todo[x]]
           v == [[th EXCEPT !.todo = d] EXCEPT !.loaded = NoWord]
<1>1. CallOK(call) /\ ThreadOK(call, t, th)
  BY DEF IInv
<1>2. thread' = [thread EXCEPT ![t] = v] /\ UNCHANGED call
  BY DEF Store
<1>3. v = [next |-> th.next, end |-> th.end, stk |-> th.stk, todo |-> d, loaded |-> NoWord]
  <2>1. th = [next |-> th.next, end |-> th.end, stk |-> th.stk, todo |-> th.todo, loaded |-> th.loaded]
    BY <1>1 DEF ThreadOK
  <2>2. PICK f1, f2, f3, f4, f5 :
            /\ th = [next |-> f1, end |-> f2, stk |-> f3, todo |-> f4, loaded |-> f5]
            /\ f1 = th.next /\ f2 = th.end /\ f3 = th.stk
    BY <2>1
  <2> HIDE DEF th, d
  <2>3. [th EXCEPT !.todo = d] = [next |-> f1, end |-> f2, stk |-> f3, todo |-> d, loaded |-> f5]
    BY <2>2
  <2>4. [[next |-> f1, end |-> f2, stk |-> f3, todo |-> d, loaded |-> f5] EXCEPT !.loaded = NoWord]
            = [next |-> f1, end |-> f2, stk |-> f3, todo |-> d, loaded |-> NoWord]
    OBVIOUS
  <2> QED BY <2>2, <2>3, <2>4, Zenon
<1>4. /\ DOMAIN d \subseteq DOMAIN th.todo
      /\ \A x \in DOMAIN d : d[x] = th.todo[x]
  OBVIOUS
<1> HIDE DEF v, d
<1>5. v.next = th.next /\ v.end = th.end /\ v.stk = th.stk /\ v.todo = d /\ v.loaded = NoWord
  BY <1>3
<1>6. TodoOK(call, t, th.end, d)
  <2>1. TodoOK(call, t, th.end, th.todo)
    BY <1>1 DEF ThreadOK
  <2> QED BY <1>4, <2>1 DEF TodoOK
<1>7. ThreadOK(call, t, v)
  BY <1>1, <1>3, <1>5, <1>6 DEF ThreadOK
<1> QED BY <1>2, <1>7, OneThread

\* A call whose buffer has the right length starts threads with the invariant.
LEMMA CallStep ==
    ASSUME IInv, NEW p, NEW bg \in 0..(VEC_LEN - 1), NEW ed \in 0..(VEC_LEN - 1), NEW n,
           NEW cores \in CoreCounts, call.state # "running", Call(p, bg, ed, n, cores)
    PROVE  IInv'
<1> DEFINE c == [pid |-> p, bg |-> bg, ed |-> ed, n |-> n, cores |-> cores, state |-> "running"]
<1>1. DOMAIN thread = {}
  BY DEF IInv
<1>2. CASE call' = [c EXCEPT !.state = "threw"] /\ UNCHANGED thread
  BY <1>1, <1>2 DEF IInv
<1>3. ASSUME n = RangeLen(c), NEW k \in 0..Cardinality(ThreadsOf(c)), Run(c, k)
      PROVE  IInv'
  <2>1. c.bg = bg /\ c.ed = ed /\ c.n = n /\ c.cores = cores /\ c.state = "running"
    OBVIOUS
  <2>2. call' = c
    BY <1>3 DEF Run
  <2>3. CallOK(c)
    BY <1>3, <2>1 DEF CallOK
  <2>4. PICK m \in Nat : m = TasksPerThread(cores) /\ TotalTasks(cores) \in Nat
    BY CoresFacts
  <2> DEFINE first(u) == [next |-> (u - 1) * m, end |-> Least(u * m, TotalTasks(cores)),
                          stk |-> <<>>, todo |-> <<>>, loaded |-> NoWord]
  <2>5. thread' = [u \in 1..k |-> first(u)]
    BY <1>3, <2>1, <2>4 DEF Run
  <2>6. k \in Nat
    <3>1. ThreadsOf(c) \subseteq 1..c.cores /\ c.cores = cores
      BY <2>1 DEF ThreadsOf
    <3>2. cores \in Int
      BY EvalAssumption
    <3>3. IsFiniteSet(1..cores)
      BY <3>2, FS_Interval, 1 \in Int
    <3>4. IsFiniteSet(ThreadsOf(c))
      BY <3>1, <3>3, FS_Subset
    <3>5. Cardinality(ThreadsOf(c)) \in Nat
      BY <3>4, FS_CardinalityType
    <3> QED BY <3>5
  <2> HIDE DEF c
  <2>7. ASSUME NEW u \in 1..k
        PROVE  ThreadOK(c, u, first(u))
    <3>1. u \in Nat \ {0} /\ u - 1 \in Nat
      BY <2>6
    <3>2. (u - 1) * m \in Nat
      BY <2>4, <3>1, Z3
    <3>3. StackOK(c, u, first(u).end, <<>>)
      <4>1. Len(<<>>) = 0 /\ IsSeq(<<>>)
        BY DEF IsSeq
      <4> QED BY <4>1 DEF StackOK
    <3>4. TodoOK(c, u, first(u).end, <<>>)
      <4>1. DOMAIN <<>> = {}
        OBVIOUS
      <4> QED BY <4>1 DEF TodoOK
    <3>5. c.cores = cores
      BY <2>1
    <3>6. /\ first(u).next = (u - 1) * m /\ first(u).end = Least(u * m, TotalTasks(cores))
          /\ first(u).stk = <<>> /\ first(u).todo = <<>> /\ first(u).loaded = NoWord
      OBVIOUS
    <3>7. (u - 1) * m <= (u - 1) * m
      BY <3>2
    <3> QED BY <2>4, <3>1, <3>2, <3>3, <3>4, <3>5, <3>6, <3>7 DEF ThreadOK
  <2> HIDE DEF first
  <2>8. DOMAIN thread' = 1..k /\ \A u \in 1..k : thread'[u] = first(u)
    BY <2>5
  <2>9. call'.state = "running"
    BY <2>1, <2>2
  <2> QED BY <2>2, <2>3, <2>7, <2>8, <2>9 DEF IInv
<1>4. \/ call' = [c EXCEPT !.state = "threw"] /\ UNCHANGED thread
      \/ n = RangeLen(c) /\ \E k \in 0..Cardinality(ThreadsOf(c)) : Run(c, k)
  BY DEF Call
<1> HIDE DEF c
<1> QED BY <1>2, <1>3, <1>4

LEMMA InvInit ==
    ASSUME FssInit
    PROVE  IInv
<1>1. DOMAIN thread = {}
  BY DEF FssInit
<1> QED BY <1>1 DEF IInv

LEMMA InvStep ==
    ASSUME IInv, [FssNext]_fssvars
    PROVE  IInv'
<1>1. CASE UNCHANGED <<call, thread>>
  BY <1>1 DEF IInv
<1>2. CASE RangeEval
  <2>1. PICK p \in Pid, w \in Ranges, n \in Sizes, cores \in CoreCounts :
            Idle(p) /\ Call(p, w[1], w[2], n, cores)
    BY <1>2 DEF RangeEval
  <2>2. w[1] \in 0..(VEC_LEN - 1) /\ w[2] \in 0..(VEC_LEN - 1)
    BY <2>1, EvalAssumption
  <2>3. call.state # "running"
    BY <2>1 DEF Idle
  <2> QED BY <2>1, <2>2, <2>3, CallStep
<1>3. CASE FullEval
  <2>1. PICK p \in Pid, n \in Sizes, cores \in CoreCounts :
            Idle(p) /\ Call(p, 0, VEC_LEN - 1, n, cores)
    BY <1>3 DEF FullEval
  <2>2. 0 \in 0..(VEC_LEN - 1) /\ VEC_LEN - 1 \in 0..(VEC_LEN - 1)
    <3>1. VEC_LEN \in Nat \ {0}
      BY <2>1, CoresFacts
    <3> HIDE DEF VEC_LEN
    <3> QED BY <3>1
  <2>3. call.state # "running"
    BY <2>1 DEF Idle
  <2> QED BY <2>1, <2>2, <2>3, CallStep
<1>4. CASE \E t \in DOMAIN thread : Visit(t) \/ Load(t) \/ Store(t)
  BY <1>4, VisitStep, LoadStep, StoreStep
<1>5. CASE Join
  <2>1. DOMAIN thread' = {}
    BY <1>5 DEF Join
  <2> QED BY <2>1 DEF IInv
<1>6. CASE Generate \/ Reveal \/ Combine \/ (\E p \in Pid : Receive(p)) \/ UNCHANGED fssvars
  BY <1>1, <1>6 DEF Generate, Reveal, Combine, Receive, eval, fssvars
<1> QED BY <1>2, <1>3, <1>4, <1>5, <1>6 DEF FssNext

-----------------------------------------------------------------------------
\* What follows from it.

LEMMA InvNoDataRace ==
    ASSUME IInv
    PROVE  NoDataRace
<1> SUFFICES ASSUME NEW t \in DOMAIN thread, NEW u \in DOMAIN thread, t # u,
                    ~Written(thread[t]), ~Written(thread[u])
             PROVE  thread[t].todo[NextLeaf(thread[t])].i # thread[u].todo[NextLeaf(thread[u])].i
  BY DEF NoDataRace, Touched, CellOf
<1>1. CallOK(call) /\ ThreadOK(call, t, thread[t]) /\ ThreadOK(call, u, thread[u])
  BY DEF IInv
<1>2. t < u \/ u < t
  BY <1>1 DEF ThreadOK
<1>3. PICK x, y : x = NextLeaf(thread[t]) /\ y = NextLeaf(thread[u])
  OBVIOUS
<1>4. /\ x \in Lo(call, t)..Hi(call, thread[t].end) /\ x \in 0..(VEC_LEN - 1)
      /\ ~Skipped(call, x) /\ thread[t].todo[x].i = Offset(call, x)
      /\ y \in Lo(call, u)..Hi(call, thread[u].end) /\ y \in 0..(VEC_LEN - 1)
      /\ ~Skipped(call, y) /\ thread[u].todo[y].i = Offset(call, y)
  BY <1>1, <1>3, NextWrite
<1>5. x # y
  <2>1. /\ Lo(call, t) \in Nat /\ Hi(call, thread[t].end) \in Int
        /\ Lo(call, u) \in Nat /\ Hi(call, thread[u].end) \in Int
    BY <1>1, Bounds
  <2>2. t < u => Hi(call, thread[t].end) < Lo(call, u)
    BY <1>1, Apart
  <2>3. u < t => Hi(call, thread[u].end) < Lo(call, t)
    BY <1>1, Apart
  <2> QED BY <1>2, <1>4, <2>1, <2>2, <2>3
<1>6. call.bg \in 0..(VEC_LEN - 1) /\ call.ed \in 0..(VEC_LEN - 1)
  BY <1>1 DEF CallOK
<1>7. Offset(call, x) # Offset(call, y)
  BY <1>4, <1>5, <1>6, Places
<1> QED BY <1>3, <1>4, <1>7

\* Two threads of an evaluation never write the same memory cell, for every width, range,
\* number of threads and key (the threads of rangeEval and fullEval share fdresBuf
\* without a lock).
THEOREM ThreadsNeverRace == FssSpec => []NoDataRace
<1>1. FssInit => IInv
  BY InvInit
<1>2. IInv /\ [FssNext]_fssvars => IInv'
  BY InvStep
<1>3. IInv => NoDataRace
  BY InvNoDataRace
<1> QED BY <1>1, <1>2, <1>3, PTL DEF FssSpec

LEMMA InvFit ==
    ASSUME IInv
    PROVE  WritesFit /\ StacksFit
<1> SUFFICES ASSUME NEW t \in DOMAIN thread
             PROVE  /\ \A x \in DOMAIN thread[t].todo : thread[t].todo[x].i \in 0..(call.n - 1)
                    /\ Len(thread[t].stk) <= EllIn - Bfs + 2
  BY DEF WritesFit, StacksFit
<1> DEFINE th == thread[t]
<1>1. CallOK(call) /\ ThreadOK(call, t, th)
  BY DEF IInv
<1>2. /\ Depth(call) \in 0..EllIn /\ EllIn \in Nat /\ Bfs \in Nat /\ Depth(call) <= EllIn - Bfs
      /\ Lo(call, t) \in Nat /\ Hi(call, th.end) \in Int /\ Hi(call, th.end) < VEC_LEN
      /\ VEC_LEN \in Nat \ {0}
  BY <1>1, Bounds
<1> HIDE DEF VEC_LEN, th
<1>3. ASSUME NEW x \in DOMAIN th.todo
      PROVE  th.todo[x].i \in 0..(call.n - 1)
  <2>1. x \in Lo(call, t)..Hi(call, th.end) /\ ~Skipped(call, x) /\ th.todo[x].i = Offset(call, x)
    BY <1>1, <1>3 DEF ThreadOK, TodoOK
  <2>2. x \in 0..(VEC_LEN - 1)
    BY <1>2, <2>1
  <2>3. call.bg \in 0..(VEC_LEN - 1) /\ call.ed \in 0..(VEC_LEN - 1) /\ call.n = RangeLen(call)
    BY <1>1 DEF CallOK
  <2> QED BY <2>1, <2>2, <2>3, Places
<1>4. Len(th.stk) <= EllIn - Bfs + 2
  <2>1. PICK S : th.stk \in Seq(S)
    BY <1>1 DEF ThreadOK, StackOK, IsSeq
  <2>2. Len(th.stk) \in Nat
    BY <2>1
  <2>3. CASE Len(th.stk) = 0
    BY <1>2, <2>3
  <2>4. CASE Len(th.stk) # 0
    <3>1. Len(th.stk) \in 1..Len(th.stk)
      BY <2>2, <2>4
    <3>2. PICK top : top = th.stk[Len(th.stk)]
      OBVIOUS
    <3>3. /\ Depth(call) + Len(th.stk) <= top.layer + 1 /\ top.layer <= EllIn - Bfs
          /\ Owned(call, t, th.end, top)
      BY <1>1, <3>1, <3>2 DEF ThreadOK, StackOK
    <3>4. top.layer \in Int
      BY <1>2, <3>3 DEF Owned
    <3> QED BY <1>2, <2>2, <3>3, <3>4, SMTT(40)
  <2> QED BY <2>3, <2>4
<1> QED BY <1>3, <1>4 DEF th

\* An evaluation never writes outside its buffer, for every width and range: the index
\* that the leaf loop passes to set is in range, and set does not throw.
THEOREM WritesAlwaysFit == FssSpec => []WritesFit
<1>1. FssInit => IInv
  BY InvInit
<1>2. IInv /\ [FssNext]_fssvars => IInv'
  BY InvStep
<1>3. IInv => WritesFit
  BY InvFit
<1> QED BY <1>1, <1>2, <1>3, PTL DEF FssSpec

\* The array stk of rangeEval and fullEval is large enough, for every width, number of
\* threads and range.
THEOREM StacksAlwaysFit == FssSpec => []StacksFit
<1>1. FssInit => IInv
  BY InvInit
<1>2. IInv /\ [FssNext]_fssvars => IInv'
  BY InvStep
<1>3. IInv => StacksFit
  BY InvFit
<1> QED BY <1>1, <1>2, <1>3, PTL DEF FssSpec

-----------------------------------------------------------------------------
\* The tree that a key stands for.

KeyOK(key) ==
    /\ key.prg \in PrgKeys /\ key.stOrigin \in Block /\ key.cwLast \in Int
    /\ \A i \in 0..(EllIn - 1), d \in Dir : key.cws[i][d] \in Block

LEMMA ChildType ==
    ASSUME NEW prg \in PrgKeys, NEW st \in Block, NEW d \in Dir, NEW cw, cw[d] \in Block
    PROVE  Child(prg, cw, st, d) \in Block
<1>1. H(prg, d, st) \in Block
  BY EvalAssumption
<1>2. \A a, b \in Block : Xor(a, b) \in Block
  BY DEF Xor, Block
<1>3. {} \in Block
  BY DEF Block
<1> HIDE DEF Block
<1> QED BY <1>1, <1>2, <1>3 DEF Child

LEMMA PathBitType ==
    ASSUME NEW x \in Nat, NEW i \in 0..(EllIn - 1)
    PROVE  PathBit(x, i) \in Dir
<1>1. EllIn - 1 - i \in 0..31
  BY EvalAssumption
<1>2. PICK p \in Nat \ {0} : p = 2^(EllIn - 1 - i)
  BY <1>1, Power
<1>3. PICK q \in Nat : q = x \div p
  BY <1>2, Division
<1>4. q % 2 = 0 \/ q % 2 = 1
  BY <1>3
<1> QED BY <1>2, <1>3, <1>4 DEF PathBit, Dir

IsWalk(w, key, x) ==
    w = [i \in 0..EllIn |->
            IF i = 0 THEN key.stOrigin
            ELSE Child(key.prg, key.cws[i - 1], w[i - 1], PathBit(x, i - 1))]

LEMMA WalkFacts ==
    ASSUME NEW key, KeyOK(key), NEW x \in Nat
    PROVE  LET w == Walk(key, x)
           IN  /\ w \in [0..EllIn -> Block] /\ w[0] = key.stOrigin
               /\ \A i \in 0..(EllIn - 1) :
                      w[i + 1] = Child(key.prg, key.cws[i], w[i], PathBit(x, i))
<1> DEFINE w == Walk(key, x)
           g == [i \in 1..EllIn |-> [v \in Block |->
                    Child(key.prg, key.cws[i - 1], v, PathBit(x, i - 1))]]
<1>1. EllIn \in Nat /\ \A i \in 1..EllIn : i - 1 \in 0..(EllIn - 1) /\ i - 1 \in 0..EllIn
  BY EvalAssumption
<1>2. ASSUME NEW i \in 1..EllIn, NEW v \in Block
      PROVE  Child(key.prg, key.cws[i - 1], v, PathBit(x, i - 1)) \in Block
  <2>1. i - 1 \in 0..(EllIn - 1)
    BY <1>1
  <2>2. PathBit(x, i - 1) \in Dir
    BY <2>1, PathBitType
  <2>3. key.cws[i - 1][PathBit(x, i - 1)] \in Block /\ key.prg \in PrgKeys
    BY <2>1, <2>2 DEF KeyOK
  <2> QED BY <2>2, <2>3, ChildType
<1>3. g \in [1..EllIn -> [Block -> Block]]
  BY <1>2
<1>4. key.stOrigin \in Block
  BY DEF KeyOK
<1> HIDE DEF g
<1>5. PICK f \in [0..EllIn -> Block] : f[0] = key.stOrigin /\ \A i \in 1..EllIn : f[i] = g[i][f[i - 1]]
  <2>1. \E f \in [0..EllIn -> Block] : IsChain(f, EllIn, key.stOrigin, g)
    BY <1>1, <1>3, <1>4, Recursion
  <2> QED BY <2>1 DEF IsChain
<1>6. IsWalk(f, key, x)
  <2>1. ASSUME NEW i \in 0..EllIn
        PROVE  f[i] = IF i = 0 THEN key.stOrigin
                      ELSE Child(key.prg, key.cws[i - 1], f[i - 1], PathBit(x, i - 1))
    <3>1. CASE i # 0
      <4>1. i \in 1..EllIn /\ f[i - 1] \in Block
        BY <1>1, <1>5, <3>1
      <4> QED BY <1>5, <3>1, <4>1 DEF g
    <3> QED BY <1>5, <3>1
  <2> QED BY <1>5, <2>1 DEF IsWalk
<1>7. w = CHOOSE u : IsWalk(u, key, x)
  BY Zenon DEF Walk, IsWalk
<1> HIDE DEF w
<1>8. IsWalk(w, key, x)
  BY <1>6, <1>7
<1>9. w[0] = key.stOrigin
  BY <1>1, <1>8 DEF IsWalk
<1>10. ASSUME NEW i \in 0..(EllIn - 1)
       PROVE  w[i + 1] = Child(key.prg, key.cws[i], w[i], PathBit(x, i))
  <2>1. i + 1 \in 0..EllIn /\ i + 1 # 0 /\ (i + 1) - 1 = i
    BY <1>1
  <2> QED BY <1>8, <2>1 DEF IsWalk
<1>11. \A i \in 0..EllIn : i \in {j \in 0..EllIn : w[j] \in Block}
  <2> DEFINE S == {j \in 0..EllIn : w[j] \in Block}
  <2>1. 0 \in S
    BY <1>1, <1>4, <1>9
  <2>2. ASSUME NEW i \in 0..EllIn, i # EllIn, i \in S PROVE i + 1 \in S
    <3>1. i + 1 \in 1..EllIn /\ i \in 0..(EllIn - 1) /\ (i + 1) - 1 = i /\ i + 1 \in 0..EllIn
      BY <1>1, <2>2
    <3>2. w[i + 1] \in Block
      BY <1>2, <1>10, <2>2, <3>1
    <3> QED BY <3>1, <3>2
  <2> HIDE DEF S
  <2>3. \A i \in 0..EllIn : i \in S
    BY <1>1, <2>1, <2>2, UpTo
  <2> QED BY <2>3 DEF S
<1>12. w = [i \in 0..EllIn |-> w[i]]
  BY <1>8 DEF IsWalk
<1>13. w \in [0..EllIn -> Block]
  BY <1>11, <1>12
<1> QED BY <1>9, <1>10, <1>13 DEF w

-----------------------------------------------------------------------------
\* Walks that share the first bits meet the same nodes.

LEMMA HalfWidth ==
    ASSUME NEW i \in 0..(EllIn - 1)
    PROVE  /\ 2^(EllIn - 1 - i) \in Nat \ {0} /\ 2^(EllIn - i) = 2 * 2^(EllIn - 1 - i)
           /\ EllIn - (i + 1) = EllIn - 1 - i /\ i \in 0..EllIn /\ i + 1 \in 0..EllIn
<1>1. EllIn \in 0..31 /\ EllIn - i \in 0..31 /\ EllIn - i # 0 /\ (EllIn - i) - 1 = EllIn - 1 - i
  BY EvalAssumption
<1>2. 2^((EllIn - i) - 1) \in Nat \ {0} /\ 2^(EllIn - i) = 2 * 2^((EllIn - i) - 1)
  BY <1>1, Power
<1>3. EllIn - (i + 1) = EllIn - 1 - i /\ i \in 0..EllIn /\ i + 1 \in 0..EllIn
  BY <1>1
<1> QED BY <1>1, <1>2, <1>3

\* The number of the node at depth i on the path to x.
At(x, i) == x \div 2^(EllIn - i)

LEMMA AtNext ==
    ASSUME NEW x \in Nat, NEW i \in 0..(EllIn - 1)
    PROVE  /\ At(x, i) \in Nat /\ At(x, i + 1) \in Nat
           /\ At(x, i) = At(x, i + 1) \div 2 /\ PathBit(x, i) = At(x, i + 1) % 2
           /\ At(x, i + 1) = 2 * At(x, i) + PathBit(x, i) /\ PathBit(x, i) \in Dir
<1>1. PICK p \in Nat \ {0} : p = 2^(EllIn - 1 - i) /\ 2^(EllIn - i) = 2 * p /\ EllIn - (i + 1) = EllIn - 1 - i
  BY HalfWidth
<1>2. PICK q \in Nat : q = x \div p
  BY Division
<1>3. x \div (2 * p) = q \div 2
  BY <1>2, DivTwo
<1>4. At(x, i + 1) = q /\ At(x, i) = q \div 2 /\ PathBit(x, i) = q % 2
  BY <1>1, <1>2, <1>3 DEF At, PathBit
<1>5. q \div 2 \in Nat /\ q % 2 \in 0..1 /\ q = 2 * (q \div 2) + (q % 2)
  BY <1>2, Division
<1> QED BY <1>2, <1>4, <1>5 DEF Dir

LEMMA SamePath ==
    ASSUME NEW key, KeyOK(key), NEW x \in Nat, NEW y \in Nat, NEW l \in 0..EllIn, At(x, l) = At(y, l)
    PROVE  Walk(key, x)[l] = Walk(key, y)[l]
<1> DEFINE u == Walk(key, x)
           v == Walk(key, y)
           S == {i \in 0..EllIn : At(x, i) = At(y, i) => u[i] = v[i]}
<1>1. EllIn \in Nat
  BY EvalAssumption
<1>2. /\ u[0] = key.stOrigin /\ v[0] = key.stOrigin
      /\ \A i \in 0..(EllIn - 1) :
            /\ u[i + 1] = Child(key.prg, key.cws[i], u[i], PathBit(x, i))
            /\ v[i + 1] = Child(key.prg, key.cws[i], v[i], PathBit(y, i))
  BY WalkFacts
<1> HIDE DEF u, v
<1>3. 0 \in S
  BY <1>1, <1>2
<1>4. ASSUME NEW i \in 0..EllIn, i # EllIn, i \in S PROVE i + 1 \in S
  <2>1. i \in 0..(EllIn - 1) /\ i + 1 \in 0..EllIn
    BY <1>1, <1>4
  <2>2. ASSUME At(x, i + 1) = At(y, i + 1) PROVE u[i + 1] = v[i + 1]
    <3>1. /\ At(x, i) = At(x, i + 1) \div 2 /\ PathBit(x, i) = At(x, i + 1) % 2
          /\ At(y, i) = At(y, i + 1) \div 2 /\ PathBit(y, i) = At(y, i + 1) % 2
      BY <2>1, AtNext
    <3>2. At(x, i) = At(y, i) /\ PathBit(x, i) = PathBit(y, i)
      BY <2>2, <3>1
    <3>3. u[i] = v[i]
      BY <1>4, <3>2
    <3> QED BY <1>2, <2>1, <3>2, <3>3
  <2> QED BY <2>1, <2>2
<1> HIDE DEF S
<1>5. \A i \in 0..EllIn : i \in S
  BY <1>1, <1>3, <1>4, UpTo
<1> QED BY <1>5 DEF S, u, v

\* The block of a node of the tree.
NodeSt(key, id, layer) == Walk(key, NodeStart(id, layer))[layer]

LEMMA NodeAt ==
    ASSUME NEW id \in Nat, NEW layer \in 0..EllIn
    PROVE  At(NodeStart(id, layer), layer) = id
<1>1. EllIn - layer \in 0..31
  BY EvalAssumption
<1>2. PICK p \in Nat \ {0} : p = 2^(EllIn - layer)
  BY <1>1, Power
<1>3. id * p + 0 \in Nat /\ (id * p + 0) \div p = id
  BY MultipleDiv
<1>4. id * p + 0 = id * p
  BY Z3
<1> QED BY <1>2, <1>3, <1>4 DEF At, NodeStart

LEMMA NodeRoot ==
    ASSUME NEW key, KeyOK(key)
    PROVE  NodeSt(key, 0, 0) = key.stOrigin
<1>0. 0 \in 0..EllIn
  BY EvalAssumption
<1>1. NodeStart(0, 0) \in Nat
  BY <1>0, NodeFacts
<1> QED BY <1>1, WalkFacts DEF NodeSt

LEMMA NodeType ==
    ASSUME NEW key, KeyOK(key), NEW id \in Nat, NEW layer \in 0..EllIn
    PROVE  NodeSt(key, id, layer) \in Block
<1>1. NodeStart(id, layer) \in Nat
  BY NodeFacts
<1> QED BY <1>1, WalkFacts DEF NodeSt

LEMMA NodeChild ==
    ASSUME NEW key, KeyOK(key), NEW id \in Nat, NEW layer \in 0..(EllIn - 1), NEW d \in Dir
    PROVE  NodeSt(key, 2 * id + d, layer + 1) = Child(key.prg, key.cws[layer], NodeSt(key, id, layer), d)
<1>1. layer \in 0..EllIn /\ layer + 1 \in 0..EllIn
  BY HalfWidth
<1>2. 2 * id + d \in Nat /\ (2 * id + d) \div 2 = id /\ (2 * id + d) % 2 = d
  BY DEF Dir
<1>3. PICK x \in Nat, y \in Nat : x = NodeStart(2 * id + d, layer + 1) /\ y = NodeStart(id, layer)
  BY <1>1, <1>2, NodeFacts
<1>4. At(x, layer + 1) = 2 * id + d /\ At(y, layer) = id
  BY <1>1, <1>2, <1>3, NodeAt
<1>5. At(x, layer) = id /\ PathBit(x, layer) = d
  BY <1>2, <1>4, AtNext
<1>6. Walk(key, x)[layer] = Walk(key, y)[layer]
  BY <1>1, <1>4, <1>5, SamePath
<1>7. Walk(key, x)[layer + 1] = Child(key.prg, key.cws[layer], Walk(key, x)[layer], PathBit(x, layer))
  BY WalkFacts
<1> QED BY <1>3, <1>5, <1>6, <1>7 DEF NodeSt

LEMMA NodeLeaf ==
    ASSUME NEW key, NEW x \in Nat
    PROVE  NodeSt(key, x, EllIn) = LeafOf(key, x)
<1>0. EllIn - EllIn = 0
  BY EvalAssumption
<1>1. 2^(EllIn - EllIn) = 1
  <2>1. 2^0 = 1
    OBVIOUS
  <2> QED BY <1>0, <2>1, Zenon
<1>2. NodeStart(x, EllIn) = x
  BY <1>1 DEF NodeStart
<1> QED BY <1>2 DEF NodeSt, LeafOf

-----------------------------------------------------------------------------
\* The leaves below a node.

IsBelow(f, key, node) ==
    f = [b \in 0..(EllIn - node.layer) |->
            IF b = 0 THEN [j \in {0} |-> node.st]
            ELSE [j \in 0..(2^b - 1) |->
                     Child(key.prg, key.cws[node.layer + b - 1], f[b - 1][j \div 2], j % 2)]]

\* The nodes b levels below a node, from left to right.
Level(key, id, layer, b) == [j \in 0..(2^b - 1) |-> NodeSt(key, id * 2^b + j, layer + b)]

LEMMA LevelRoot ==
    ASSUME NEW key, NEW id \in Nat, NEW layer \in 0..EllIn
    PROVE  Level(key, id, layer, 0) = [j \in {0} |-> NodeSt(key, id, layer)]
<1>1. 2^0 = 1
  OBVIOUS
<1>2. id * 1 + 0 = id /\ layer + 0 = layer /\ 0..(1 - 1) = {0}
  BY EvalAssumption
<1> QED BY <1>1, <1>2 DEF Level

LEMMA LevelNext ==
    ASSUME NEW key, KeyOK(key), NEW id \in Nat, NEW layer \in 0..EllIn, NEW b \in 1..(EllIn - layer)
    PROVE  Level(key, id, layer, b) =
               [j \in 0..(2^b - 1) |-> Child(key.prg, key.cws[layer + b - 1],
                                             Level(key, id, layer, b - 1)[j \div 2], j % 2)]
<1>1. EllIn \in 0..31 /\ b \in 0..31 /\ b # 0
  BY EvalAssumption
<1>2. PICK p \in Nat \ {0} : p = 2^(b - 1) /\ 2^b = 2 * p
  BY <1>1, Power
<1>3. ASSUME NEW j \in 0..(2 * p - 1)
      PROVE  NodeSt(key, id * (2 * p) + j, layer + b) =
                 Child(key.prg, key.cws[layer + b - 1], Level(key, id, layer, b - 1)[j \div 2], j % 2)
  <2>1. PICK h \in Nat, d \in Dir : h = j \div 2 /\ d = j % 2 /\ j = 2 * h + d /\ h < p
    <3>1. j \in Nat /\ j < 2 * p
      BY <1>2
    <3>2. j \div 2 \in Nat /\ j % 2 \in 0..1 /\ j = 2 * (j \div 2) + (j % 2)
      BY <3>1, Division
    <3> QED BY <1>2, <3>1, <3>2 DEF Dir
  <2>2. id * (2 * p) = 2 * (id * p) /\ id * p \in Nat
    <3>1. PICK q \in Nat : q = p
      BY <1>2
    <3>2. id * (2 * q) = 2 * (id * q) /\ id * q \in Nat
      BY <3>1, Z3
    <3> QED BY <3>1, <3>2
  <2>3. id * (2 * p) + j = 2 * (id * p + h) + d /\ id * p + h \in Nat
    BY <2>1, <2>2
  <2>4. layer + b - 1 \in 0..(EllIn - 1) /\ (layer + b - 1) + 1 = layer + b /\ layer + (b - 1) = layer + b - 1
    BY <1>1
  <2>5. NodeSt(key, 2 * (id * p + h) + d, layer + b) =
            Child(key.prg, key.cws[layer + b - 1], NodeSt(key, id * p + h, layer + b - 1), d)
    BY <2>1, <2>3, <2>4, NodeChild
  <2>6. h \in 0..(p - 1)
    BY <1>2, <2>1
  <2>7. Level(key, id, layer, b - 1)[h] = NodeSt(key, id * p + h, layer + b - 1)
    BY <1>2, <2>4, <2>6 DEF Level
  <2> QED BY <2>1, <2>3, <2>5, <2>7
<1> QED BY <1>2, <1>3 DEF Level

LEMMA BelowFacts ==
    ASSUME NEW key, KeyOK(key), NEW node, node.id \in Nat, node.layer \in 0..EllIn,
           node.st = NodeSt(key, node.id, node.layer)
    PROVE  LeavesBelow(key, node) = Level(key, node.id, node.layer, EllIn - node.layer)
<1> DEFINE id == node.id
           layer == node.layer
           n == EllIn - layer
           f == [b \in 0..n |-> Level(key, id, layer, b)]
<1>1. n \in Nat /\ id \in Nat /\ layer \in 0..EllIn
  BY EvalAssumption
<1>2. Level(key, id, layer, 0) = [j \in {0} |-> node.st]
  BY <1>1, LevelRoot
<1>3. ASSUME NEW b \in 1..n
      PROVE  Level(key, id, layer, b) =
                 [j \in 0..(2^b - 1) |-> Child(key.prg, key.cws[layer + b - 1],
                                               Level(key, id, layer, b - 1)[j \div 2], j % 2)]
  BY <1>1, LevelNext
<1> HIDE DEF id, layer
<1>4. \A b \in 0..n : b = 0 \/ (b \in 1..n /\ b - 1 \in 0..n)
  BY <1>1
<1> DEFINE rhs(g, b) == IF b = 0 THEN [j \in {0} |-> node.st]
                        ELSE [j \in 0..(2^b - 1) |->
                                 Child(key.prg, key.cws[layer + b - 1], g[b - 1][j \div 2], j % 2)]
<1>5. \A b \in 0..n : f[b] = rhs(f, b)
  <2> SUFFICES ASSUME NEW b \in 0..n PROVE f[b] = rhs(f, b)
    OBVIOUS
  <2>1. CASE b = 0
    BY <1>2, <2>1
  <2>2. CASE b # 0
    <3>1. b \in 1..n /\ b - 1 \in 0..n
      BY <1>4, <2>2
    <3>2. f[b] = Level(key, id, layer, b) /\ f[b - 1] = Level(key, id, layer, b - 1)
      BY <3>1
    <3> HIDE DEF f, n
    <3> QED BY <1>3, <2>2, <3>1, <3>2
  <2> QED BY <2>1, <2>2
<1>6. f = [b \in 0..n |-> f[b]]
  OBVIOUS
<1> HIDE DEF f, n
<1>7. f = [b \in 0..n |-> rhs(f, b)]
  <2> HIDE DEF rhs
  <2> QED BY <1>5, <1>6
<1>8. IsBelow(f, key, node)
  BY <1>7 DEF IsBelow, n, layer
<1>9. LeavesBelow(key, node) = (CHOOSE g : IsBelow(g, key, node))[EllIn - node.layer]
  BY Zenon DEF LeavesBelow, IsBelow
<1>10. PICK g : g = CHOOSE h : IsBelow(h, key, node)
  OBVIOUS
<1>11. IsBelow(g, key, node)
  BY <1>8, <1>10
<1>12. g = [b \in 0..n |-> rhs(g, b)]
  BY <1>11 DEF IsBelow, n, layer
<1> DEFINE S == {b \in 0..n : g[b] = f[b]}
<1>13. \A b \in 0..n : b \in S
  <2>1. 0 \in S
    <3>1. 0 \in 0..n /\ rhs(g, 0) = rhs(f, 0)
      BY <1>1
    <3>2. g[0] = rhs(g, 0) /\ f[0] = rhs(f, 0)
      <4> HIDE DEF rhs
      <4> QED BY <1>5, <1>12, <3>1
    <3> QED BY <3>1, <3>2
  <2>2. ASSUME NEW b \in 0..n, b # n, b \in S PROVE b + 1 \in S
    <3>1. b + 1 \in 0..n /\ b + 1 # 0 /\ (b + 1) - 1 = b /\ g[b] = f[b]
      BY <1>1, <2>2
    <3>2. rhs(g, b + 1) = rhs(f, b + 1)
      BY <3>1
    <3>3. g[b + 1] = rhs(g, b + 1) /\ f[b + 1] = rhs(f, b + 1)
      <4> HIDE DEF rhs
      <4> QED BY <1>5, <1>12, <3>1
    <3> QED BY <3>1, <3>2, <3>3
  <2> HIDE DEF S
  <2> QED BY <1>1, <2>1, <2>2, UpTo
<1>14. g[n] = f[n] /\ f[n] = Level(key, id, layer, n)
  BY <1>1, <1>13 DEF f
<1> QED BY <1>9, <1>10, <1>14 DEF n, id, layer

\* In particular, the leaves in the order of their indices.
LEMMA LeavesFacts ==
    ASSUME NEW key, KeyOK(key), NEW node, node.id \in Nat, node.layer \in 0..EllIn,
           node.st = NodeSt(key, node.id, node.layer),
           NEW x \in NodeStart(node.id, node.layer)..(NodeEnd(node.id, node.layer) - 1)
    PROVE  LeavesBelow(key, node)[x - NodeStart(node.id, node.layer)] = LeafOf(key, x)
<1>1. PICK p \in Nat \ {0} : p = 2^(EllIn - node.layer)
  <2>1. EllIn - node.layer \in 0..31
    BY EvalAssumption
  <2> QED BY <2>1, Power
<1>2. PICK s \in Nat : s = NodeStart(node.id, node.layer) /\ s = node.id * p /\ NodeEnd(node.id, node.layer) = s + p
  BY <1>1, NodeFacts DEF NodeStart
<1>3. x \in Nat /\ x - s \in 0..(p - 1) /\ s + (x - s) = x
  BY <1>1, <1>2
<1>4. LeavesBelow(key, node)[x - s] = NodeSt(key, node.id * p + (x - s), node.layer + (EllIn - node.layer))
  BY <1>1, <1>3, BelowFacts, SMTT(30) DEF Level
<1>5. node.layer + (EllIn - node.layer) = EllIn
  BY EvalAssumption
<1> QED BY <1>2, <1>3, <1>4, <1>5, NodeLeaf

-----------------------------------------------------------------------------
\* The tasks: the nodes of one depth.

\* What the vector of tasks holds after d levels, in the first 2^d of its T places.
Row(key, T, d) == [j \in 0..(T - 1) |-> IF j < 2^d THEN NodeSt(key, j, d) ELSE {}]

IsSplit(f, key, d, t) ==
    f = [n \in 0..2^d |->
            IF n = 0 THEN t
            ELSE [f[n - 1] EXCEPT ![2 * (2^d - n)] = Child(key.prg, key.cws[d], f[n - 1][2^d - n], 0),
                                  ![2 * (2^d - n) + 1] = Child(key.prg, key.cws[d], f[n - 1][2^d - n], 1)]]

LEMMA SplitFacts ==
    ASSUME NEW key, KeyOK(key), NEW d \in 0..(EllIn - 1), NEW T \in Nat, 2^(d + 1) <= T
    PROVE  SplitLevel(key, d, Row(key, T, d)) = Row(key, T, d + 1)
<1> DEFINE t == Row(key, T, d)
           row(P, n) == [j \in 0..(T - 1) |-> IF 2 * (P - n) <= j /\ j < 2 * P
                                              THEN NodeSt(key, j, d + 1) ELSE t[j]]
           next(P, v, n) == [v EXCEPT ![2 * (P - n)] = Child(key.prg, key.cws[d], v[P - n], 0),
                                      ![2 * (P - n) + 1] = Child(key.prg, key.cws[d], v[P - n], 1)]
<1>1. PICK P \in Nat \ {0} : P = 2^d /\ 2^(d + 1) = 2 * P
  <2>1. d \in 0..30
    BY EvalAssumption
  <2> QED BY <2>1, PowerStep
<1> DEFINE f == [n \in 0..P |-> row(P, n)]
           rhs(g, n) == IF n = 0 THEN t ELSE next(P, g[n - 1], n)
<1>2. t = [j \in 0..(T - 1) |-> IF j < P THEN NodeSt(key, j, d) ELSE {}]
  BY <1>1 DEF Row
<1>3. row(P, 0) = t
  <2>1. \A j \in 0..(T - 1) : ~(2 * (P - 0) <= j /\ j < 2 * P)
    BY <1>1
  <2>2. t = [j \in 0..(T - 1) |-> t[j]]
    BY <1>2
  <2> HIDE DEF t
  <2> QED BY <2>1, <2>2
<1>4. ASSUME NEW n \in 1..P
      PROVE  row(P, n) = next(P, row(P, n - 1), n)
  <2>1. PICK i \in 0..(P - 1) : i = P - n /\ P - (n - 1) = i + 1
    BY <1>1
  <2>2. 2 * i \in 0..(T - 1) /\ 2 * i + 1 \in 0..(T - 1) /\ i \in 0..(T - 1) /\ i \in Nat /\ 2 * i + 1 < 2 * P
    BY <1>1, <2>1
  <2>3. row(P, n - 1) = [j \in 0..(T - 1) |-> IF 2 * (i + 1) <= j /\ j < 2 * P
                                              THEN NodeSt(key, j, d + 1) ELSE t[j]]
    BY <2>1
  <2>4. row(P, n) = [j \in 0..(T - 1) |-> IF 2 * i <= j /\ j < 2 * P THEN NodeSt(key, j, d + 1) ELSE t[j]]
    BY <2>1
  <2>5. t[i] = NodeSt(key, i, d)
    BY <1>2, <2>1, <2>2
  <2> HIDE DEF t
  <2>6. row(P, n - 1)[i] = NodeSt(key, i, d)
    <3>1. ~(2 * (i + 1) <= i)
      BY <2>2
    <3> HIDE DEF row
    <3> QED BY <2>2, <2>3, <2>5, <3>1
  <2>7. /\ Child(key.prg, key.cws[d], NodeSt(key, i, d), 0) = NodeSt(key, 2 * i, d + 1)
        /\ Child(key.prg, key.cws[d], NodeSt(key, i, d), 1) = NodeSt(key, 2 * i + 1, d + 1)
    <3>1. 0 \in Dir /\ 1 \in Dir /\ 2 * i + 0 = 2 * i
      BY <2>2 DEF Dir
    <3> QED BY <2>2, <3>1, NodeChild
  <2>8. next(P, row(P, n - 1), n) =
            [row(P, n - 1) EXCEPT ![2 * i] = NodeSt(key, 2 * i, d + 1),
                                  ![2 * i + 1] = NodeSt(key, 2 * i + 1, d + 1)]
    <3> HIDE DEF row
    <3> QED BY <2>1, <2>6, <2>7
  <2>9. row(P, n) = [row(P, n - 1) EXCEPT ![2 * i] = NodeSt(key, 2 * i, d + 1),
                                          ![2 * i + 1] = NodeSt(key, 2 * i + 1, d + 1)]
    <3>1. PICK v : v = row(P, n - 1)
      OBVIOUS
    <3>2. DOMAIN v = 0..(T - 1)
      BY <3>1
    <3> DEFINE w == [v EXCEPT ![2 * i] = NodeSt(key, 2 * i, d + 1),
                              ![2 * i + 1] = NodeSt(key, 2 * i + 1, d + 1)]
    <3>3. DOMAIN w = 0..(T - 1) /\ w = [j \in 0..(T - 1) |-> w[j]]
      BY <3>2
    <3>4. ASSUME NEW j \in 0..(T - 1)
          PROVE  w[j] = IF 2 * i <= j /\ j < 2 * P THEN NodeSt(key, j, d + 1) ELSE t[j]
      <4>1. CASE j = 2 * i
        BY <2>2, <3>2, <4>1
      <4>2. CASE j = 2 * i + 1
        BY <2>2, <3>2, <4>2
      <4>3. CASE j # 2 * i /\ j # 2 * i + 1
        <5>1. w[j] = v[j]
          BY <3>2, <4>3
        <5>2. 2 * i <= j <=> 2 * (i + 1) <= j
          BY <2>2, <4>3
        <5>3. v[j] = IF 2 * (i + 1) <= j /\ j < 2 * P THEN NodeSt(key, j, d + 1) ELSE t[j]
          <6> HIDE DEF row
          <6> QED BY <2>3, <3>1
        <5> QED BY <5>1, <5>2, <5>3
      <4> QED BY <4>1, <4>2, <4>3
    <3> HIDE DEF w
    <3>5. w = [j \in 0..(T - 1) |-> IF 2 * i <= j /\ j < 2 * P THEN NodeSt(key, j, d + 1) ELSE t[j]]
      BY <3>3, <3>4
    <3> HIDE DEF row
    <3> QED BY <2>4, <3>1, <3>5 DEF w
  <2> HIDE DEF row, next
  <2> QED BY <2>8, <2>9
<1>5. \A n \in 0..P : f[n] = rhs(f, n)
  <2> SUFFICES ASSUME NEW n \in 0..P PROVE f[n] = rhs(f, n)
    OBVIOUS
  <2>1. CASE n = 0
    <3> HIDE DEF row, t
    <3> QED BY <1>3, <2>1
  <2>2. CASE n # 0
    <3>1. n \in 1..P /\ n - 1 \in 0..P
      BY <1>1, <2>2
    <3> HIDE DEF row, t, next
    <3>2. f[n] = row(P, n) /\ f[n - 1] = row(P, n - 1)
      BY <3>1
    <3> HIDE DEF f
    <3> QED BY <1>4, <2>2, <3>1, <3>2
  <2> QED BY <2>1, <2>2
<1>6. f = [n \in 0..P |-> f[n]] /\ f[P] = row(P, P)
  <2> HIDE DEF row
  <2> QED BY <1>1
<1> HIDE DEF row, f
<1>7. f = [n \in 0..P |-> rhs(f, n)]
  <2> HIDE DEF rhs
  <2> QED BY <1>5, <1>6
<1>8. \A g : IsSplit(g, key, d, t) <=> g = [n \in 0..P |-> rhs(g, n)]
  <2> HIDE DEF t
  <2> QED BY <1>1 DEF IsSplit
<1>9. SplitLevel(key, d, t) = (CHOOSE g : IsSplit(g, key, d, t))[P]
  <2> HIDE DEF t
  <2>1. SplitLevel(key, d, t) = (CHOOSE g : IsSplit(g, key, d, t))[2^d]
    BY Zenon DEF SplitLevel, IsSplit
  <2> QED BY <1>1, <2>1
<1>10. PICK g : g = CHOOSE h : IsSplit(h, key, d, t)
  OBVIOUS
<1>11. g = [n \in 0..P |-> rhs(g, n)]
  <2>1. IsSplit(f, key, d, t)
    BY <1>7, <1>8
  <2>2. IsSplit(g, key, d, t)
    BY <1>10, <2>1
  <2> QED BY <1>8, <2>2
<1> HIDE DEF next
<1> DEFINE S == {n \in 0..P : g[n] = f[n]}
<1>12. \A n \in 0..P : n \in S
  <2>1. 0 \in S
    <3>1. 0 \in 0..P /\ rhs(g, 0) = rhs(f, 0)
      BY <1>1
    <3>2. g[0] = rhs(g, 0) /\ f[0] = rhs(f, 0)
      <4> HIDE DEF rhs
      <4> QED BY <1>5, <1>11, <3>1
    <3> QED BY <3>1, <3>2
  <2>2. ASSUME NEW n \in 0..P, n # P, n \in S PROVE n + 1 \in S
    <3>1. n + 1 \in 0..P /\ n + 1 # 0 /\ (n + 1) - 1 = n /\ g[n] = f[n]
      BY <1>1, <2>2
    <3>2. rhs(g, n + 1) = rhs(f, n + 1)
      BY <3>1
    <3>3. g[n + 1] = rhs(g, n + 1) /\ f[n + 1] = rhs(f, n + 1)
      <4> HIDE DEF rhs
      <4> QED BY <1>5, <1>11, <3>1
    <3> QED BY <3>1, <3>2, <3>3
  <2> HIDE DEF S
  <2> QED BY <1>1, <2>1, <2>2, UpTo
<1>13. SplitLevel(key, d, t) = row(P, P)
  <2>1. P \in S
    BY <1>1, <1>12
  <2> QED BY <1>6, <1>9, <1>10, <2>1
<1>14. row(P, P) = Row(key, T, d + 1)
  <2>1. ASSUME NEW j \in 0..(T - 1)
        PROVE  (IF 2 * (P - P) <= j /\ j < 2 * P THEN NodeSt(key, j, d + 1) ELSE t[j]) =
               (IF j < 2 * P THEN NodeSt(key, j, d + 1) ELSE {})
    <3>1. 2 * (P - P) <= j
      BY <1>1
    <3>2. ~(j < 2 * P) => t[j] = {}
      BY <1>1, <1>2
    <3> HIDE DEF t
    <3> QED BY <3>1, <3>2
  <2> HIDE DEF t
  <2> QED BY <1>1, <2>1 DEF row, Row
<1> QED BY <1>13, <1>14

IsLevels(f, key, S, T) ==
    f = [d \in 0..S |->
            IF d = 0 THEN [j \in 0..(T - 1) |-> IF j = 0 THEN key.stOrigin ELSE {}]
            ELSE SplitLevel(key, d - 1, f[d - 1])]

LEMMA TasksFacts ==
    ASSUME NEW key, KeyOK(key), NEW cores \in CoreCounts
    PROVE  \A j \in 0..(TotalTasks(cores) - 1) :
               Tasks(key, cores)[j] = NodeSt(key, j, SplitCoff(cores))
<1> DEFINE S == SplitCoff(cores)
           T == TotalTasks(cores)
           f == [d \in 0..S |-> Row(key, T, d)]
           first == [j \in 0..(T - 1) |-> IF j = 0 THEN key.stOrigin ELSE {}]
           rhs(g, d) == IF d = 0 THEN first ELSE SplitLevel(key, d - 1, g[d - 1])
<1>1. S \in 0..EllIn /\ T \in Nat \ {0} /\ T = 2^S /\ S \in Nat
  BY CoresFacts DEF TotalTasks
<1> HIDE DEF S, T
<1>2. Row(key, T, 0) = first
  <2>1. 2^0 = 1
    OBVIOUS
  <2>2. \A j \in 0..(T - 1) : j < 1 <=> j = 0
    BY <1>1
  <2>3. NodeSt(key, 0, 0) = key.stOrigin
    BY NodeRoot
  <2>4. \A j \in 0..(T - 1) : (IF j < 1 THEN NodeSt(key, j, 0) ELSE {}) = (IF j = 0 THEN key.stOrigin ELSE {})
    BY <2>2, <2>3
  <2> QED BY <2>1, <2>4 DEF Row
<1>3. ASSUME NEW d \in 1..S
      PROVE  Row(key, T, d) = SplitLevel(key, d - 1, Row(key, T, d - 1))
  <2>1. d - 1 \in 0..(EllIn - 1) /\ (d - 1) + 1 = d /\ d \in 0..S /\ S \in 0..31
    BY <1>1, EvalAssumption
  <2>2. 2^d <= T
    <3>1. PICK p \in Nat, q \in Nat \ {0} : p = 2^d /\ q = 2^(S - d)
      <4>1. d \in 0..31 /\ S - d \in 0..31
        BY <2>1
      <4> QED BY <4>1, Power
    <3>2. p * q = T
      BY <1>1, <2>1, <3>1, PowerSplit
    <3>3. p * 1 <= p * q /\ p * 1 = p
      BY <3>1, TimesMonotonic
    <3> QED BY <3>1, <3>2, <3>3
  <2> QED BY <1>1, <2>1, <2>2, SplitFacts
<1>4. \A d \in 0..S : f[d] = rhs(f, d)
  <2> SUFFICES ASSUME NEW d \in 0..S PROVE f[d] = rhs(f, d)
    OBVIOUS
  <2>1. CASE d = 0
    <3> HIDE DEF first
    <3> QED BY <1>2, <2>1
  <2>2. CASE d # 0
    <3>1. d \in 1..S /\ d - 1 \in 0..S
      BY <1>1, <2>2
    <3>2. f[d] = Row(key, T, d) /\ f[d - 1] = Row(key, T, d - 1)
      BY <3>1
    <3> HIDE DEF f
    <3> QED BY <1>3, <2>2, <3>1, <3>2
  <2> QED BY <2>1, <2>2
<1>5. f = [d \in 0..S |-> f[d]] /\ f[S] = Row(key, T, S)
  BY <1>1
<1> HIDE DEF f
<1>6. f = [d \in 0..S |-> rhs(f, d)]
  <2> HIDE DEF rhs
  <2> QED BY <1>4, <1>5
<1>7. IsLevels(f, key, S, T)
  BY <1>6 DEF IsLevels
<1>8. Tasks(key, cores) = (CHOOSE g : IsLevels(g, key, S, T))[S]
  BY Zenon DEF Tasks, IsLevels, S, T
<1>9. PICK g : g = CHOOSE h : IsLevels(h, key, S, T)
  OBVIOUS
<1>10. g = [d \in 0..S |-> rhs(g, d)]
  <2>1. IsLevels(g, key, S, T)
    BY <1>7, <1>9
  <2> QED BY <2>1 DEF IsLevels
<1> DEFINE U == {d \in 0..S : g[d] = f[d]}
<1>11. \A d \in 0..S : d \in U
  <2>1. 0 \in U
    <3>1. 0 \in 0..S /\ rhs(g, 0) = rhs(f, 0)
      BY <1>1
    <3>2. g[0] = rhs(g, 0) /\ f[0] = rhs(f, 0)
      <4> HIDE DEF rhs
      <4> QED BY <1>4, <1>10, <3>1
    <3> QED BY <3>1, <3>2
  <2>2. ASSUME NEW d \in 0..S, d # S, d \in U PROVE d + 1 \in U
    <3>1. d + 1 \in 0..S /\ d + 1 # 0 /\ (d + 1) - 1 = d /\ g[d] = f[d]
      BY <1>1, <2>2
    <3>2. rhs(g, d + 1) = rhs(f, d + 1)
      BY <3>1
    <3>3. g[d + 1] = rhs(g, d + 1) /\ f[d + 1] = rhs(f, d + 1)
      <4> HIDE DEF rhs
      <4> QED BY <1>4, <1>10, <3>1
    <3> QED BY <3>1, <3>2, <3>3
  <2> HIDE DEF U
  <2> QED BY <1>1, <2>1, <2>2, UpTo
<1>12. Tasks(key, cores) = Row(key, T, S)
  <2>1. S \in U
    BY <1>1, <1>11
  <2> QED BY <1>5, <1>8, <1>9, <2>1
<1>13. ASSUME NEW j \in 0..(T - 1) PROVE Row(key, T, S)[j] = NodeSt(key, j, S)
  <2>1. j < 2^S
    BY <1>1
  <2> QED BY <2>1 DEF Row
<1> QED BY <1>12, <1>13 DEF T, S

-----------------------------------------------------------------------------
\* The keys: off the path to the point both trees agree, on it the control bits differ.

\* The children that the two functions of the pseudo-random generator make of st.
Prg(prg, st, p, d) == H(prg, d, st[p])

LEMMA XorFacts ==
    /\ \A a, b : Xor(a, Xor(b, a)) = b /\ Xor(a, Xor(a, b)) = b /\ Xor(a, {}) = a
    /\ \A a, b : getMsb(Xor(a, b)) <=> ~(getMsb(a) <=> getMsb(b))
<1>1. \A a, b : Xor(a, Xor(b, a)) = b
  BY DEF Xor
<1>2. \A a, b : Xor(a, Xor(a, b)) = b
  BY DEF Xor
<1>3. \A a : Xor(a, {}) = a
  BY DEF Xor
<1>4. \A a, b : getMsb(Xor(a, b)) <=> ~(getMsb(a) <=> getMsb(b))
  BY DEF Xor, getMsb
<1> QED BY <1>1, <1>2, <1>3, <1>4

LEMMA CorrectionFacts ==
    ASSUME NEW prg \in PrgKeys, NEW st \in [Pid -> Block], NEW ai \in Dir
    PROVE  LET cw == Correction(prg, st, ai)
           IN  /\ \A d \in Dir : cw[d] \in Block
               /\ cw[1 - ai] = Xor(Prg(prg, st, 0, 1 - ai), Prg(prg, st, 1, 1 - ai))
               /\ getMsb(cw[ai]) <=> (getMsb(Prg(prg, st, 0, ai)) <=> getMsb(Prg(prg, st, 1, ai)))
<1> DEFINE cw == Correction(prg, st, ai)
           x(d) == Xor(Prg(prg, st, 0, d), Prg(prg, st, 1, d))
           common == x(1 - ai) \ {Msb}
<1>1. 1 - ai \in Dir /\ 1 - ai # ai /\ 0 \in Pid /\ 1 \in Pid
  BY DEF Dir, Pid
<1>2. \A d \in Dir : x(d) \in Block
  <2>1. \A d \in Dir, p \in Pid : Prg(prg, st, p, d) \in Block
    BY EvalAssumption DEF Prg
  <2> QED BY <1>1, <2>1 DEF Xor, Block
<1>3. Msb \in 0..Msb
  BY EvalAssumption
<1>4. cw = [d \in Dir |-> IF (d = ai) # getMsb(x(d)) THEN common \cup {Msb} ELSE common]
  BY Zenon DEF Correction, Prg
<1> HIDE DEF cw, x
<1>5. ASSUME NEW d \in Dir PROVE cw[d] \in Block
  <2>1. cw[d] = common \cup {Msb} \/ cw[d] = common
    BY <1>4
  <2>2. common \in Block /\ common \cup {Msb} \in Block
    BY <1>1, <1>2, <1>3 DEF Block
  <2> QED BY <2>1, <2>2
<1>6. cw[1 - ai] = x(1 - ai)
  <2>1. cw[1 - ai] = IF getMsb(x(1 - ai)) THEN common \cup {Msb} ELSE common
    <3>1. cw[1 - ai] = IF (1 - ai = ai) # getMsb(x(1 - ai)) THEN common \cup {Msb} ELSE common
      BY <1>1, <1>4
    <3>2. (1 - ai = ai) = FALSE
      BY <1>1
    <3>3. getMsb(x(1 - ai)) \in BOOLEAN
      BY DEF getMsb
    <3> QED BY <3>1, <3>2, <3>3
  <2> QED BY <2>1 DEF getMsb
<1>7. getMsb(cw[ai]) <=> ~getMsb(x(ai))
  <2>1. cw[ai] = IF getMsb(x(ai)) THEN common ELSE common \cup {Msb}
    <3>1. cw[ai] = IF (ai = ai) # getMsb(x(ai)) THEN common \cup {Msb} ELSE common
      BY <1>4
    <3>2. (ai = ai) = TRUE
      OBVIOUS
    <3>3. getMsb(x(ai)) \in BOOLEAN
      BY DEF getMsb
    <3> QED BY <3>1, <3>2, <3>3
  <2> QED BY <2>1 DEF getMsb
<1>8. getMsb(x(ai)) <=> ~(getMsb(Prg(prg, st, 0, ai)) <=> getMsb(Prg(prg, st, 1, ai)))
  BY XorFacts DEF x
<1> QED BY <1>5, <1>6, <1>7, <1>8 DEF cw, x

\* One level of gen.
LEMMA LevelOfGen ==
    ASSUME NEW prg \in PrgKeys, NEW st \in [Pid -> Block], NEW ai \in Dir,
           getMsb(st[0]) <=> ~getMsb(st[1]),
           NEW cw, cw = Correction(prg, st, ai)
    PROVE  /\ Child(prg, cw, st[0], 1 - ai) = Child(prg, cw, st[1], 1 - ai)
           /\ getMsb(Child(prg, cw, st[0], ai)) <=> ~getMsb(Child(prg, cw, st[1], ai))
<1>1. /\ cw[1 - ai] = Xor(Prg(prg, st, 0, 1 - ai), Prg(prg, st, 1, 1 - ai))
      /\ getMsb(cw[ai]) <=> (getMsb(Prg(prg, st, 0, ai)) <=> getMsb(Prg(prg, st, 1, ai)))
  BY CorrectionFacts
<1>2. \A p, d : Child(prg, cw, st[p], d) = Xor(Prg(prg, st, p, d), IF getMsb(st[p]) THEN cw[d] ELSE {})
  BY DEF Child, Prg
<1>3. getMsb({}) <=> FALSE
  BY DEF getMsb
<1>4. CASE getMsb(st[0]) /\ ~getMsb(st[1])
  <2>1. \A d : /\ Child(prg, cw, st[0], d) = Xor(Prg(prg, st, 0, d), cw[d])
               /\ Child(prg, cw, st[1], d) = Prg(prg, st, 1, d)
    BY <1>2, <1>4, XorFacts
  <2>2. Child(prg, cw, st[0], 1 - ai) = Prg(prg, st, 1, 1 - ai)
    BY <1>1, <2>1, XorFacts
  <2>3. getMsb(Child(prg, cw, st[0], ai)) <=> ~(getMsb(Prg(prg, st, 0, ai)) <=> getMsb(cw[ai]))
    BY <2>1, XorFacts
  <2> QED BY <1>1, <2>1, <2>2, <2>3
<1>5. CASE ~getMsb(st[0]) /\ getMsb(st[1])
  <2>1. \A d : /\ Child(prg, cw, st[1], d) = Xor(Prg(prg, st, 1, d), cw[d])
               /\ Child(prg, cw, st[0], d) = Prg(prg, st, 0, d)
    BY <1>2, <1>5, XorFacts
  <2>2. Child(prg, cw, st[1], 1 - ai) = Prg(prg, st, 0, 1 - ai)
    BY <1>1, <2>1, XorFacts
  <2>3. getMsb(Child(prg, cw, st[1], ai)) <=> ~(getMsb(Prg(prg, st, 1, ai)) <=> getMsb(cw[ai]))
    BY <2>1, XorFacts
  <2> QED BY <1>1, <2>1, <2>2, <2>3
<1> QED BY <1>4, <1>5

\* The stRoot of a level, from that of the level before.
NextSt(prg, st, ai) == [p \in Pid |-> Child(prg, Correction(prg, st, ai), st[p], ai)]
FirstSt(roots) == [p \in Pid |-> IF p = 0 THEN roots[p] \ {Msb} ELSE roots[p] \cup {Msb}]

IsPath(f, alpha, prg, roots) ==
    f = [i \in 0..EllIn |-> IF i = 0 THEN FirstSt(roots)
                            ELSE NextSt(prg, f[i - 1], PathBit(alpha, i - 1))]

LEMMA PathFacts ==
    ASSUME NEW alpha \in Nat, NEW prg \in PrgKeys, NEW roots \in Roots
    PROVE  LET path == PathOf(alpha, prg, roots)
           IN  /\ path \in [0..EllIn -> [Pid -> Block]] /\ path[0] = FirstSt(roots)
               /\ \A i \in 0..(EllIn - 1) :
                      path[i + 1] = NextSt(prg, path[i], PathBit(alpha, i))
<1> DEFINE V == [Pid -> Block]
           w == PathOf(alpha, prg, roots)
           g == [i \in 1..EllIn |-> [v \in V |-> NextSt(prg, v, PathBit(alpha, i - 1))]]
<1>1. EllIn \in Nat /\ \A i \in 1..EllIn : i - 1 \in 0..(EllIn - 1) /\ i - 1 \in 0..EllIn
  BY EvalAssumption
<1>2. ASSUME NEW i \in 1..EllIn, NEW v \in V
      PROVE  NextSt(prg, v, PathBit(alpha, i - 1)) \in V
  <2>1. PICK ai \in Dir : ai = PathBit(alpha, i - 1)
    BY <1>1, PathBitType
  <2>2. \A d \in Dir : Correction(prg, v, ai)[d] \in Block
    BY CorrectionFacts
  <2>3. \A p \in Pid : Child(prg, Correction(prg, v, ai), v[p], ai) \in Block
    BY <2>2, ChildType
  <2> QED BY <2>1, <2>3 DEF NextSt
<1>3. g \in [1..EllIn -> [V -> V]]
  BY <1>2
<1>4. FirstSt(roots) \in V
  <2>1. Msb \in 0..Msb /\ roots \in [Pid -> Block]
    BY EvalAssumption
  <2> QED BY <2>1 DEF FirstSt, Block
<1> HIDE DEF g, V
<1>5. PICK f \in [0..EllIn -> V] : f[0] = FirstSt(roots) /\ \A i \in 1..EllIn : f[i] = g[i][f[i - 1]]
  <2>1. \E f \in [0..EllIn -> V] : IsChain(f, EllIn, FirstSt(roots), g)
    BY <1>1, <1>3, <1>4, Recursion
  <2> QED BY <2>1 DEF IsChain
<1>6. IsPath(f, alpha, prg, roots)
  <2>1. ASSUME NEW i \in 0..EllIn
        PROVE  f[i] = IF i = 0 THEN FirstSt(roots) ELSE NextSt(prg, f[i - 1], PathBit(alpha, i - 1))
    <3>1. CASE i # 0
      <4>1. i \in 1..EllIn /\ f[i - 1] \in V
        BY <1>1, <1>5, <3>1
      <4> QED BY <1>5, <3>1, <4>1 DEF g
    <3> QED BY <1>5, <3>1
  <2> QED BY <1>5, <2>1 DEF IsPath
<1>7. w = CHOOSE u : IsPath(u, alpha, prg, roots)
  BY Zenon DEF PathOf, IsPath, FirstSt, NextSt
<1> HIDE DEF w
<1>8. IsPath(w, alpha, prg, roots)
  BY <1>6, <1>7
<1>9. w[0] = FirstSt(roots)
  BY <1>1, <1>8 DEF IsPath
<1>10. ASSUME NEW i \in 0..(EllIn - 1)
       PROVE  w[i + 1] = NextSt(prg, w[i], PathBit(alpha, i))
  <2>1. i + 1 \in 0..EllIn /\ i + 1 # 0 /\ (i + 1) - 1 = i
    BY <1>1
  <2> QED BY <1>8, <2>1 DEF IsPath
<1> DEFINE S == {j \in 0..EllIn : w[j] \in V}
<1>11. \A i \in 0..EllIn : i \in S
  <2>1. 0 \in S
    BY <1>1, <1>4, <1>9
  <2>2. ASSUME NEW i \in 0..EllIn, i # EllIn, i \in S PROVE i + 1 \in S
    <3>1. i + 1 \in 1..EllIn /\ i \in 0..(EllIn - 1) /\ (i + 1) - 1 = i /\ i + 1 \in 0..EllIn
      BY <1>1, <2>2
    <3>2. w[i + 1] \in V
      BY <1>2, <1>10, <2>2, <3>1
    <3> QED BY <3>1, <3>2
  <2> HIDE DEF S
  <2> QED BY <1>1, <2>1, <2>2, UpTo
<1>12. w = [i \in 0..EllIn |-> w[i]]
  BY <1>8 DEF IsPath
<1>13. w \in [0..EllIn -> V]
  BY <1>11, <1>12
<1> QED BY <1>9, <1>10, <1>13 DEF w, V

LEMMA Differ ==
    ASSUME NEW alpha \in Nat, NEW prg \in PrgKeys, NEW roots \in Roots, NEW i \in 0..EllIn
    PROVE  LET st == PathOf(alpha, prg, roots)[i] IN getMsb(st[0]) <=> ~getMsb(st[1])
<1> DEFINE w == PathOf(alpha, prg, roots)
           S == {j \in 0..EllIn : getMsb(w[j][0]) <=> ~getMsb(w[j][1])}
<1>1. /\ w \in [0..EllIn -> [Pid -> Block]] /\ w[0] = FirstSt(roots)
      /\ \A j \in 0..(EllIn - 1) : w[j + 1] = NextSt(prg, w[j], PathBit(alpha, j))
  BY PathFacts
<1>2. EllIn \in Nat /\ 0 \in Pid /\ 1 \in Pid
  BY EvalAssumption DEF Pid
<1> HIDE DEF w
<1>3. 0 \in S
  <2>1. ~getMsb(w[0][0]) /\ getMsb(w[0][1])
    BY <1>1, <1>2 DEF FirstSt, getMsb
  <2> QED BY <1>2, <2>1
<1>4. ASSUME NEW j \in 0..EllIn, j # EllIn, j \in S PROVE j + 1 \in S
  <2>1. j \in 0..(EllIn - 1) /\ j + 1 \in 0..EllIn
    BY <1>2, <1>4
  <2>2. PICK ai \in Dir : ai = PathBit(alpha, j)
    BY <2>1, PathBitType
  <2>3. PICK st \in [Pid -> Block] : st = w[j] /\ (getMsb(st[0]) <=> ~getMsb(st[1]))
    BY <1>1, <1>4
  <2>4. PICK cw : cw = Correction(prg, st, ai)
    OBVIOUS
  <2>5. getMsb(Child(prg, cw, st[0], ai)) <=> ~getMsb(Child(prg, cw, st[1], ai))
    BY <2>3, <2>4, LevelOfGen
  <2>6. \A p \in Pid : w[j + 1][p] = Child(prg, cw, st[p], ai)
    <3>1. w[j + 1] = NextSt(prg, st, ai)
      BY <1>1, <2>1, <2>2, <2>3
    <3> QED BY <2>4, <3>1, SMTT(30) DEF NextSt
  <2>7. getMsb(w[j + 1][0]) <=> ~getMsb(w[j + 1][1])
    BY <1>2, <2>5, <2>6
  <2> QED BY <2>1, <2>7
<1> HIDE DEF S
<1>5. \A j \in 0..EllIn : j \in S
  BY <1>2, <1>3, <1>4, UpTo
<1> QED BY <1>5 DEF S, w

-----------------------------------------------------------------------------
\* The keys that gen makes.

LEMMA Modulus == 2^EllOut \in Nat \ {0}
<1>1. EllOut \in 0..31
  BY EvalAssumption
<1> QED BY <1>1, Power

LEMMA TruncType ==
    ASSUME NEW v
    PROVE  getTrunc(v) \in Int
<1> DEFINE n == EllOut - 1
           S == v \cap (0..(EllOut - 1))
           f == [b \in S |-> 2^b]
           F(j, s) == IF s = {} THEN 0
                      ELSE 2^(CHOOSE x \in s : TRUE) + j[s \ {CHOOSE x \in s : TRUE}]
           G(j, s) == IF s = {} THEN 0 ELSE f[CHOOSE x \in s : TRUE] + j[s \ {CHOOSE x \in s : TRUE}]
           iter == CHOOSE h : h = [s \in SUBSET S |-> F(h, s)]
<1>1. n \in Nat /\ S \in SUBSET (0..n) /\ 0..n \subseteq 0..31
  BY EvalAssumption
<1>2. \A b \in S : f[b] \in Int
  <2> TAKE b \in S
  <2>1. b \in 0..31
    BY <1>1
  <2>2. 2^b \in Nat
    BY <2>1, Power
  <2> QED BY <2>2
<1>3. getTrunc(v) = iter[S]
  BY Zenon DEF getTrunc, MapThenSumSet, MapThenFoldSet
<1> HIDE DEF n, S
<1>4. \A h : \A s \in SUBSET S : F(h, s) = G(h, s)
  <2> TAKE h
  <2> TAKE s \in SUBSET S
  <2>1. CASE s = {}
    BY <2>1
  <2>2. CASE s # {}
    <3>1. PICK y : y = CHOOSE x \in s : TRUE
      OBVIOUS
    <3>2. y \in S
      BY <2>2, <3>1
    <3>3. f[y] = 2^y
      BY <3>2
    <3> HIDE DEF f
    <3> QED BY <2>2, <3>1, <3>3, Zenon
  <2> QED BY <2>1, <2>2
<1>5. PICK g : IsSum(g, f, S)
  BY <1>1, SumsWithin
<1> HIDE DEF f
<1>6. g = [s \in SUBSET S |-> F(g, s)]
  <2>1. g = [s \in SUBSET S |-> G(g, s)]
    BY <1>5 DEF IsSum
  <2> HIDE DEF F, G
  <2> QED BY <1>4, <2>1
<1>7. iter = [s \in SUBSET S |-> F(iter, s)]
  <2>1. iter = CHOOSE h : h = [s \in SUBSET S |-> F(h, s)]
    OBVIOUS
  <2> HIDE DEF F, iter
  <2> QED BY <1>6, <2>1, Zenon
<1> HIDE DEF iter
<1>8. IsSum(iter, f, S)
  <2>1. iter = [s \in SUBSET S |-> G(iter, s)]
    <3> HIDE DEF F, G
    <3> QED BY <1>4, <1>7
  <2> QED BY <2>1 DEF IsSum
<1> QED BY <1>1, <1>2, <1>3, <1>8, SumOfIntegers

\* ks are keys for the point pt, and path is how gen came to them.
KeysFor(ks, pt, path, prg) ==
    \A p \in Pid :
        /\ ks[p].prg = prg /\ ks[p].stOrigin = path[0][p]
        /\ \A i \in 0..(EllIn - 1) : ks[p].cws[i] = Correction(prg, path[i], PathBit(pt.alpha, i))
        /\ ks[p].cwLast = LastCorrection(pt.beta, path[EllIn])

IsGen(ks, pt) ==
    \E prg \in PrgKeys, roots \in Roots : ks = KeyPair(pt.alpha, pt.beta, prg, roots)

PointOK(pt) == pt.alpha \in Nat /\ pt.alpha < VEC_LEN /\ pt.beta \in Nat

LEMMA GenFacts ==
    ASSUME NEW pt, PointOK(pt), NEW prg \in PrgKeys, NEW roots \in Roots,
           NEW ks, ks = KeyPair(pt.alpha, pt.beta, prg, roots)
    PROVE  KeysFor(ks, pt, PathOf(pt.alpha, prg, roots), prg) /\ \A p \in Pid : KeyOK(ks[p])
<1>1. PICK path : path = PathOf(pt.alpha, prg, roots)
  OBVIOUS
<1>2. /\ path \in [0..EllIn -> [Pid -> Block]] /\ path[0] = FirstSt(roots)
      /\ \A i \in 0..(EllIn - 1) : path[i + 1] = NextSt(prg, path[i], PathBit(pt.alpha, i))
  BY <1>1, PathFacts DEF PointOK
<1>3. ks = [p \in Pid |->
               [prg |-> prg, stOrigin |-> path[0][p],
                cws |-> [i \in 0..(EllIn - 1) |-> Correction(prg, path[i], PathBit(pt.alpha, i))],
                cwLast |-> LastCorrection(pt.beta, path[EllIn])]]
  BY <1>1 DEF KeyPair
<1>4. KeysFor(ks, pt, path, prg)
  <2> SUFFICES ASSUME NEW p \in Pid
               PROVE  /\ ks[p].prg = prg /\ ks[p].stOrigin = path[0][p]
                      /\ \A i \in 0..(EllIn - 1) : ks[p].cws[i] = Correction(prg, path[i], PathBit(pt.alpha, i))
                      /\ ks[p].cwLast = LastCorrection(pt.beta, path[EllIn])
    BY DEF KeysFor
  <2>1. PICK k, c : /\ k = ks[p]
                    /\ c = [i \in 0..(EllIn - 1) |-> Correction(prg, path[i], PathBit(pt.alpha, i))]
    OBVIOUS
  <2>2. k = [prg |-> prg, stOrigin |-> path[0][p], cws |-> c, cwLast |-> LastCorrection(pt.beta, path[EllIn])]
    BY <1>3, <2>1
  <2>3. k.prg = prg /\ k.stOrigin = path[0][p] /\ k.cws = c /\ k.cwLast = LastCorrection(pt.beta, path[EllIn])
    BY <2>2
  <2>4. \A i \in 0..(EllIn - 1) : c[i] = Correction(prg, path[i], PathBit(pt.alpha, i))
    BY <2>1
  <2> QED BY <2>1, <2>3, <2>4
<1>5. LastCorrection(pt.beta, path[EllIn]) \in Int
  <2>1. PICK a \in Int, b \in Int : a = getTrunc(path[EllIn][0]) /\ b = getTrunc(path[EllIn][1])
    BY TruncType
  <2>2. PICK c \in Int : c = pt.beta
    BY DEF PointOK
  <2>3. /\ LastCorrection(pt.beta, path[EllIn]) \in {(a - b - c) % 2^EllOut, (c - a + b) % 2^EllOut}
        /\ a - b - c \in Int /\ c - a + b \in Int
    BY <2>1, <2>2 DEF LastCorrection
  <2>4. \A x \in Int : x % 2^EllOut \in Int
    BY Modulus, ModIsCong
  <2> QED BY <2>3, <2>4
<1>6. ASSUME NEW p \in Pid
      PROVE  KeyOK(ks[p])
  <2>1. path[0][p] \in Block
    <3>1. 0 \in 0..EllIn
      BY EvalAssumption
    <3> QED BY <1>2, <3>1
  <2>2. ASSUME NEW i \in 0..(EllIn - 1), NEW d \in Dir
        PROVE  ks[p].cws[i][d] \in Block
    <3>1. path[i] \in [Pid -> Block]
      BY <1>2, HalfWidth
    <3>2. PICK ai \in Dir : ai = PathBit(pt.alpha, i)
      BY PathBitType DEF PointOK
    <3>3. Correction(prg, path[i], ai)[d] \in Block
      BY <3>1, CorrectionFacts
    <3> QED BY <1>4, <3>2, <3>3 DEF KeysFor
  <2> QED BY <1>4, <1>5, <2>1, <2>2 DEF KeysFor, KeyOK
<1> QED BY <1>1, <1>4, <1>6

\* The nodes on the path to the point are those of gen; off it both keys have the same.
LEMMA TreesOfKeys ==
    ASSUME NEW pt, PointOK(pt), NEW prg \in PrgKeys, NEW roots \in Roots,
           NEW ks, ks = KeyPair(pt.alpha, pt.beta, prg, roots),
           NEW x \in 0..(VEC_LEN - 1), NEW i \in 0..EllIn
    PROVE  IF At(x, i) = At(pt.alpha, i)
           THEN \A p \in Pid : Walk(ks[p], x)[i] = PathOf(pt.alpha, prg, roots)[i][p]
           ELSE Walk(ks[0], x)[i] = Walk(ks[1], x)[i]
<1> DEFINE a == pt.alpha
           on(j) == At(x, j) = At(a, j)
<1>1. PICK path : path = PathOf(a, prg, roots)
  OBVIOUS
<1>2. /\ path \in [0..EllIn -> [Pid -> Block]] /\ path[0] = FirstSt(roots)
      /\ \A j \in 0..(EllIn - 1) : path[j + 1] = NextSt(prg, path[j], PathBit(a, j))
      /\ \A j \in 0..EllIn : getMsb(path[j][0]) <=> ~getMsb(path[j][1])
  <2>1. a \in Nat
    BY DEF PointOK
  <2> HIDE DEF a
  <2> QED BY <1>1, <2>1, PathFacts, Differ
<1>3. KeysFor(ks, pt, path, prg) /\ \A p \in Pid : KeyOK(ks[p])
  BY <1>1, GenFacts
<1>4. EllIn \in Nat /\ 0 \in Pid /\ 1 \in Pid /\ VEC_LEN \in Nat \ {0} /\ VEC_LEN = 2^EllIn
  <2>1. EllIn \in 0..31
    BY EvalAssumption
  <2> QED BY <2>1, Power DEF Pid, VEC_LEN
<1> HIDE DEF VEC_LEN
<1>5. x \in Nat /\ a \in Nat /\ x < VEC_LEN /\ a < VEC_LEN
  BY <1>4 DEF PointOK
<1> DEFINE u(p) == Walk(ks[p], x)
<1>6. \A p \in Pid : /\ u(p)[0] = path[0][p]
                     /\ \A j \in 0..(EllIn - 1) :
                            u(p)[j + 1] = Child(prg, Correction(prg, path[j], PathBit(a, j)), u(p)[j], PathBit(x, j))
  <2> SUFFICES ASSUME NEW p \in Pid
               PROVE  /\ u(p)[0] = path[0][p]
                      /\ \A j \in 0..(EllIn - 1) :
                            u(p)[j + 1] = Child(prg, Correction(prg, path[j], PathBit(a, j)), u(p)[j], PathBit(x, j))
    OBVIOUS
  <2>1. /\ u(p)[0] = ks[p].stOrigin
        /\ \A j \in 0..(EllIn - 1) :
               u(p)[j + 1] = Child(ks[p].prg, ks[p].cws[j], u(p)[j], PathBit(x, j))
    BY <1>3, <1>5, WalkFacts
  <2> HIDE DEF u
  <2> QED BY <1>3, <2>1 DEF KeysFor
<1> HIDE DEF u
<1> DEFINE Good(j) == IF on(j) THEN \A p \in Pid : u(p)[j] = path[j][p] ELSE u(0)[j] = u(1)[j]
           S == {j \in 0..EllIn : Good(j)}
<1>7. 0 \in S
  <2>1. \A y \in Nat : y < VEC_LEN => At(y, 0) = 0
    <3> SUFFICES ASSUME NEW y \in Nat, y < VEC_LEN PROVE At(y, 0) = 0
      OBVIOUS
    <3>1. EllIn - 0 = EllIn
      BY <1>4
    <3>2. VEC_LEN * 0 = 0
      BY <1>4
    <3>3. y \div VEC_LEN = 0
      BY <1>4, <3>2, QuotientIs
    <3> QED BY <1>4, <3>1, <3>3 DEF At
  <2>2. on(0)
    BY <1>5, <2>1
  <2>3. Good(0)
    BY <1>6, <2>2
  <2> QED BY <1>4, <2>3
<1>8. ASSUME NEW j \in 0..EllIn, j # EllIn, j \in S PROVE j + 1 \in S
  <2>1. j \in 0..(EllIn - 1) /\ j + 1 \in 0..EllIn
    BY <1>4, <1>8
  <2>2. PICK b \in Dir, c \in Dir : b = PathBit(x, j) /\ c = PathBit(a, j)
    BY <1>5, <2>1, PathBitType
  <2>3. /\ At(x, j + 1) = 2 * At(x, j) + b /\ At(a, j + 1) = 2 * At(a, j) + c
        /\ At(x, j) \in Nat /\ At(a, j) \in Nat
    BY <1>5, <2>1, <2>2, AtNext
  <2>4. on(j + 1) <=> on(j) /\ b = c
    BY <2>3 DEF Dir
  <2>5. PICK st \in [Pid -> Block] : st = path[j] /\ (getMsb(st[0]) <=> ~getMsb(st[1]))
    BY <1>2, <2>1
  <2> DEFINE cw == Correction(prg, st, c)
  <2>6. \A p \in Pid : u(p)[j + 1] = Child(prg, cw, u(p)[j], b)
    BY <1>6, <2>1, <2>2, <2>5
  <2>7. Good(j)
    BY <1>8
  <2>11. /\ path[j + 1] = [p \in Pid |-> Child(prg, cw, st[p], c)]
         /\ Child(prg, cw, st[0], 1 - c) = Child(prg, cw, st[1], 1 - c)
    BY <1>2, <2>1, <2>2, <2>5, LevelOfGen DEF NextSt
  <2> HIDE DEF cw
  <2> HIDE DEF on
  <2>8. CASE on(j) /\ b = c
    <3>1. \A p \in Pid : u(p)[j + 1] = path[j + 1][p]
      BY <2>5, <2>6, <2>7, <2>8, <2>11
    <3> QED BY <2>1, <2>4, <2>8, <3>1
  <2>9. CASE on(j) /\ b # c
    <3>1. b = 1 - c
      BY <2>9 DEF Dir
    <3>2. u(0)[j + 1] = u(1)[j + 1]
      BY <1>4, <2>5, <2>6, <2>7, <2>9, <2>11, <3>1
    <3> QED BY <2>1, <2>4, <2>9, <3>2
  <2>10. CASE ~on(j)
    <3>1. u(0)[j + 1] = u(1)[j + 1]
      BY <1>4, <2>6, <2>7, <2>10
    <3> QED BY <2>1, <2>4, <2>10, <3>1
  <2> QED BY <2>8, <2>9, <2>10
<1> HIDE DEF S
<1>9. \A j \in 0..EllIn : j \in S
  BY <1>4, <1>7, <1>8, UpTo
<1>10. Good(i)
  BY <1>9 DEF S
<1> QED BY <1>1, <1>10 DEF u

\* The share of an Evaluator of the value at x.
Value(key, p, x) == LeafValue(p, key, LeafOf(key, x))

LEMMA LeafIsNode ==
    ASSUME NEW x \in Nat
    PROVE  At(x, EllIn) = x
<1>0. EllIn \in 0..EllIn
  BY EvalAssumption
<1>1. NodeStart(x, EllIn) = x
  <2>1. EllIn - EllIn = 0
    BY EvalAssumption
  <2>2. 2^0 = 1
    OBVIOUS
  <2>3. NodeStart(x, EllIn) = x * 1
    BY <2>1, <2>2, Zenon DEF NodeStart
  <2> QED BY <2>3
<1>2. At(NodeStart(x, EllIn), EllIn) = x
  BY <1>0, NodeAt
<1> QED BY <1>1, <1>2

LEMMA ValueFacts ==
    ASSUME NEW key, KeyOK(key), NEW p \in Pid, NEW x \in Nat, NEW st, st = LeafOf(key, x)
    PROVE  LET raw == getTrunc(st) + (IF getMsb(st) THEN key.cwLast ELSE 0)
           IN  raw \in Int /\ Value(key, p, x) = (IF p = 0 THEN raw ELSE -raw) % 2^EllOut
<1>1. getTrunc(st) \in Int /\ key.cwLast \in Int
  BY TruncType DEF KeyOK
<1> QED BY <1>1 DEF Value, LeafValue

\* The shares of both Evaluators add up to the value of the function.
LEMMA ValuesAdd ==
    ASSUME NEW pt, PointOK(pt), NEW ks, IsGen(ks, pt), NEW x \in 0..(VEC_LEN - 1)
    PROVE  (Value(ks[0], 0, x) + Value(ks[1], 1, x)) % 2^EllOut =
               IF x = pt.alpha THEN pt.beta % 2^EllOut ELSE 0
<1>1. PICK prg \in PrgKeys, roots \in Roots : ks = KeyPair(pt.alpha, pt.beta, prg, roots)
  BY DEF IsGen
<1>2. PICK path : path = PathOf(pt.alpha, prg, roots)
  OBVIOUS
<1>3. KeysFor(ks, pt, path, prg) /\ \A p \in Pid : KeyOK(ks[p])
  BY <1>1, <1>2, GenFacts
<1>4. 0 \in Pid /\ 1 \in Pid /\ EllIn \in 0..EllIn /\ x \in Nat /\ pt.alpha \in Nat /\ pt.beta \in Int
  <2>1. VEC_LEN \in Nat \ {0}
    BY Power, EvalAssumption DEF VEC_LEN
  <2> HIDE DEF VEC_LEN
  <2> QED BY <2>1, EvalAssumption DEF Pid, PointOK
<1>5. PICK s0, s1 : s0 = LeafOf(ks[0], x) /\ s1 = LeafOf(ks[1], x)
  OBVIOUS
<1>6. IF x = pt.alpha THEN s0 = path[EllIn][0] /\ s1 = path[EllIn][1] ELSE s0 = s1
  <2>1. At(x, EllIn) = x /\ At(pt.alpha, EllIn) = pt.alpha
    BY <1>4, LeafIsNode
  <2>2. IF At(x, EllIn) = At(pt.alpha, EllIn)
        THEN \A p \in Pid : Walk(ks[p], x)[EllIn] = path[EllIn][p]
        ELSE Walk(ks[0], x)[EllIn] = Walk(ks[1], x)[EllIn]
    BY <1>1, <1>2, <1>4, TreesOfKeys
  <2> QED BY <1>4, <1>5, <2>1, <2>2 DEF LeafOf
<1>7. PICK M \in Nat \ {0} : M = 2^EllOut
  BY Modulus
<1>8. PICK t0 \in Int, t1 \in Int : t0 = getTrunc(s0) /\ t1 = getTrunc(s1)
  BY TruncType
<1>9. PICK cw \in Int : cw = ks[0].cwLast /\ cw = ks[1].cwLast /\ cw = LastCorrection(pt.beta, path[EllIn])
  BY <1>3, <1>4 DEF KeysFor, KeyOK
<1> DEFINE r0 == t0 + (IF getMsb(s0) THEN cw ELSE 0)
           r1 == t1 + (IF getMsb(s1) THEN cw ELSE 0)
<1>10. r0 \in Int /\ r1 \in Int
  OBVIOUS
<1>11. Value(ks[0], 0, x) = r0 % M /\ Value(ks[1], 1, x) = (-r1) % M
  <2>1. \A p \in Pid : p = 0 \/ (p = 1 /\ p # 0)
    BY DEF Pid
  <2>2. Value(ks[0], 0, x) = (IF 0 = 0 THEN r0 ELSE -r0) % M
    BY <1>3, <1>4, <1>5, <1>7, <1>8, <1>9, ValueFacts
  <2>3. Value(ks[1], 1, x) = (IF 1 = 0 THEN r1 ELSE -r1) % M
    <3>1. KeyOK(ks[1]) /\ 1 \in Pid /\ x \in Nat
      BY <1>3, <1>4
    <3>2. getTrunc(s1) + (IF getMsb(s1) THEN ks[1].cwLast ELSE 0) = r1
      BY <1>8, <1>9
    <3> HIDE DEF r1
    <3> QED BY <1>5, <1>7, <3>1, <3>2, ValueFacts
  <2> HIDE DEF r0, r1
  <2> QED BY <2>2, <2>3
<1>12. Cong(r0 - r1, IF x = pt.alpha THEN pt.beta ELSE 0, M)
  <2>1. CASE x # pt.alpha
    <3>1. r0 - r1 = 0
      BY <1>6, <1>8, <2>1
    <3> QED BY <2>1, <3>1, CongSelf, 0 \in Int
  <2>2. CASE x = pt.alpha
    <3>1. s0 = path[EllIn][0] /\ s1 = path[EllIn][1] /\ (getMsb(s0) <=> ~getMsb(s1))
      <4>1. getMsb(path[EllIn][0]) <=> ~getMsb(path[EllIn][1])
        BY <1>2, <1>4, Differ
      <4> QED BY <1>6, <2>2, <4>1
    <3>2. PICK b \in Int : b = pt.beta
      BY <1>4
    <3>3. cw = (IF getMsb(s1) THEN t0 - t1 - b ELSE b - t0 + t1) % M
      BY <1>7, <1>8, <1>9, <3>1, <3>2 DEF LastCorrection
    <3>4. CASE getMsb(s1)
      <4>1. r0 - r1 = (t0 - t1) - cw /\ t0 - t1 \in Int /\ t0 - t1 - b \in Int
        BY <3>1, <3>4
      <4>2. Cong(cw, t0 - t1 - b, M)
        BY <3>3, <3>4, <4>1, ModIsCong
      <4>3. Cong((t0 - t1) - cw, (t0 - t1) - (t0 - t1 - b), M)
        BY <4>1, <4>2, CongSelf, CongSum
      <4>4. (t0 - t1) - (t0 - t1 - b) = b
        OBVIOUS
      <4> HIDE DEF r0, r1
      <4> QED BY <2>2, <3>2, <4>1, <4>3, <4>4
    <3>5. CASE ~getMsb(s1)
      <4>1. r0 - r1 = (t0 - t1) + cw /\ t0 - t1 \in Int /\ b - t0 + t1 \in Int
        BY <3>1, <3>5
      <4>2. Cong(cw, b - t0 + t1, M)
        BY <3>3, <3>5, <4>1, ModIsCong
      <4>3. Cong((t0 - t1) + cw, (t0 - t1) + (b - t0 + t1), M)
        BY <4>1, <4>2, CongSelf, CongSum
      <4>4. (t0 - t1) + (b - t0 + t1) = b
        OBVIOUS
      <4> HIDE DEF r0, r1
      <4> QED BY <2>2, <3>2, <4>1, <4>3, <4>4
    <3> QED BY <3>4, <3>5
  <2> QED BY <2>1, <2>2
<1> HIDE DEF r0, r1
<1>13. PICK z \in Int : z = IF x = pt.alpha THEN pt.beta ELSE 0
  BY <1>4
<1>14. Cong((r0 % M) + ((-r1) % M), z, M) /\ r0 % M \in Int /\ (-r1) % M \in Int
  <2>1. PICK n1 \in Int : n1 = -r1 /\ r0 + n1 = r0 - r1
    BY <1>10
  <2>2. r0 % M \in Int /\ n1 % M \in Int /\ Cong(r0 % M, r0, M) /\ Cong(n1 % M, n1, M)
    <3>1. \A a \in Int : a % M \in 0..(M - 1) /\ Cong(a % M, a, M)
      BY ModIsCong
    <3>2. r0 % M \in 0..(M - 1) /\ n1 % M \in 0..(M - 1) /\ Cong(r0 % M, r0, M) /\ Cong(n1 % M, n1, M)
      BY <1>10, <3>1
    <3> QED BY <3>2
  <2>3. Cong((r0 % M) + (n1 % M), r0 + n1, M)
    BY <1>10, <2>2, CongSum
  <2>4. Cong((r0 % M) + (n1 % M), z, M)
    <3>1. Cong(r0 + n1, z, M) /\ r0 + n1 \in Int /\ (r0 % M) + (n1 % M) \in Int
      BY <1>10, <1>12, <1>13, <2>1, <2>2
    <3> QED BY <2>3, <3>1, CongTrans
  <2> QED BY <2>1, <2>2, <2>4
<1>15. ((r0 % M) + ((-r1) % M)) % M = z % M
  <2>1. PICK y \in Int : y = (r0 % M) + ((-r1) % M) /\ Cong(y, z, M)
    BY <1>14
  <2>2. z % M \in 0..(M - 1) /\ Cong(y, z % M, M)
    BY <2>1, ModIsCong, CongMod
  <2>3. y % M = z % M
    BY <2>1, <2>2, ModOfCong
  <2> QED BY <2>1, <2>3
<1>16. 0 % M = 0
  BY <1>7
<1> QED BY <1>7, <1>11, <1>13, <1>15, <1>16

-----------------------------------------------------------------------------
\* Ranges

\* Offset numbers the indices of a range from bg on, around the end of the domain.
LEMMA OffsetInverse ==
    ASSUME NEW c, c.bg \in 0..(VEC_LEN - 1), c.ed \in 0..(VEC_LEN - 1)
    PROVE  /\ RangeLen(c) \in Nat \ {0}
           /\ \A i \in 0..(RangeLen(c) - 1) :
                  LET x == (c.bg + i) % VEC_LEN
                  IN  x \in 0..(VEC_LEN - 1) /\ ~Skipped(c, x) /\ Offset(c, x) = i
<1>1. PICK V \in Nat \ {0} : V = VEC_LEN
  BY Power, EvalAssumption DEF VEC_LEN
<1>2. PICK bg \in 0..(V - 1), ed \in 0..(V - 1) : bg = c.bg /\ ed = c.ed
  BY <1>1
<1>3. RangeLen(c) = IF ed < bg THEN (V - bg) + ed + 1 ELSE ed - bg + 1
  BY <1>1, <1>2 DEF RangeLen, IsCircular
<1>4. RangeLen(c) \in Nat \ {0} /\ RangeLen(c) <= V
  BY <1>1, <1>2, <1>3
<1>5. ASSUME NEW i \in 0..(RangeLen(c) - 1)
      PROVE  LET x == (bg + i) % V IN x \in 0..(V - 1) /\ ~Skipped(c, x) /\ Offset(c, x) = i
  <2>1. i \in Nat /\ i < V
    BY <1>1, <1>4
  <2>2. (bg + i) % V = IF bg + i < V THEN bg + i ELSE (bg + i) - V
    <3>1. CASE bg + i < V
      <4>1. Cong(bg + i, bg + i, V) /\ bg + i \in 0..(V - 1)
        BY <1>1, <1>2, <2>1, <3>1, CongSelf
      <4> QED BY <1>1, <3>1, <4>1, ModOfCong
    <3>2. CASE ~(bg + i < V)
      <4>1. (bg + i) - V \in 0..(V - 1) /\ bg + i = ((bg + i) - V) + 1 * V /\ bg + i \in Int
        BY <1>1, <1>2, <2>1, <3>2
      <4>2. Cong(bg + i, (bg + i) - V, V)
        BY <4>1, 1 \in Int DEF Cong
      <4> QED BY <1>1, <3>2, <4>1, <4>2, ModOfCong
    <3> QED BY <3>1, <3>2
  <2>3. PICK x \in Int : x = (bg + i) % V /\ x = IF bg + i < V THEN bg + i ELSE (bg + i) - V
    BY <1>1, <1>2, <2>1, <2>2
  <2>4. x \in 0..(V - 1) /\ ~Skipped(c, x) /\ Offset(c, x) = i
    <3>1. x \in 0..(V - 1)
      BY <1>1, <1>2, <2>1, <2>3
    <3>2. ~Skipped(c, x)
      BY <1>1, <1>2, <1>3, <2>1, <2>3 DEF Skipped, IsCircular
    <3>3. Offset(c, x) = i
      <4>1. Offset(c, x) = IF ed < bg THEN IF x >= bg THEN x - bg ELSE (V - bg) + x ELSE x - bg
        BY <1>1, <1>2 DEF Offset, IsCircular
      <4> QED BY <1>1, <1>2, <1>3, <2>1, <2>3, <4>1
    <3> QED BY <3>1, <3>2, <3>3
  <2> QED BY <2>3, <2>4
<1> HIDE DEF VEC_LEN
<1> QED BY <1>1, <1>2, <1>4, <1>5

LEMMA OffsetWithin ==
    ASSUME NEW c, c.bg \in 0..(VEC_LEN - 1), c.ed \in 0..(VEC_LEN - 1),
           NEW x \in 0..(VEC_LEN - 1), ~Skipped(c, x)
    PROVE  Offset(c, x) \in 0..(RangeLen(c) - 1)
  BY Places

Inside(id, layer, x) == NodeStart(id, layer) <= x /\ x < NodeEnd(id, layer)

LEMMA NodeTypes ==
    ASSUME NEW id \in Nat, NEW layer \in 0..EllIn
    PROVE  NodeStart(id, layer) \in Nat /\ NodeEnd(id, layer) \in Nat
<1>1. /\ NodeStart(id, layer) \in Nat /\ 2^(EllIn - layer) \in Nat \ {0}
      /\ NodeEnd(id, layer) = NodeStart(id, layer) + 2^(EllIn - layer)
  BY NodeFacts
<1> QED BY <1>1

\* A subtree that is pruned has no leaf in the range; one that is not pushed neither.
LEMMA PruningIsSafe ==
    ASSUME NEW c, c.bg \in 0..(VEC_LEN - 1), c.ed \in 0..(VEC_LEN - 1),
           NEW id \in Nat, NEW layer \in 0..EllIn, NEW x \in Nat, Inside(id, layer, x)
    PROVE  /\ Pruned(c, id, layer) => Skipped(c, x)
           /\ ~Overlaps(c, id, layer) => Skipped(c, x)
<1>1. NodeStart(id, layer) \in Nat /\ NodeEnd(id, layer) \in Nat
  BY NodeTypes
<1>2. c.bg \in Int /\ c.ed \in Int
  OBVIOUS
<1> QED BY <1>1, <1>2 DEF Inside, Pruned, Overlaps, Skipped, IsCircular

\* A leaf below a node is below one of its children.
LEMMA InsideChild ==
    ASSUME NEW id \in Nat, NEW layer \in 0..(EllIn - 1), NEW x \in Nat, Inside(id, layer, x)
    PROVE  Inside(2 * id, layer + 1, x) \/ Inside(2 * id + 1, layer + 1, x)
<1>1. PICK p \in Nat \ {0} : p = 2^(EllIn - (layer + 1)) /\ 2^(EllIn - layer) = 2 * p
  BY HalfWidth
<1>2. PICK q \in Nat : q = id * p
  BY <1>1, Z3
<1>3. /\ NodeStart(id, layer) = 2 * q /\ NodeEnd(id, layer) = 2 * q + 2 * p
      /\ NodeStart(2 * id, layer + 1) = 2 * q /\ NodeEnd(2 * id, layer + 1) = 2 * q + p
      /\ NodeStart(2 * id + 1, layer + 1) = 2 * q + p /\ NodeEnd(2 * id + 1, layer + 1) = 2 * q + 2 * p
  <2>1. /\ id * (2 * p) = 2 * q /\ (id + 1) * (2 * p) = 2 * q + 2 * p
        /\ (2 * id) * p = 2 * q /\ (2 * id + 1) * p = 2 * q + p /\ (2 * id + 1 + 1) * p = 2 * q + 2 * p
    BY <1>1, <1>2, Z3
  <2> QED BY <1>1, <2>1 DEF NodeStart, NodeEnd
<1> QED BY <1>1, <1>2, <1>3 DEF Inside

-----------------------------------------------------------------------------
\* What the threads of a running evaluation have done, and what they have still to do.

NodesOn(s) == {s[k] : k \in 1..Len(s)}

\* A node carries its block of the tree.
RightNode(key, node) == node.st = NodeSt(key, node.id, node.layer)

\* The nodes and values of a thread are right, and the word that it has loaded is the
\* one of the leaf that it writes next.
RightThread(c, key, th) ==
    /\ \A node \in NodesOn(th.stk) : RightNode(key, node)
    /\ \A x \in DOMAIN th.todo : th.todo[x].val = Value(key, c.pid, x)
    /\ th.loaded # NoWord => ~Written(th) /\ DOMAIN th.loaded = {th.todo[NextLeaf(th)].i}

\* A thread has still to write leaf x.
Pending(c, th, x) ==
    \/ x \in DOMAIN th.todo
    \/ \E node \in NodesOn(th.stk) : Inside(node.id, node.layer, x)
    \/ NodeStart(th.next, Depth(c)) <= x /\ x < NodeStart(th.end, Depth(c))

RightTasks(c, key, ts) ==
    \A j \in 0..(TotalTasks(c.cores) - 1) : ts[j] = NodeSt(key, j, Depth(c))

LEMMA PushedNodes ==
    ASSUME NEW s, IsSeq(s), NEW x
    PROVE  IsSeq(s \o <<x>>) /\ NodesOn(s \o <<x>>) = NodesOn(s) \cup {x}
<1> DEFINE r == s \o <<x>>
<1>1. /\ IsSeq(r) /\ Len(s) \in Nat /\ Len(r) = Len(s) + 1
      /\ r[Len(s) + 1] = x /\ \A k \in 1..Len(s) : r[k] = s[k]
  BY Pushing
<1> HIDE DEF r
<1>2. 1..Len(r) = (1..Len(s)) \cup {Len(s) + 1}
  BY <1>1
<1>3. NodesOn(r) = NodesOn(s) \cup {x}
  BY <1>1, <1>2 DEF NodesOn
<1> QED BY <1>1, <1>3 DEF r

LEMMA PoppedNodes ==
    ASSUME NEW s, IsSeq(s), s # <<>>
    PROVE  NodesOn(s) = NodesOn(SubSeq(s, 1, Len(s) - 1)) \cup {s[Len(s)]}
<1> DEFINE r == SubSeq(s, 1, Len(s) - 1)
<1>1. /\ Len(s) \in Nat \ {0} /\ Len(r) = Len(s) - 1 /\ \A k \in 1..Len(r) : r[k] = s[k]
  BY Popping
<1> HIDE DEF r
<1>2. 1..Len(s) = (1..Len(r)) \cup {Len(s)}
  BY <1>1
<1>3. NodesOn(s) = NodesOn(r) \cup {s[Len(s)]}
  BY <1>1, <1>2 DEF NodesOn
<1> QED BY <1>3 DEF r

\* A thread that takes a node leaves the other nodes to be visited.
LEMMA TakeRight ==
    ASSUME CallOK(call), NEW t, NEW th, ThreadOK(call, t, th), NEW key,
           RightThread(call, key, th), RightTasks(call, key, tasks), Written(th),
           th.stk # <<>> \/ th.next < th.end
    PROVE  /\ RightNode(key, NodeTaken(th))
           /\ \A node \in NodesOn(Popped(th).stk) : RightNode(key, node)
           /\ \A x \in Nat : Pending(call, th, x) =>
                  \/ Pending(call, Popped(th), x)
                  \/ Inside(NodeTaken(th).id, NodeTaken(th).layer, x)
<1> DEFINE n == NodeTaken(th)
           p == Popped(th)
           S == Depth(call)
<1>1. /\ S \in 0..EllIn /\ TotalTasks(call.cores) \in Nat
  <2>1. call.cores \in CoreCounts
    BY DEF CallOK
  <2> QED BY <2>1, CoresFacts DEF Depth
<1>2. CASE th.stk # <<>>
  <2>1. n = th.stk[Len(th.stk)] /\ p = [th EXCEPT !.stk = SubSeq(th.stk, 1, Len(th.stk) - 1)]
    BY <1>2 DEF NodeTaken, Popped
  <2>2. /\ p.stk = SubSeq(th.stk, 1, Len(th.stk) - 1)
        /\ p.next = th.next /\ p.end = th.end /\ p.todo = th.todo
    BY <2>1 DEF ThreadOK
  <2> HIDE DEF n, p
  <2>3. NodesOn(th.stk) = NodesOn(p.stk) \cup {n}
    BY <1>2, <2>1, <2>2, PoppedNodes DEF ThreadOK, StackOK
  <2>4. RightNode(key, n) /\ \A node \in NodesOn(p.stk) : RightNode(key, node)
    BY <2>3 DEF RightThread
  <2>5. \A x \in Nat : Pending(call, th, x) => Pending(call, p, x) \/ Inside(n.id, n.layer, x)
    BY <2>2, <2>3 DEF Pending
  <2> QED BY <2>4, <2>5 DEF n, p
<1>3. CASE th.stk = <<>> /\ th.next < th.end
  <2>1. /\ p = [th EXCEPT !.next = th.next + 1]
        /\ n = [st |-> tasks[th.next], id |-> th.next, layer |-> S]
    BY <1>3 DEF Popped, NodeTaken, Depth
  <2>2. n.st = tasks[th.next] /\ n.id = th.next /\ n.layer = S
    BY <2>1
  <2>3. p.stk = <<>> /\ p.next = th.next + 1 /\ p.end = th.end /\ p.todo = th.todo
    BY <1>3, <2>1 DEF ThreadOK
  <2> HIDE DEF n, p
  <2>4. th.next \in Nat /\ th.end \in Nat /\ th.next + 1 <= th.end /\ th.end <= TotalTasks(call.cores)
    <3>1. th.end \in Nat /\ th.end = Least(t * TasksPerThread(call.cores), TotalTasks(call.cores))
          /\ t * TasksPerThread(call.cores) \in Nat /\ th.next \in Nat
      BY Bounds DEF ThreadOK
    <3> QED BY <1>1, <1>3, <3>1 DEF Least
  <2>5. RightNode(key, n)
    <3>1. th.next \in 0..(TotalTasks(call.cores) - 1)
      BY <1>1, <1>3, <2>4
    <3> QED BY <2>2, <3>1 DEF RightTasks, RightNode
  <2>6. NodesOn(p.stk) = {} /\ NodesOn(th.stk) = {}
    <3>1. NodesOn(<<>>) = {}
      BY DEF NodesOn
    <3> QED BY <1>3, <2>3, <3>1
  <2>7. NodeEnd(n.id, S) = NodeStart(th.next + 1, S) /\ NodeEnd(n.id, S) \in Int
    <3>1. NodeEnd(th.next, S) = NodeStart(th.next + 1, S)
      BY <2>4 DEF NodeEnd, NodeStart
    <3> HIDE DEF S
    <3>2. NodeEnd(th.next, S) \in Nat
      BY <1>1, <2>4, NodeTypes
    <3> QED BY <2>2, <3>1, <3>2
  <2> HIDE DEF S
  <2>8. ASSUME NEW x \in Nat, Pending(call, th, x)
        PROVE  Pending(call, p, x) \/ Inside(n.id, n.layer, x)
    <3>1. CASE x \in DOMAIN th.todo
      BY <2>3, <3>1 DEF Pending
    <3>2. CASE NodeStart(th.next, S) <= x /\ x < NodeStart(th.end, S)
      <4>1. x < NodeEnd(n.id, S) \/ NodeEnd(n.id, S) <= x
        BY <2>7
      <4> QED BY <2>2, <2>3, <2>7, <3>2, <4>1 DEF Pending, Inside, S
    <3> QED BY <2>6, <2>8, <3>1, <3>2 DEF Pending, S
  <2> QED BY <2>5, <2>6, <2>8 DEF n, p
<1> QED BY <1>2, <1>3

\* A step of a thread of c from th to v loses no leaf of the range.
KeepsLeaves(c, th, v) ==
    \A x \in Nat : ~Skipped(c, x) /\ Pending(c, th, x) => Pending(c, v, x)

\* A thread th that has taken node n, and what it is then.
Taken(c, key, th, n, p) ==
    /\ n.id \in Nat /\ n.layer \in 0..EllIn /\ RightNode(key, n)
    /\ p = [next |-> p.next, end |-> th.end, stk |-> p.stk, todo |-> th.todo, loaded |-> NoWord]
    /\ IsSeq(p.stk) /\ DOMAIN th.todo = {}
    /\ \A node \in NodesOn(p.stk) : RightNode(key, node)
    /\ \A x \in Nat : Pending(c, th, x) => Pending(c, p, x) \/ Inside(n.id, n.layer, x)

LEMMA TakenFacts ==
    ASSUME CallOK(call), NEW t, NEW th, ThreadOK(call, t, th), NEW key,
           RightThread(call, key, th), RightTasks(call, key, tasks), Written(th),
           th.stk # <<>> \/ th.next < th.end
    PROVE  Taken(call, key, th, NodeTaken(th), Popped(th))
<1> DEFINE n == NodeTaken(th)
           p == Popped(th)
<1>1. /\ p = [next |-> p.next, end |-> th.end, stk |-> p.stk, todo |-> th.todo, loaded |-> th.loaded]
      /\ Owned(call, t, th.end, n) /\ Steep(call, t, th.end, p.stk)
  BY Taking
<1>2. /\ RightNode(key, n) /\ \A node \in NodesOn(p.stk) : RightNode(key, node)
      /\ \A x \in Nat : Pending(call, th, x) => Pending(call, p, x) \/ Inside(n.id, n.layer, x)
  BY TakeRight
<1>3. Depth(call) \in 0..EllIn /\ EllIn \in Nat
  BY Bounds
<1>4. th.loaded = NoWord /\ DOMAIN th.todo = {}
  BY DEF RightThread, Written
<1> HIDE DEF n, p
<1>5. n.id \in Nat /\ n.layer \in 0..EllIn
  BY <1>1, <1>3 DEF Owned
<1>6. p = [next |-> p.next, end |-> th.end, stk |-> p.stk, todo |-> th.todo, loaded |-> NoWord]
  BY <1>1, <1>4, Zenon
<1>7. IsSeq(p.stk)
  BY <1>1 DEF Steep
<1> QED BY <1>2, <1>4, <1>5, <1>6, <1>7 DEF n, p, Taken

WithTodo(th, todo) == [th EXCEPT !.todo = todo]
WithStack(th, s) == [th EXCEPT !.stk = s]

LEMMA PrunedRight ==
    ASSUME NEW c, CallOK(c), NEW key, NEW th, NEW n, NEW p, Taken(c, key, th, n, p),
           Pruned(c, n.id, n.layer)
    PROVE  RightThread(c, key, p) /\ KeepsLeaves(c, th, p)
<1>1. /\ n.id \in Nat /\ n.layer \in 0..EllIn
      /\ p = [next |-> p.next, end |-> th.end, stk |-> p.stk, todo |-> th.todo, loaded |-> NoWord]
      /\ DOMAIN th.todo = {} /\ \A node \in NodesOn(p.stk) : RightNode(key, node)
      /\ \A x \in Nat : Pending(c, th, x) => Pending(c, p, x) \/ Inside(n.id, n.layer, x)
  BY DEF Taken
<1>2. p.todo = th.todo /\ p.loaded = NoWord
  BY <1>1
<1>3. RightThread(c, key, p)
  BY <1>1, <1>2 DEF RightThread
<1>4. \A x \in Nat : Inside(n.id, n.layer, x) => Skipped(c, x)
  BY <1>1, PruningIsSafe DEF CallOK
<1> QED BY <1>1, <1>3, <1>4 DEF KeepsLeaves

LEMMA LeavesRight ==
    ASSUME NEW c, CallOK(c), NEW key, KeyOK(key), NEW th, NEW n, NEW p, Taken(c, key, th, n, p),
           NEW v, v = WithTodo(p, LeavesOf(c, key, n))
    PROVE  RightThread(c, key, v) /\ KeepsLeaves(c, th, v)
<1>1. /\ n.id \in Nat /\ n.layer \in 0..EllIn /\ RightNode(key, n)
      /\ p = [next |-> p.next, end |-> th.end, stk |-> p.stk, todo |-> th.todo, loaded |-> NoWord]
      /\ DOMAIN th.todo = {} /\ \A node \in NodesOn(p.stk) : RightNode(key, node)
      /\ \A x \in Nat : Pending(c, th, x) => Pending(c, p, x) \/ Inside(n.id, n.layer, x)
  BY DEF Taken
<1>2. PICK L : L = LeavesOf(c, key, n)
  OBVIOUS
<1>3. v = [next |-> p.next, end |-> th.end, stk |-> p.stk, todo |-> L, loaded |-> NoWord]
  BY <1>1, <1>2 DEF WithTodo
<1>4. v.next = p.next /\ v.end = p.end /\ v.stk = p.stk /\ v.todo = L /\ v.loaded = NoWord /\ p.todo = th.todo
  BY <1>1, <1>3
<1>5. PICK a \in Nat, b \in Nat : a = NodeStart(n.id, n.layer) /\ b = NodeEnd(n.id, n.layer)
  BY <1>1, NodeTypes
<1>6. L = [x \in {y \in a..(b - 1) : ~Skipped(c, y)} |->
              [i |-> Offset(c, x), val |-> LeafValue(c.pid, key, LeavesBelow(key, n)[x - a])]]
  BY <1>2, <1>5 DEF LeavesOf
<1>7. ASSUME NEW x \in DOMAIN L
      PROVE  L[x].val = Value(key, c.pid, x)
  <2>1. x \in a..(b - 1) /\ L[x].val = LeafValue(c.pid, key, LeavesBelow(key, n)[x - a])
    BY <1>6, <1>7
  <2>2. LeavesBelow(key, n)[x - a] = LeafOf(key, x)
    BY <1>1, <1>5, <2>1, LeavesFacts DEF RightNode
  <2> QED BY <2>1, <2>2 DEF Value
<1>8. RightThread(c, key, v)
  BY <1>1, <1>4, <1>7 DEF RightThread
<1>9. \A x \in Nat : Inside(n.id, n.layer, x) /\ ~Skipped(c, x) => x \in DOMAIN L
  <2>1. \A x \in Nat : a <= x /\ x < b => x \in a..(b - 1)
    BY <1>5
  <2> QED BY <1>5, <1>6, <2>1 DEF Inside
<1>10. \A x \in Nat : Pending(c, p, x) => Pending(c, v, x)
  BY <1>1, <1>4 DEF Pending
<1>11. \A x \in DOMAIN L : Pending(c, v, x)
  BY <1>4 DEF Pending
<1> QED BY <1>1, <1>8, <1>9, <1>10, <1>11 DEF KeepsLeaves

\* A stack on which child d of a node may have been pushed, and then both.
WithChild(c, key, n, s, d) == s \o Pushed(c, key, n, d)
WithChildren(c, key, n, s) == s \o Pushed(c, key, n, 1) \o Pushed(c, key, n, 0)

LEMMA PushedChild ==
    ASSUME NEW c, NEW key, KeyOK(key), NEW s, IsSeq(s), NEW n, RightNode(key, n),
           n.id \in Nat, n.layer \in 0..(EllIn - 1), NEW d \in Dir,
           \A node \in NodesOn(s) : RightNode(key, node),
           NEW r, r = WithChild(c, key, n, s, d)
    PROVE  /\ IsSeq(r) /\ NodesOn(s) \subseteq NodesOn(r)
           /\ \A node \in NodesOn(r) : RightNode(key, node)
           /\ Overlaps(c, 2 * n.id + d, n.layer + 1) =>
                  \E node \in NodesOn(r) : node.id = 2 * n.id + d /\ node.layer = n.layer + 1
<1>1. PICK x : x = ChildOf(key, n, d)
  OBVIOUS
<1>2. /\ x.st = Child(key.prg, key.cws[n.layer], n.st, d)
      /\ x.id = 2 * n.id + d /\ x.layer = n.layer + 1
  BY <1>1 DEF ChildOf
<1>3. RightNode(key, x)
  BY <1>2, NodeChild DEF RightNode
<1>4. Pushed(c, key, n, d) = IF Overlaps(c, x.id, x.layer) THEN <<x>> ELSE <<>>
  BY <1>1 DEF Pushed
<1>5. CASE Overlaps(c, x.id, x.layer)
  <2>1. r = s \o <<x>>
    BY <1>4, <1>5 DEF WithChild
  <2>2. IsSeq(r) /\ NodesOn(r) = NodesOn(s) \cup {x}
    <3>1. IsSeq(s \o <<x>>) /\ NodesOn(s \o <<x>>) = NodesOn(s) \cup {x}
      BY PushedNodes
    <3> QED BY <2>1, <3>1, Zenon
  <2> QED BY <1>2, <1>3, <2>2
<1>6. CASE ~Overlaps(c, x.id, x.layer)
  <2>1. r = s
    BY <1>4, <1>6, NotPushing DEF WithChild
  <2> QED BY <1>2, <1>6, <2>1
<1> QED BY <1>5, <1>6

LEMMA PushRight ==
    ASSUME NEW c, CallOK(c), NEW key, KeyOK(key), NEW th, NEW n, NEW p, Taken(c, key, th, n, p),
           n.layer \in 0..(EllIn - 1), NEW v, v = WithStack(p, WithChildren(c, key, n, p.stk))
    PROVE  RightThread(c, key, v) /\ KeepsLeaves(c, th, v)
<1>1. /\ n.id \in Nat /\ n.layer \in 0..EllIn /\ RightNode(key, n)
      /\ p = [next |-> p.next, end |-> th.end, stk |-> p.stk, todo |-> th.todo, loaded |-> NoWord]
      /\ IsSeq(p.stk) /\ DOMAIN th.todo = {} /\ \A node \in NodesOn(p.stk) : RightNode(key, node)
      /\ \A x \in Nat : Pending(c, th, x) => Pending(c, p, x) \/ Inside(n.id, n.layer, x)
  BY DEF Taken
<1>2. n.layer + 1 \in 0..EllIn
  BY HalfWidth
<1>3. 0 \in Dir /\ 1 \in Dir
  BY DEF Dir
<1>4. PICK r, s : r = WithChild(c, key, n, p.stk, 1) /\ s = WithChild(c, key, n, r, 0)
  OBVIOUS
<1>5. /\ IsSeq(r) /\ NodesOn(p.stk) \subseteq NodesOn(r)
      /\ \A node \in NodesOn(r) : RightNode(key, node)
      /\ Overlaps(c, 2 * n.id + 1, n.layer + 1) =>
             \E node \in NodesOn(r) : node.id = 2 * n.id + 1 /\ node.layer = n.layer + 1
  BY <1>1, <1>2, <1>3, <1>4, PushedChild
<1>6. /\ NodesOn(r) \subseteq NodesOn(s)
      /\ \A node \in NodesOn(s) : RightNode(key, node)
      /\ Overlaps(c, 2 * n.id + 0, n.layer + 1) =>
             \E node \in NodesOn(s) : node.id = 2 * n.id + 0 /\ node.layer = n.layer + 1
  BY <1>1, <1>2, <1>3, <1>4, <1>5, PushedChild
<1>7. v = [next |-> p.next, end |-> th.end, stk |-> s, todo |-> th.todo, loaded |-> NoWord]
  <2>1. v = WithStack(p, s)
    BY <1>4, Zenon DEF WithChild, WithChildren
  <2> QED BY <1>1, <2>1 DEF WithStack
<1>8. v.next = p.next /\ v.end = p.end /\ v.stk = s /\ v.todo = th.todo /\ v.loaded = NoWord /\ p.todo = th.todo
  BY <1>1, <1>7
<1>9. RightThread(c, key, v)
  BY <1>1, <1>6, <1>8 DEF RightThread
<1>10. \A x \in Nat : Pending(c, p, x) => Pending(c, v, x)
  BY <1>5, <1>6, <1>8 DEF Pending
<1>11. ASSUME NEW x \in Nat, Inside(n.id, n.layer, x), ~Skipped(c, x)
       PROVE  Pending(c, v, x)
  <2>1. \E d \in Dir : Inside(2 * n.id + d, n.layer + 1, x)
    <3>1. Inside(2 * n.id, n.layer + 1, x) \/ Inside(2 * n.id + 1, n.layer + 1, x)
      BY <1>1, <1>2, <1>11, InsideChild
    <3>2. 2 * n.id + 0 = 2 * n.id
      BY <1>1
    <3> QED BY <1>3, <3>1, <3>2
  <2>2. PICK d \in Dir : Inside(2 * n.id + d, n.layer + 1, x)
    BY <2>1
  <2>3. 2 * n.id + d \in Nat
    BY <1>1 DEF Dir
  <2>4. Overlaps(c, 2 * n.id + d, n.layer + 1)
    BY <1>2, <1>11, <2>2, <2>3, PruningIsSafe DEF CallOK
  <2>5. d = 0 \/ d = 1
    BY DEF Dir
  <2>6. \E node \in NodesOn(s) : node.id = 2 * n.id + d /\ node.layer = n.layer + 1
    BY <1>5, <1>6, <2>4, <2>5
  <2> QED BY <1>8, <2>2, <2>6 DEF Pending
<1> QED BY <1>1, <1>9, <1>10, <1>11 DEF KeepsLeaves

-----------------------------------------------------------------------------
\* The work of a running evaluation: c is its call, key its key, ts its tasks, ths its
\* threads, b its buffer and f tells whether it will throw.

\* The value at leaf x has been written.
Right(c, key, b, x) == b[Offset(c, x)][Offset(c, x)] = Value(key, c.pid, x)

Cells(c, b) == DOMAIN b = 0..(c.n - 1) /\ \A i \in 0..(c.n - 1) : DOMAIN b[i] = {i}

\* Every leaf of the range has been written, or a thread has still to write it.
NothingLost(c, key, ths, b) ==
    \A x \in 0..(VEC_LEN - 1) :
        Skipped(c, x) \/ Right(c, key, b, x) \/ \E t \in DOMAIN ths : Pending(c, ths[t], x)

Work(c, key, ts, ths, b, f) ==
    /\ CallOK(c) /\ RightTasks(c, key, ts) /\ Cells(c, b)
    /\ \A t \in DOMAIN ths : RightThread(c, key, ths[t])
    /\ f \/ NothingLost(c, key, ths, b)

LEMMA OneWorker ==
    ASSUME NEW c, NEW key, NEW ts, NEW ths, NEW b, NEW f, Work(c, key, ts, ths, b, f),
           NEW t \in DOMAIN ths, NEW v, RightThread(c, key, v), KeepsLeaves(c, ths[t], v),
           NEW next, next = [ths EXCEPT ![t] = v]
    PROVE  Work(c, key, ts, next, b, f)
<1>1. DOMAIN next = DOMAIN ths /\ next[t] = v /\ \A u \in DOMAIN ths : u # t => next[u] = ths[u]
  OBVIOUS
<1>2. \A u \in DOMAIN next : RightThread(c, key, next[u])
  BY <1>1 DEF Work
<1>3. ASSUME NothingLost(c, key, ths, b) PROVE NothingLost(c, key, next, b)
  <2>1. \A x \in 0..(VEC_LEN - 1) : x \in Nat
    <3>1. VEC_LEN \in Nat
      BY Power, EvalAssumption DEF VEC_LEN
    <3> HIDE DEF VEC_LEN
    <3> QED BY <3>1
  <2>2. ASSUME NEW x \in 0..(VEC_LEN - 1), ~Skipped(c, x), NEW u \in DOMAIN ths, Pending(c, ths[u], x)
        PROVE  \E w \in DOMAIN next : Pending(c, next[w], x)
    <3>1. CASE u = t
      <4>1. Pending(c, v, x)
        BY <2>1, <2>2, <3>1 DEF KeepsLeaves
      <4> QED BY <1>1, <4>1
    <3>2. CASE u # t
      BY <1>1, <2>2, <3>2
    <3> QED BY <3>1, <3>2
  <2> QED BY <1>3, <2>2 DEF NothingLost
<1> QED BY <1>2, <1>3 DEF Work

LEMMA VisitWorks ==
    ASSUME IInv, NEW t \in DOMAIN thread, Visit(t), KeyOK(keys[call.pid]),
           Work(call, keys[call.pid], tasks, thread, buf, failed)
    PROVE  Work(call, keys[call.pid], tasks, thread', buf, failed)
<1> DEFINE v0(th, n, p, key) ==
               IF Pruned(call, n.id, n.layer) THEN p
               ELSE IF EllIn - n.layer <= Bfs THEN WithTodo(p, LeavesOf(call, key, n))
               ELSE WithStack(p, WithChildren(call, key, n, p.stk))
<1>1. PICK th, n, p, key : th = thread[t] /\ n = NodeTaken(th) /\ p = Popped(th) /\ key = keys[call.pid]
  OBVIOUS
<1>2. PICK v : v = v0(th, n, p, key)
  OBVIOUS
<1>3. Written(th) /\ (th.stk # <<>> \/ th.next < th.end) /\ thread' = [thread EXCEPT ![t] = v]
  BY <1>1, <1>2, Zenon DEF Visit, WithTodo, WithStack, WithChildren
<1>4. CallOK(call) /\ ThreadOK(call, t, th)
  BY <1>1 DEF IInv
<1>5. RightTasks(call, key, tasks) /\ RightThread(call, key, th) /\ KeyOK(key)
  BY <1>1 DEF Work
<1>6. Taken(call, key, th, n, p)
  BY <1>1, <1>3, <1>4, <1>5, TakenFacts
<1>7. CASE Pruned(call, n.id, n.layer)
  <2>1. v = p
    BY <1>2, <1>7
  <2>2. RightThread(call, key, v) /\ KeepsLeaves(call, th, v)
    BY <1>4, <1>6, <1>7, <2>1, PrunedRight
  <2> QED BY <1>1, <1>3, <2>2, OneWorker
<1>8. CASE ~Pruned(call, n.id, n.layer) /\ EllIn - n.layer <= Bfs
  <2>1. v = WithTodo(p, LeavesOf(call, key, n))
    BY <1>2, <1>8
  <2>2. RightThread(call, key, v) /\ KeepsLeaves(call, th, v)
    BY <1>4, <1>5, <1>6, <2>1, LeavesRight
  <2> QED BY <1>1, <1>3, <2>2, OneWorker
<1>9. CASE ~Pruned(call, n.id, n.layer) /\ ~(EllIn - n.layer <= Bfs)
  <2>1. v = WithStack(p, WithChildren(call, key, n, p.stk))
    BY <1>2, <1>9
  <2>2. n.layer \in 0..(EllIn - 1)
    <3>1. EllIn \in Nat /\ Bfs \in Nat
      BY <1>4, Bounds
    <3>2. n.layer \in 0..EllIn
      BY <1>6 DEF Taken
    <3> QED BY <1>9, <3>1, <3>2
  <2>3. RightThread(call, key, v) /\ KeepsLeaves(call, th, v)
    BY <1>4, <1>5, <1>6, <2>1, <2>2, PushRight
  <2> QED BY <1>1, <1>3, <2>3, OneWorker
<1> QED BY <1>7, <1>8, <1>9

LEMMA LoadWorks ==
    ASSUME IInv, NEW t \in DOMAIN thread, Load(t),
           Work(call, keys[call.pid], tasks, thread, buf, failed)
    PROVE  Work(call, keys[call.pid], tasks, thread', buf, failed')
<1>1. PICK th, key : th = thread[t] /\ key = keys[call.pid]
  OBVIOUS
<1>2. CallOK(call) /\ ThreadOK(call, t, th)
  BY <1>1 DEF IInv
<1>3. PICK i : i = th.todo[NextLeaf(th)].i
  OBVIOUS
<1>4. ~Written(th) /\ i \in 0..(call.n - 1)
  BY <1>1, <1>2, <1>3, NextWrite DEF Load
<1>5. call.n \in Int
  BY <1>2, OffsetInverse DEF CallOK
<1>6. i < call.n
  BY <1>4, <1>5
<1>7. PICK v : v = [th EXCEPT !.loaded = buf[i]]
  OBVIOUS
<1>8. thread' = [thread EXCEPT ![t] = v] /\ (failed' <=> failed)
  <2>1. thread' = [thread EXCEPT ![t] = v]
    BY <1>1, <1>3, <1>6, <1>7 DEF Load, CellOf
  <2>2. failed' = (failed \/ i >= call.n)
    BY <1>1, <1>3, Zenon DEF Load
  <2>3. ~(i >= call.n)
    BY <1>4, <1>5
  <2>4. failed' <=> failed
    BY <2>2, <2>3, Zenon
  <2> QED BY <2>1, <2>4
<1>9. v = [next |-> th.next, end |-> th.end, stk |-> th.stk, todo |-> th.todo, loaded |-> buf[i]]
  BY <1>2, <1>7 DEF ThreadOK
<1>10. v.next = th.next /\ v.end = th.end /\ v.stk = th.stk /\ v.todo = th.todo /\ v.loaded = buf[i]
  BY <1>9
<1>11. DOMAIN buf[i] = {i} /\ RightThread(call, key, th)
  BY <1>1, <1>4 DEF Work, Cells
<1>12. NextLeaf(v) = NextLeaf(th) /\ ~Written(v)
  BY <1>4, <1>10 DEF NextLeaf, Written
<1>13. RightThread(call, key, v)
  BY <1>3, <1>10, <1>11, <1>12 DEF RightThread
<1>14. KeepsLeaves(call, th, v)
  BY <1>10 DEF KeepsLeaves, Pending
<1>15. Work(call, key, tasks, thread', buf, failed)
  BY <1>1, <1>8, <1>13, <1>14, OneWorker
<1> QED BY <1>1, <1>8, <1>15 DEF Work

LEMMA StoreWorks ==
    ASSUME IInv, NEW t \in DOMAIN thread, Store(t),
           Work(call, keys[call.pid], tasks, thread, buf, failed)
    PROVE  Work(call, keys[call.pid], tasks, thread', buf', failed)
<1>1. PICK th, key, y : th = thread[t] /\ key = keys[call.pid] /\ y = NextLeaf(th)
  OBVIOUS
<1>2. CallOK(call) /\ ThreadOK(call, t, th) /\ ~Written(th) /\ th.loaded # NoWord
  BY <1>1 DEF IInv, Store
<1>3. PICK i : i = th.todo[y].i
  OBVIOUS
<1>4. /\ y \in DOMAIN th.todo /\ y \in 0..(VEC_LEN - 1) /\ ~Skipped(call, y)
      /\ i = Offset(call, y) /\ i \in 0..(call.n - 1)
  BY <1>1, <1>2, <1>3, NextWrite
<1>5. /\ RightThread(call, key, th) /\ Cells(call, buf)
      /\ th.todo[y].val = Value(key, call.pid, y) /\ DOMAIN th.loaded = {i}
  BY <1>1, <1>2, <1>3, <1>4 DEF Work, RightThread
<1>6. PICK w, d : w = [th.loaded EXCEPT ![i] = th.todo[y].val] /\ d = [x \in DOMAIN th.todo \ {y} |-> th.todo[x]]
  OBVIOUS
<1>7. DOMAIN w = {i} /\ w[i] = Value(key, call.pid, y)
  BY <1>5, <1>6
<1>8. buf' = [buf EXCEPT ![i] = w]
  BY <1>1, <1>3, <1>6 DEF Store, CellOf
<1>9. PICK v : v = [[th EXCEPT !.todo = d] EXCEPT !.loaded = NoWord]
  OBVIOUS
<1>10. thread' = [thread EXCEPT ![t] = v]
  BY <1>1, <1>6, <1>9 DEF Store
<1>11. v.next = th.next /\ v.end = th.end /\ v.stk = th.stk /\ v.todo = d /\ v.loaded = NoWord
  <2>1. PICK f1, f2, f3, f4, f5 :
            /\ th = [next |-> f1, end |-> f2, stk |-> f3, todo |-> f4, loaded |-> f5]
            /\ f1 = th.next /\ f2 = th.end /\ f3 = th.stk
    BY <1>2 DEF ThreadOK
  <2>2. [th EXCEPT !.todo = d] = [next |-> f1, end |-> f2, stk |-> f3, todo |-> d, loaded |-> f5]
    BY <2>1
  <2>3. [[next |-> f1, end |-> f2, stk |-> f3, todo |-> d, loaded |-> f5] EXCEPT !.loaded = NoWord]
            = [next |-> f1, end |-> f2, stk |-> f3, todo |-> d, loaded |-> NoWord]
    OBVIOUS
  <2>4. v = [next |-> f1, end |-> f2, stk |-> f3, todo |-> d, loaded |-> NoWord]
    BY <1>9, <2>2, <2>3, Zenon
  <2> QED BY <2>1, <2>4
<1>12. DOMAIN d = DOMAIN th.todo \ {y} /\ \A x \in DOMAIN d : d[x] = th.todo[x]
  BY <1>6
<1>13. RightThread(call, key, v)
  BY <1>5, <1>11, <1>12 DEF RightThread
<1>14. Cells(call, buf') /\ buf'[i] = w /\ \A j \in 0..(call.n - 1) : j # i => buf'[j] = buf[j]
  BY <1>4, <1>5, <1>7, <1>8 DEF Cells
<1>15. DOMAIN thread' = DOMAIN thread /\ thread'[t] = v /\ \A u \in DOMAIN thread : u # t => thread'[u] = thread[u]
  BY <1>10
<1>16. \A u \in DOMAIN thread' : RightThread(call, key, thread'[u])
  BY <1>1, <1>13, <1>15 DEF Work
<1>17. Right(call, key, buf', y)
  BY <1>4, <1>7, <1>14 DEF Right
<1>18. ASSUME NEW x \in 0..(VEC_LEN - 1), ~Skipped(call, x), x # y, Right(call, key, buf, x)
       PROVE  Right(call, key, buf', x)
  <2>1. Offset(call, x) # i /\ Offset(call, x) \in 0..(call.n - 1)
    BY <1>2, <1>4, <1>18, Places DEF CallOK
  <2> QED BY <1>14, <1>18, <2>1 DEF Right
<1>19. ASSUME NEW x \in 0..(VEC_LEN - 1), x # y, NEW u \in DOMAIN thread, Pending(call, thread[u], x)
       PROVE  \E z \in DOMAIN thread' : Pending(call, thread'[z], x)
  <2>1. CASE u = t
    <3>1. Pending(call, v, x)
      BY <1>1, <1>11, <1>12, <1>19, <2>1 DEF Pending
    <3> QED BY <1>15, <3>1
  <2>2. CASE u # t
    BY <1>15, <1>19, <2>2
  <2> QED BY <2>1, <2>2
<1>20. NothingLost(call, key, thread, buf) => NothingLost(call, key, thread', buf')
  BY <1>17, <1>18, <1>19 DEF NothingLost
<1> QED BY <1>1, <1>14, <1>16, <1>20 DEF Work

-----------------------------------------------------------------------------
\* The threads that are created share all tasks, and so all leaves.

LEMMA CountOfTasks ==
    ASSUME NEW cores \in CoreCounts
    PROVE  /\ cores \in Nat \ {0} /\ TotalTasks(cores) \in Nat \ {0}
           /\ TasksPerThread(cores) \in Nat \ {0} /\ TasksPerThread(cores) * cores \in Nat
           /\ TotalTasks(cores) <= TasksPerThread(cores) * cores
<1>1. PICK T \in Nat \ {0} : T = TotalTasks(cores)
  BY CoresFacts
<1>2. PICK p \in Nat \ {0} : p = cores
  BY EvalAssumption
<1>3. PICK m \in Nat, r \in Nat : m = TasksPerThread(cores) /\ T + p - 1 = p * m + r /\ r < p
  <2>1. T + p - 1 \in Nat
    BY <1>1, <1>2
  <2> QED BY <1>1, <1>2, <2>1, Division DEF TasksPerThread
<1>4. m # 0
  <2> SUFFICES ASSUME m = 0 PROVE FALSE
    OBVIOUS
  <2>1. p * m = 0
    BY <1>2
  <2> QED BY <1>1, <1>2, <1>3, <2>1
<1>5. p * m = m * p /\ p * m \in Nat
  BY <1>2, <1>3, Z3
<1>6. T <= m * p
  BY <1>1, <1>2, <1>3, <1>5
<1> QED BY <1>1, <1>2, <1>3, <1>4, <1>5, <1>6

\* The task of a leaf.
LEMMA TaskOfLeaf ==
    ASSUME NEW cores \in CoreCounts, NEW x \in 0..(VEC_LEN - 1)
    PROVE  \E j \in 0..(TotalTasks(cores) - 1) :
               NodeStart(j, SplitCoff(cores)) <= x /\ x < NodeStart(j + 1, SplitCoff(cores))
<1>1. PICK S \in 0..EllIn : S = SplitCoff(cores)
  BY CoresFacts
<1>2. PICK p \in Nat \ {0} : p = 2^(EllIn - S)
  BY Power, EvalAssumption, EllIn - S \in 0..31
<1>3. PICK T \in Nat \ {0}, V \in Nat \ {0} : T = TotalTasks(cores) /\ V = VEC_LEN /\ NodeStart(T, S) = V
  BY <1>1, CoresFacts
<1>4. V = T * p
  BY <1>2, <1>3 DEF NodeStart
<1>5. x \in Nat /\ x < V
  BY <1>3
<1>6. PICK j \in Nat, r \in Nat : x = p * j + r /\ r < p
  BY <1>2, <1>5, Division
<1>7. p * j = j * p /\ j * p \in Nat /\ (j + 1) * p = j * p + p /\ T * p = p * T
  BY <1>2, <1>3, <1>6, Z3
<1>8. j < T
  <2>1. ASSUME T <= j PROVE FALSE
    <3>1. p * T <= p * j
      BY <1>2, <1>3, <1>6, <2>1, TimesMonotonic
    <3> QED BY <1>4, <1>5, <1>6, <1>7, <3>1
  <2> QED BY <1>3, <1>6, <2>1
<1>9. NodeStart(j, S) <= x /\ x < NodeStart(j + 1, S)
  BY <1>2, <1>6, <1>7 DEF NodeStart
<1>10. j \in 0..(T - 1)
  BY <1>3, <1>6, <1>8
<1> QED BY <1>1, <1>3, <1>9, <1>10

LEMMA CountOfThreads ==
    ASSUME NEW c, c.cores \in CoreCounts
    PROVE  IsFiniteSet(ThreadsOf(c)) /\ Cardinality(ThreadsOf(c)) \in Nat
<1>1. PICK p \in Nat : p = c.cores
  BY CountOfTasks
<1>2. IsFiniteSet(1..p)
  BY <1>1, FS_Interval, 1 \in Int, p \in Int
<1>3. ThreadsOf(c) \in SUBSET (1..p)
  BY <1>1 DEF ThreadsOf
<1>4. IsFiniteSet(ThreadsOf(c))
  BY <1>2, <1>3, FS_Subset
<1> QED BY <1>4, FS_CardinalityType

\* The thread of a task.
LEMMA ThreadOfTask ==
    ASSUME NEW c, c.cores \in CoreCounts, NEW j \in 0..(TotalTasks(c.cores) - 1)
    PROVE  \E t \in 1..Cardinality(ThreadsOf(c)) :
               /\ (t - 1) * TasksPerThread(c.cores) <= j
               /\ j < Least(t * TasksPerThread(c.cores), TotalTasks(c.cores))
               /\ (t - 1) * TasksPerThread(c.cores) \in Nat
<1>1. PICK T, m, p : T = TotalTasks(c.cores) /\ m = TasksPerThread(c.cores) /\ p = c.cores
  OBVIOUS
<1>2. T \in Nat \ {0} /\ m \in Nat \ {0} /\ p \in Nat \ {0} /\ m * p \in Nat /\ T <= m * p /\ j \in Nat /\ j < T
  BY <1>1, CountOfTasks
<1>3. PICK q \in Nat, r \in Nat : j = m * q + r /\ r < m
  BY <1>2, Division
<1>4. m * q = q * m /\ q * m \in Nat /\ (q + 1) * m = q * m + m
  BY <1>2, <1>3, Z3
<1>5. q < p
  <2>1. ASSUME p <= q PROVE FALSE
    <3>1. m * p <= m * q
      BY <1>2, <1>3, <2>1, TimesMonotonic
    <3> QED BY <1>2, <1>3, <1>4, <3>1
  <2> QED BY <1>2, <1>3, <2>1
<1>6. PICK t \in 1..p : t = q + 1 /\ t - 1 = q
  BY <1>2, <1>3, <1>5
<1>7. (t - 1) * m = q * m /\ t * m = (q + 1) * m
  BY <1>6
<1>8. (t - 1) * m <= j /\ j < Least(t * m, T) /\ (t - 1) * m \in Nat
  BY <1>2, <1>3, <1>4, <1>7 DEF Least
<1>9. 1..t \in SUBSET ThreadsOf(c)
  <2> SUFFICES ASSUME NEW u \in 1..t PROVE u \in 1..p /\ (u - 1) * m < T
    BY <1>1 DEF ThreadsOf
  <2>1. u \in 1..p /\ u - 1 \in Nat /\ u - 1 <= q
    BY <1>2, <1>6
  <2>2. m * (u - 1) <= m * q
    BY <1>2, <1>3, <2>1, TimesMonotonic
  <2>3. m * (u - 1) = (u - 1) * m /\ (u - 1) * m \in Nat
    BY <1>2, <2>1, Z3
  <2> QED BY <1>2, <1>3, <1>4, <2>1, <2>2, <2>3
<1>10. IsFiniteSet(ThreadsOf(c)) /\ Cardinality(ThreadsOf(c)) \in Nat
  BY CountOfThreads
<1>11. Cardinality(1..t) = t
  <2>1. t \in Nat \ {0} /\ t - 1 + 1 = t /\ ~(1 > t)
    BY <1>2, <1>6
  <2>2. Cardinality(1..t) = IF 1 > t THEN 0 ELSE t - 1 + 1
    BY <2>1, FS_Interval, 1 \in Int, t \in Int
  <2> QED BY <2>1, <2>2
<1>12. t \in 1..Cardinality(ThreadsOf(c))
  <2>1. Cardinality(1..t) <= Cardinality(ThreadsOf(c))
    BY <1>9, <1>10, FS_Subset
  <2> QED BY <1>2, <1>6, <1>10, <1>11, <2>1
<1> QED BY <1>1, <1>8, <1>12

LEMMA RunWorks ==
    ASSUME NEW c, CallOK(c), NEW key, KeyOK(key), key = keys[c.pid],
           NEW k \in 0..Cardinality(ThreadsOf(c)), Run(c, k),
           failed' = (k < Cardinality(ThreadsOf(c)))
    PROVE  Work(c, key, tasks', thread', buf', failed')
<1>1. PICK S, m, T : S = Depth(c) /\ m = TasksPerThread(c.cores) /\ T = TotalTasks(c.cores)
  OBVIOUS
<1>2. c.cores \in CoreCounts
  BY DEF CallOK
<1>3. S \in 0..EllIn /\ m \in Nat \ {0} /\ T \in Nat \ {0}
  BY <1>1, <1>2, CoresFacts, CountOfTasks DEF Depth
<1>4. RightTasks(c, key, tasks')
  <2>1. tasks' = Tasks(key, c.cores)
    BY DEF Run
  <2> QED BY <1>2, <2>1, TasksFacts DEF RightTasks, Depth
<1>5. Cells(c, buf')
  <2>1. buf' = [w \in {i : i \in 0..(c.n - 1)} |-> [i \in {j \in 0..(c.n - 1) : j = w} |-> 2^EllOut - 1]]
    BY Zenon DEF Run, CellOf
  <2>2. {i : i \in 0..(c.n - 1)} = 0..(c.n - 1)
    OBVIOUS
  <2>3. DOMAIN buf' = 0..(c.n - 1)
    BY <2>1, <2>2
  <2>4. ASSUME NEW i \in 0..(c.n - 1) PROVE DOMAIN buf'[i] = {i}
    <3>1. buf'[i] = [l \in {j \in 0..(c.n - 1) : j = i} |-> 2^EllOut - 1]
      BY <2>1, <2>2, <2>4
    <3> QED BY <2>4, <3>1
  <2> QED BY <2>3, <2>4 DEF Cells
<1> DEFINE first(u) == [next |-> (u - 1) * m, end |-> Least(u * m, T),
                        stk |-> <<>>, todo |-> <<>>, loaded |-> NoWord]
<1>6. thread' = [u \in 1..k |-> first(u)]
  BY <1>1 DEF Run
<1>7. \A u \in 1..k : RightThread(c, key, first(u))
  <2>1. NodesOn(<<>>) = {} /\ DOMAIN <<>> = {}
    BY DEF NodesOn
  <2> QED BY <2>1 DEF RightThread
<1>8. ASSUME k = Cardinality(ThreadsOf(c)), NEW x \in 0..(VEC_LEN - 1)
      PROVE  \E t \in 1..k : Pending(c, first(t), x)
  <2>1. PICK j \in 0..(T - 1) : NodeStart(j, S) <= x /\ x < NodeStart(j + 1, S)
    BY <1>1, <1>2, TaskOfLeaf DEF Depth
  <2>2. PICK t \in 1..k : (t - 1) * m <= j /\ j < Least(t * m, T) /\ (t - 1) * m \in Nat
    BY <1>1, <1>2, <1>8, ThreadOfTask
  <2>3. PICK a, b : a = (t - 1) * m /\ b = Least(t * m, T)
    OBVIOUS
  <2>4. j \in Nat /\ j + 1 \in Nat /\ a \in Nat /\ a <= j /\ b \in Nat /\ j + 1 <= b
    <3>1. t * m = (t - 1) * m + m
      BY <1>3, Z3
    <3>2. b \in Nat
      BY <1>3, <2>2, <2>3, <3>1 DEF Least
    <3> QED BY <1>3, <2>2, <2>3, <3>2
  <2>5. NodeStart(a, S) <= NodeStart(j, S) /\ NodeStart(j + 1, S) <= NodeStart(b, S)
    BY <1>3, <2>4, NodeOrder
  <2>6. /\ NodeStart(a, S) \in Nat /\ NodeStart(j, S) \in Nat
        /\ NodeStart(j + 1, S) \in Nat /\ NodeStart(b, S) \in Nat
    BY <1>3, <2>4, NodeTypes
  <2>7. x \in Int
    BY <2>1, x \in Int
  <2>8. NodeStart(a, S) <= x /\ x < NodeStart(b, S)
    BY <2>1, <2>5, <2>6, <2>7
  <2>9. first(t).next = a /\ first(t).end = b
    BY <2>3
  <2> HIDE DEF first
  <2>10. Pending(c, first(t), x)
    BY <1>1, <2>8, <2>9 DEF Pending
  <2> QED BY <2>10
<1> HIDE DEF first
<1>9. DOMAIN thread' = 1..k /\ \A u \in 1..k : thread'[u] = first(u)
  BY <1>6
<1>10. failed' \/ k = Cardinality(ThreadsOf(c))
  <2>1. PICK N \in Nat : N = Cardinality(ThreadsOf(c))
    BY <1>2, CountOfThreads
  <2>2. failed' = (k < N) /\ k \in 0..N
    BY <2>1
  <2>3. k < N \/ k = N
    BY <2>1, <2>2
  <2> QED BY <2>1, <2>2, <2>3, Zenon
<1>11. k = Cardinality(ThreadsOf(c)) => NothingLost(c, key, thread', buf')
  BY <1>8, <1>9 DEF NothingLost
<1> QED BY <1>4, <1>5, <1>7, <1>9, <1>10, <1>11 DEF Work

-----------------------------------------------------------------------------
\* The invariant of a session, from gen to the Dealer's reveal.

\* What Evaluator p has to send to the Dealer.
Shares(c, ks, p) == [i \in 0..(RangeLen(c) - 1) |-> Value(ks[p], p, (c.bg + i) % VEC_LEN)]

\* The Evaluators take turns: served are those that have sent their shares.
Turn(c, served) ==
    \/ c.state = "none" /\ served = {}
    \/ c.state = "running" /\ served = 0..(c.pid - 1)
    \/ c.state \in {"done", "threw"} /\ (served = 0..(c.pid - 1) \/ served = 0..c.pid)

Session ==
    /\ call = [pid |-> call.pid, bg |-> call.bg, ed |-> call.ed, n |-> call.n,
               cores |-> call.cores, state |-> call.state]
    /\ keys # <<>> => PointOK(point) /\ IsGen(keys, point)
    /\ call.state # "none" => /\ keys # <<>> /\ call.pid \in Pid
                              /\ call.bg \in 0..(VEC_LEN - 1) /\ call.ed \in 0..(VEC_LEN - 1)
    /\ Turn(call, DOMAIN sent)
    /\ got \subseteq DOMAIN sent

Results ==
    /\ call.state = "done" =>
           IF call.pid \in DOMAIN sent THEN buf = <<>> ELSE Contents = Shares(call, keys, call.pid)
    /\ \A p \in DOMAIN sent : sent[p] # Broken => sent[p] = Shares(call, keys, p)
    /\ revealed # Broken => DOMAIN sent = Pid
    /\ RevealIsPoint

Working == call.state = "running" => Work(call, keys[call.pid], tasks, thread, buf, failed)

EInv == IInv /\ Session /\ Results /\ Working

LEMMA KeysAreOK ==
    ASSUME Session, keys # <<>>, NEW p \in Pid
    PROVE  KeyOK(keys[p])
<1>1. PICK prg \in PrgKeys, roots \in Roots : keys = KeyPair(point.alpha, point.beta, prg, roots)
  BY DEF Session, IsGen
<1>2. PointOK(point)
  BY DEF Session
<1> QED BY <1>1, <1>2, GenFacts

\* The calls of the two Evaluators are not mixed.
LEMMA Turns ==
    ASSUME Session
    PROVE  /\ call.state = "running" => call.pid \notin DOMAIN sent
           /\ DOMAIN sent \subseteq Pid
           /\ DOMAIN sent = Pid => call.pid = 1 /\ call.state \in {"done", "threw"}
<1>1. CASE call.state = "none"
  <2>1. DOMAIN sent = {}
    BY <1>1 DEF Session, Turn
  <2>2. 0 \in Pid
    BY DEF Pid
  <2> QED BY <1>1, <2>1, <2>2
<1>2. CASE call.state # "none"
  <2>1. call.pid \in 0..1 /\ Turn(call, DOMAIN sent)
    BY <1>2 DEF Session, Pid
  <2>2. PICK D : D = DOMAIN sent
    OBVIOUS
  <2>3. CASE call.pid = 0
    <3>1. 0..(0 - 1) = {} /\ 0..0 = {0} /\ 0..1 = {0, 1}
      OBVIOUS
    <3>2. D = {} \/ (D = {0} /\ call.state # "running")
      BY <1>2, <2>1, <2>2, <2>3, <3>1 DEF Turn
    <3> QED BY <2>2, <2>3, <3>1, <3>2 DEF Pid
  <2>4. CASE call.pid = 1
    <3>1. 0..(1 - 1) = {0} /\ 0..1 = {0, 1}
      OBVIOUS
    <3>2. D = {0} \/ (D = {0, 1} /\ call.state \in {"done", "threw"})
      BY <1>2, <2>1, <2>2, <2>4, <3>1 DEF Turn
    <3> QED BY <2>2, <2>4, <3>1, <3>2 DEF Pid
  <2> QED BY <2>1, <2>3, <2>4
<1> QED BY <1>1, <1>2

\* When all threads have finished, every leaf of the range has been written.
LEMMA JoinExact ==
    ASSUME EInv, call.state = "running", \A t \in DOMAIN thread : Finished(thread[t]), ~failed
    PROVE  call.n = RangeLen(call) /\ Contents = Shares(call, keys, call.pid)
<1>1. PICK c, key : c = call /\ key = keys[call.pid]
  OBVIOUS
<1>2. CallOK(c) /\ NothingLost(c, key, thread, buf)
  BY <1>1 DEF EInv, Working, Work
<1>3. ASSUME NEW t \in DOMAIN thread, NEW x \in 0..(VEC_LEN - 1), Pending(c, thread[t], x)
      PROVE  FALSE
  <2>1. PICK th : th = thread[t]
    OBVIOUS
  <2>2. /\ DOMAIN th.todo = {} /\ th.stk = <<>> /\ th.next >= th.end
        /\ ThreadOK(c, t, th)
    BY <1>1, <2>1 DEF Finished, Written, EInv, IInv
  <2>3. NodesOn(th.stk) = {}
    BY <2>2 DEF NodesOn
  <2>4. Depth(c) \in 0..EllIn /\ th.end \in Nat /\ th.next \in Nat /\ th.end <= th.next
    <3>1. Depth(c) \in 0..EllIn /\ th.end \in Nat
      BY <1>2, <2>2, Bounds
    <3>2. th.next \in Nat
      BY <2>2 DEF ThreadOK
    <3> QED BY <2>2, <3>1, <3>2
  <2>5. NodeStart(th.end, Depth(c)) <= NodeStart(th.next, Depth(c))
    BY <2>4, NodeOrder
  <2>6. NodeStart(th.end, Depth(c)) \in Nat /\ NodeStart(th.next, Depth(c)) \in Nat
    BY <2>4, NodeTypes
  <2>7. x \in Int
    BY <1>3, x \in Int
  <2>8. NodeStart(th.next, Depth(c)) <= x /\ x < NodeStart(th.end, Depth(c))
    BY <1>3, <2>1, <2>2, <2>3 DEF Pending
  <2> QED BY <2>5, <2>6, <2>7, <2>8
<1>4. \A x \in 0..(VEC_LEN - 1) : ~Skipped(c, x) => Right(c, key, buf, x)
  BY <1>2, <1>3 DEF NothingLost
<1>5. ASSUME NEW i \in 0..(RangeLen(c) - 1)
      PROVE  buf[i][i] = Value(key, c.pid, (c.bg + i) % VEC_LEN)
  <2>1. PICK x : x = (c.bg + i) % VEC_LEN
    OBVIOUS
  <2>2. x \in 0..(VEC_LEN - 1) /\ ~Skipped(c, x) /\ Offset(c, x) = i
    BY <1>2, <2>1, OffsetInverse DEF CallOK
  <2> QED BY <1>4, <2>1, <2>2 DEF Right
<1>6. c.n = RangeLen(c)
  BY <1>2 DEF CallOK
<1>7. Contents = Shares(c, keys, c.pid)
  BY <1>1, <1>5, <1>6 DEF Contents, CellOf, Shares
<1> QED BY <1>1, <1>6, <1>7

LEMMA JoinExactStep ==
    ASSUME EInv, Join
    PROVE  Session' /\ Results' /\ Working'
<1>1. /\ call.state = "running" /\ \A t \in DOMAIN thread : Finished(thread[t])
      /\ call' = [call EXCEPT !.state = IF failed THEN "threw" ELSE "done"]
      /\ UNCHANGED <<point, keys, buf, sent, got, revealed>>
  BY DEF Join
<1>2. PICK s : s = IF failed THEN "threw" ELSE "done"
  OBVIOUS
<1>3. call' = [pid |-> call.pid, bg |-> call.bg, ed |-> call.ed, n |-> call.n,
               cores |-> call.cores, state |-> s]
  BY <1>1, <1>2 DEF EInv, Session
<1>4. /\ call'.pid = call.pid /\ call'.bg = call.bg /\ call'.ed = call.ed /\ call'.n = call.n
      /\ call'.cores = call.cores /\ call'.state = s /\ s \in {"threw", "done"}
  BY <1>2, <1>3
<1>5. Session'
  <2>1. Turn(call', DOMAIN sent')
    BY <1>1, <1>4 DEF EInv, Session, Turn
  <2>2. keys # <<>> /\ call.pid \in Pid /\ call.bg \in 0..(VEC_LEN - 1) /\ call.ed \in 0..(VEC_LEN - 1)
    BY <1>1 DEF EInv, Session
  <2>3. /\ keys # <<>> => PointOK(point) /\ IsGen(keys, point)
        /\ got \subseteq DOMAIN sent
    BY DEF EInv, Session
  <2> QED BY <1>1, <1>3, <1>4, <2>1, <2>2, <2>3 DEF Session
<1>6. RangeLen(call') = RangeLen(call)
  BY <1>4 DEF RangeLen, IsCircular
<1>7. \A p : Shares(call', keys', p) = Shares(call, keys, p)
  BY <1>1, <1>4, <1>6 DEF Shares
<1>8. Contents' = Contents
  BY <1>1, <1>4 DEF Contents
<1>9. call.pid \notin DOMAIN sent /\ revealed = Broken
  BY <1>1, Turns DEF EInv, Results
<1>10. Results'
  <2>1. call'.state = "done" => Contents' = Shares(call', keys', call'.pid)
    BY <1>1, <1>2, <1>4, <1>7, <1>8, JoinExact
  <2>2. \A p \in DOMAIN sent' : sent'[p] # Broken => sent'[p] = Shares(call', keys', p)
    BY <1>1, <1>7 DEF EInv, Results
  <2> QED BY <1>1, <1>4, <1>9, <2>1, <2>2 DEF Results, RevealIsPoint
<1>11. Working'
  BY <1>4 DEF Working
<1> QED BY <1>5, <1>10, <1>11

LEMMA GenerateExactStep ==
    ASSUME EInv, Generate
    PROVE  Session' /\ Results' /\ Working'
<1>1. PICK pt \in Points, prg \in PrgKeys, roots \in Roots :
          /\ pt[1] < VEC_LEN /\ point' = [alpha |-> pt[1], beta |-> pt[2]]
          /\ keys' = KeyPair(pt[1], pt[2], prg, roots)
  BY DEF Generate
<1>2. keys = <<>> /\ UNCHANGED <<call, sent, buf, got, revealed>>
  BY DEF Generate, eval
<1>3. pt[1] \in Nat /\ pt[2] \in Nat
  BY <1>1, EvalAssumption
<1>4. point'.alpha = pt[1] /\ point'.beta = pt[2]
  BY <1>1
<1>5. PointOK(point') /\ IsGen(keys', point')
  BY <1>1, <1>3, <1>4 DEF PointOK, IsGen
<1>6. call.state = "none" /\ DOMAIN sent = {}
  <2>1. call.state = "none"
    BY <1>2 DEF EInv, Session
  <2> QED BY <2>1 DEF EInv, Session, Turn
<1>7. revealed = Broken
  <2>1. 0 \in Pid
    BY DEF Pid
  <2> QED BY <1>6, <2>1 DEF EInv, Results
<1>8. Session'
  BY <1>2, <1>5, <1>6 DEF EInv, Session
<1>9. Results'
  BY <1>2, <1>6, <1>7 DEF Results, RevealIsPoint
<1>10. Working'
  BY <1>2, <1>6 DEF Working
<1> QED BY <1>8, <1>9, <1>10

\* An Evaluator that is called has not sent anything, and those before it have.
LEMMA IdleTurn ==
    ASSUME Session, NEW p \in Pid, Idle(p)
    PROVE  /\ keys # <<>> /\ DOMAIN sent = 0..(p - 1)
           /\ DOMAIN sent # {} => p = 1
<1>1. p \in 0..1 /\ p = Cardinality(DOMAIN sent) /\ p \in DOMAIN keys
  BY DEF Idle, Pid
<1>2. keys # <<>>
  <2>1. DOMAIN <<>> = {}
    OBVIOUS
  <2> QED BY <1>1, <2>1
<1>3. DOMAIN sent = 0..(p - 1)
  <2>1. CASE call.state = "none"
    <3>1. DOMAIN sent = {}
      BY <2>1 DEF Session, Turn
    <3>2. p = 0
      BY <1>1, <3>1, FS_EmptySet
    <3>3. 0..(0 - 1) = {}
      OBVIOUS
    <3> QED BY <3>1, <3>2, <3>3
  <2>2. CASE call.state # "none"
    <3>1. call.pid \in 0..1 /\ call.pid # p
      BY <2>2 DEF Idle, Session, Pid
    <3>2. DOMAIN sent = 0..(call.pid - 1) \/ DOMAIN sent = 0..call.pid
      BY <2>2 DEF Idle, Session, Turn
    <3>3. PICK q \in 0..1 : q = call.pid
      BY <3>1
    <3>4. Cardinality(0..(q - 1)) = q /\ Cardinality(0..q) = q + 1
      <4>1. q - 1 \in Int /\ q \in Int /\ 0 \in Int
        BY <3>3
      <4>2. Cardinality(0..(q - 1)) = IF 0 > q - 1 THEN 0 ELSE (q - 1) - 0 + 1
        BY <4>1, FS_Interval
      <4>3. Cardinality(0..q) = IF 0 > q THEN 0 ELSE q - 0 + 1
        BY <4>1, FS_Interval
      <4> QED BY <3>3, <4>2, <4>3
    <3>5. DOMAIN sent = 0..q /\ p = q + 1
      BY <1>1, <3>1, <3>2, <3>3, <3>4
    <3>6. p - 1 = q
      BY <3>3, <3>5
    <3> QED BY <3>5, <3>6
  <2> QED BY <2>1, <2>2
<1>4. DOMAIN sent # {} => p = 1
  <2>1. 0..(0 - 1) = {}
    OBVIOUS
  <2>2. p = 0 => DOMAIN sent = {}
    BY <1>3, <2>1
  <2> QED BY <1>1, <2>2
<1> QED BY <1>2, <1>3, <1>4

LEMMA CallExactStep ==
    ASSUME EInv, NEW p \in Pid, NEW bg \in 0..(VEC_LEN - 1), NEW ed \in 0..(VEC_LEN - 1), NEW n,
           NEW cores \in CoreCounts, Idle(p), Call(p, bg, ed, n, cores)
    PROVE  Session' /\ Results' /\ Working'
<1>1. PICK c : c = [pid |-> p, bg |-> bg, ed |-> ed, n |-> n, cores |-> cores, state |-> "running"]
  OBVIOUS
<1>2. PICK f : f = [pid |-> p, bg |-> bg, ed |-> ed, n |-> n, cores |-> cores, state |-> "threw"]
  OBVIOUS
<1>3. [c EXCEPT !.state = "threw"] = f
  BY <1>1, <1>2
<1>4. /\ c.pid = p /\ c.bg = bg /\ c.ed = ed /\ c.n = n /\ c.cores = cores /\ c.state = "running"
      /\ c = [pid |-> c.pid, bg |-> c.bg, ed |-> c.ed, n |-> c.n, cores |-> c.cores, state |-> c.state]
  BY <1>1
<1>5. /\ f.pid = p /\ f.bg = bg /\ f.ed = ed /\ f.n = n /\ f.cores = cores /\ f.state = "threw"
      /\ f = [pid |-> f.pid, bg |-> f.bg, ed |-> f.ed, n |-> f.n, cores |-> f.cores, state |-> f.state]
  BY <1>2
<1>6. /\ p = 1 => bg = call.bg /\ ed = call.ed
      /\ \/ call' = f
         \/ /\ n = RangeLen(c)
            /\ \E k \in 0..Cardinality(ThreadsOf(c)) :
                  Run(c, k) /\ failed' = (k < Cardinality(ThreadsOf(c)))
      /\ UNCHANGED <<point, keys, sent, got, revealed>>
  BY <1>1, <1>3, Zenon DEF Call
<1>7. call' = c \/ call' = f
  BY <1>6 DEF Run
<1>8. PICK s \in {"running", "threw"} :
          /\ call'.state = s /\ call'.pid = p /\ call'.bg = bg /\ call'.ed = ed
          /\ call' = [pid |-> call'.pid, bg |-> call'.bg, ed |-> call'.ed, n |-> call'.n,
                      cores |-> call'.cores, state |-> call'.state]
  BY <1>4, <1>5, <1>7
<1>9. keys # <<>> /\ DOMAIN sent = 0..(p - 1) /\ (DOMAIN sent # {} => p = 1)
  BY IdleTurn DEF EInv
<1>10. Session'
  <2>1. Turn(call', DOMAIN sent')
    BY <1>6, <1>8, <1>9 DEF Turn
  <2>2. PointOK(point) /\ IsGen(keys, point) /\ got \subseteq DOMAIN sent
    BY <1>9 DEF EInv, Session
  <2> QED BY <1>6, <1>8, <1>9, <2>1, <2>2 DEF Session
<1>11. Results'
  <2>1. ASSUME DOMAIN sent # {}, NEW q
        PROVE  Shares(call', keys', q) = Shares(call, keys, q)
    <3>1. call'.bg = call.bg /\ call'.ed = call.ed
      BY <1>6, <1>8, <1>9, <2>1
    <3>2. RangeLen(call') = RangeLen(call)
      BY <3>1 DEF RangeLen, IsCircular
    <3> QED BY <1>6, <3>1, <3>2 DEF Shares
  <2>2. \A q \in DOMAIN sent' : sent'[q] # Broken => sent'[q] = Shares(call', keys', q)
    BY <1>6, <2>1 DEF EInv, Results
  <2>3. revealed = Broken
    <3>1. p \notin 0..(p - 1)
      BY DEF Pid
    <3> QED BY <1>9, <3>1 DEF EInv, Results
  <2> QED BY <1>6, <1>8, <2>2, <2>3 DEF Results, RevealIsPoint
<1>12. Working'
  <2>1. CASE call' = f
    BY <1>5, <2>1 DEF Working
  <2>2. ASSUME n = RangeLen(c), NEW k \in 0..Cardinality(ThreadsOf(c)), Run(c, k),
               failed' = (k < Cardinality(ThreadsOf(c)))
        PROVE  Working'
    <3>1. CallOK(c)
      BY <1>4, <2>2 DEF CallOK
    <3>2. PICK key : key = keys[c.pid]
      OBVIOUS
    <3>3. KeyOK(key)
      BY <1>4, <1>9, <3>2, KeysAreOK DEF EInv
    <3>4. Work(c, key, tasks', thread', buf', failed')
      BY <2>2, <3>1, <3>2, <3>3, RunWorks
    <3>5. call' = c /\ keys' = keys
      BY <1>6, <2>2 DEF Run
    <3> QED BY <3>2, <3>4, <3>5 DEF Working
  <2> QED BY <1>6, <2>1, <2>2
<1> QED BY <1>10, <1>11, <1>12

LEMMA ThreadExactStep ==
    ASSUME EInv, NEW t \in DOMAIN thread, Visit(t) \/ Load(t) \/ Store(t)
    PROVE  Session' /\ Results' /\ Working'
<1>1. UNCHANGED <<point, keys, call, tasks, sent, got, revealed>>
  BY DEF Visit, Load, Store
<1>2. call.state = "running"
  BY DEF EInv, IInv
<1>3. Session'
  BY <1>1 DEF EInv, Session
<1>4. Results'
  BY <1>1, <1>2 DEF EInv, Results, Shares, RevealIsPoint
<1>5. Work(call, keys[call.pid], tasks, thread, buf, failed)
  BY <1>2 DEF EInv, Working
<1>6. KeyOK(keys[call.pid])
  BY <1>2, KeysAreOK DEF EInv, Session
<1>7. Work(call, keys[call.pid], tasks, thread', buf', failed')
  <2>1. CASE Visit(t)
    <3>1. UNCHANGED <<buf, failed>>
      BY <2>1 DEF Visit
    <3>2. Work(call, keys[call.pid], tasks, thread', buf, failed)
      BY <1>5, <1>6, <2>1, VisitWorks DEF EInv
    <3> QED BY <3>1, <3>2
  <2>2. CASE Load(t)
    <3>1. UNCHANGED buf
      BY <2>2 DEF Load
    <3>2. Work(call, keys[call.pid], tasks, thread', buf, failed')
      BY <1>5, <2>2, LoadWorks DEF EInv
    <3> QED BY <3>1, <3>2
  <2>3. CASE Store(t)
    <3>1. UNCHANGED failed
      BY <2>3 DEF Store
    <3>2. Work(call, keys[call.pid], tasks, thread', buf', failed)
      BY <1>5, <2>3, StoreWorks DEF EInv
    <3> QED BY <3>1, <3>2
  <2> QED BY <2>1, <2>2, <2>3
<1>8. Working'
  BY <1>1, <1>7 DEF Working
<1> QED BY <1>3, <1>4, <1>8

LEMMA RevealExactStep ==
    ASSUME EInv, Reveal
    PROVE  Session' /\ Results' /\ Working'
<1>1. /\ call.state \in {"done", "threw"} /\ call.pid \notin DOMAIN sent
      /\ UNCHANGED <<point, keys, call, got, revealed>> /\ buf' = <<>>
  BY DEF Reveal
<1>2. PICK w : w = IF call.state = "done" THEN Contents ELSE Broken
  OBVIOUS
<1>3. sent' = [p \in DOMAIN sent \cup {call.pid} |-> IF p # call.pid THEN sent[p] ELSE w]
  BY <1>2 DEF Reveal
<1>4. /\ DOMAIN sent' = DOMAIN sent \cup {call.pid} /\ sent'[call.pid] = w
      /\ \A p \in DOMAIN sent : p # call.pid => sent'[p] = sent[p]
  BY <1>3
<1>5. w # Broken => w = Shares(call, keys, call.pid)
  BY <1>1, <1>2 DEF EInv, Results
<1>6. call.pid \in 0..1 /\ Turn(call, DOMAIN sent)
  BY <1>1 DEF EInv, Session, Pid
<1>7. DOMAIN sent' = 0..call.pid
  <2>1. DOMAIN sent = 0..(call.pid - 1)
    <3>1. call.pid \in 0..call.pid
      BY <1>6
    <3> QED BY <1>1, <1>6, <3>1 DEF Turn
  <2>2. 0..call.pid = (0..(call.pid - 1)) \cup {call.pid}
    BY <1>6
  <2> QED BY <1>4, <2>1, <2>2
<1>8. Session'
  <2>1. Turn(call', DOMAIN sent')
    BY <1>1, <1>7 DEF Turn
  <2>2. got' \subseteq DOMAIN sent'
    BY <1>1, <1>4 DEF EInv, Session
  <2> QED BY <1>1, <2>1, <2>2 DEF EInv, Session
<1>9. revealed = Broken
  <2>1. call.pid \in Pid
    BY <1>6 DEF Pid
  <2> QED BY <1>1, <2>1 DEF EInv, Results
<1>10. Results'
  <2>1. \A p : Shares(call', keys', p) = Shares(call, keys, p)
    BY <1>1 DEF Shares
  <2>2. \A p \in DOMAIN sent' : sent'[p] # Broken => sent'[p] = Shares(call', keys', p)
    BY <1>4, <1>5, <2>1 DEF EInv, Results
  <2> QED BY <1>1, <1>4, <1>9, <2>2 DEF Results, RevealIsPoint
<1>11. Working'
  BY <1>1 DEF Working
<1> QED BY <1>8, <1>10, <1>11

LEMMA ReceiveExactStep ==
    ASSUME EInv, NEW p \in Pid, Receive(p)
    PROVE  Session' /\ Results' /\ Working'
<1>1. /\ got' = got \cup {p} /\ p \in DOMAIN sent
      /\ UNCHANGED <<point, keys, call, tasks, thread, buf, failed, sent, revealed>>
  BY DEF Receive, eval
<1>2. Session'
  BY <1>1 DEF EInv, Session
<1>3. Results'
  BY <1>1 DEF EInv, Results, Shares, Contents, RevealIsPoint
<1>4. Working'
  BY <1>1 DEF EInv, Working
<1> QED BY <1>2, <1>3, <1>4

LEMMA CombineExactStep ==
    ASSUME EInv, Combine
    PROVE  Session' /\ Results' /\ Working'
<1>1. /\ got = Pid /\ \A p \in Pid : sent[p] # Broken
      /\ UNCHANGED <<point, keys, call, tasks, thread, buf, failed, sent, got>>
      /\ revealed' = [i \in DOMAIN sent[0] |-> (sent[0][i] + sent[1][i]) % 2^EllOut]
  BY DEF Combine, eval
<1>2. DOMAIN sent = Pid /\ call.state \in {"done", "threw"}
  BY <1>1, Turns DEF EInv, Session
<1>3. /\ keys # <<>> /\ PointOK(point) /\ IsGen(keys, point)
      /\ call.bg \in 0..(VEC_LEN - 1) /\ call.ed \in 0..(VEC_LEN - 1)
  BY <1>2 DEF EInv, Session
<1>4. 0 \in Pid /\ 1 \in Pid
  BY DEF Pid
<1>5. sent[0] = Shares(call, keys, 0) /\ sent[1] = Shares(call, keys, 1)
  BY <1>1, <1>2, <1>4 DEF EInv, Results
<1>6. PICK N : N = RangeLen(call) - 1
  OBVIOUS
<1>7. /\ DOMAIN sent[0] = 0..N
      /\ \A i \in 0..N : /\ sent[0][i] = Value(keys[0], 0, (call.bg + i) % VEC_LEN)
                         /\ sent[1][i] = Value(keys[1], 1, (call.bg + i) % VEC_LEN)
  BY <1>5, <1>6 DEF Shares
<1>8. ASSUME NEW i \in 0..N
      PROVE  (sent[0][i] + sent[1][i]) % 2^EllOut =
                 IF (call.bg + i) % VEC_LEN = point.alpha THEN point.beta % 2^EllOut ELSE 0
  <2>1. PICK x : x = (call.bg + i) % VEC_LEN
    OBVIOUS
  <2>2. x \in 0..(VEC_LEN - 1)
    BY <1>3, <1>6, <2>1, OffsetInverse
  <2>3. (Value(keys[0], 0, x) + Value(keys[1], 1, x)) % 2^EllOut =
            IF x = point.alpha THEN point.beta % 2^EllOut ELSE 0
    BY <1>3, <2>2, ValuesAdd
  <2> QED BY <1>7, <2>1, <2>3
<1>9. revealed' = [i \in 0..N |-> IF (call.bg + i) % VEC_LEN = point.alpha THEN point.beta % 2^EllOut ELSE 0]
  BY <1>1, <1>7, <1>8
<1>10. RevealIsPoint'
  BY <1>1, <1>6, <1>9 DEF RevealIsPoint
<1>11. Session'
  BY <1>1 DEF EInv, Session
<1>12. Results'
  BY <1>1, <1>2, <1>10 DEF EInv, Results, Shares, Contents
<1>13. Working'
  BY <1>1 DEF EInv, Working
<1> QED BY <1>11, <1>12, <1>13

LEMMA ExactInit ==
    ASSUME FssInit
    PROVE  EInv
<1>1. /\ call = NoCall /\ keys = <<>> /\ sent = <<>> /\ got = {} /\ revealed = Broken
  BY DEF FssInit
<1>2. DOMAIN sent = {} /\ call.state = "none"
  BY <1>1 DEF NoCall
<1>3. Session
  BY <1>1, <1>2 DEF Session, Turn, NoCall
<1>4. Results
  BY <1>1, <1>2 DEF Results, RevealIsPoint
<1>5. Working
  BY <1>2 DEF Working
<1> QED BY <1>3, <1>4, <1>5, InvInit DEF EInv

LEMMA ExactStep ==
    ASSUME EInv, [FssNext]_fssvars
    PROVE  EInv'
<1>1. IInv'
  BY InvStep DEF EInv
<1>2. CASE RangeEval
  <2>1. PICK p \in Pid, w \in Ranges, n \in Sizes, cores \in CoreCounts :
            Idle(p) /\ Call(p, w[1], w[2], n, cores)
    BY <1>2 DEF RangeEval
  <2>2. w[1] \in 0..(VEC_LEN - 1) /\ w[2] \in 0..(VEC_LEN - 1)
    BY <2>1, EvalAssumption
  <2> QED BY <1>1, <2>1, <2>2, CallExactStep DEF EInv
<1>3. CASE FullEval
  <2>1. PICK p \in Pid, n \in Sizes, cores \in CoreCounts :
            Idle(p) /\ Call(p, 0, VEC_LEN - 1, n, cores)
    BY <1>3 DEF FullEval
  <2>2. 0 \in 0..(VEC_LEN - 1) /\ VEC_LEN - 1 \in 0..(VEC_LEN - 1)
    <3>1. VEC_LEN \in Nat \ {0}
      BY <2>1, CoresFacts
    <3> HIDE DEF VEC_LEN
    <3> QED BY <3>1
  <2> QED BY <1>1, <2>1, <2>2, CallExactStep DEF EInv
<1>4. CASE \E t \in DOMAIN thread : Visit(t) \/ Load(t) \/ Store(t)
  BY <1>1, <1>4, ThreadExactStep DEF EInv
<1>5. CASE Generate \/ Join \/ Reveal \/ Combine
  BY <1>1, <1>5, GenerateExactStep, JoinExactStep, RevealExactStep, CombineExactStep DEF EInv
<1>6. CASE \E p \in Pid : Receive(p)
  BY <1>1, <1>6, ReceiveExactStep DEF EInv
<1>7. CASE UNCHANGED fssvars
  <2>1. UNCHANGED <<point, keys, call, tasks, thread, buf, failed, sent, got, revealed>>
    BY <1>7 DEF fssvars
  <2>2. Session'
    BY <2>1 DEF EInv, Session
  <2>3. Results'
    BY <2>1 DEF EInv, Results, Shares, Contents, RevealIsPoint
  <2>4. Working'
    BY <2>1 DEF EInv, Working
  <2> QED BY <1>1, <2>2, <2>3, <2>4 DEF EInv
<1> QED BY <1>2, <1>3, <1>4, <1>5, <1>6, <1>7 DEF FssNext

LEMMA ExactRange ==
    ASSUME EInv
    PROVE  RangeIsExact
  BY DEF EInv, Results, RangeIsExact, Shares, Value

\* What fullEval or rangeEval returns is the value of the Evaluator's key at every index of
\* the range, in the order of the range: for every width, depth of the subtrees, number of
\* threads, key, pseudo-random function and interleaving, no leaf is lost where subtrees are
\* pruned, divided among threads or handed on by a stack, none is written to another's place,
\* and each comes from its own path.
THEOREM RangeAlwaysExact == FssSpec => []RangeIsExact
<1>1. FssInit => EInv
  BY ExactInit
<1>2. EInv /\ [FssNext]_fssvars => EInv'
  BY ExactStep
<1>3. EInv => RangeIsExact
  BY ExactRange
<1> QED BY <1>1, <1>2, <1>3, PTL DEF FssSpec

\* What the Dealer's reveal returns is beta, reduced to the output ring, at alpha and 0
\* elsewhere, for every point, every root and every pseudo-random function: the correction
\* words of gen make both trees equal off the path to alpha and their control bits different
\* on it.
THEOREM RevealAlwaysPoint == FssSpec => []RevealIsPoint
<1>1. FssInit => EInv
  BY ExactInit
<1>2. EInv /\ [FssNext]_fssvars => EInv'
  BY ExactStep
<1>3. EInv => RevealIsPoint
  BY DEF EInv, Results
<1> QED BY <1>1, <1>2, <1>3, PTL DEF FssSpec

=============================================================================
