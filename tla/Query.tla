------------------------------- MODULE Query -------------------------------
(***************************************************************************)
(* A QUERY: the Querier (src/mpmt/querier.py) and the three Agents         *)
(* (response_query of src/mpmt/agent_server.py) find out whether an        *)
(* element's bits are all set in the aggregated Bloom filter.  The module  *)
(* composes the two-party operations of Emp2 with the point functions,     *)
(* whose shares add up as module Dpf shows, and the replicated sharing,    *)
(* whose dot product opens to the product as module Aby3 shows.            *)
(*                                                                         *)
(* Each party runs a fixed program of messages and joint operations.  Here *)
(* all of them are rendezvous: nothing is buffered.  The parties use a     *)
(* channel at one end only, so buffered channels bring about no message    *)
(* in another order, and no deadlock that a rendezvous does not have.      *)
(***************************************************************************)
EXTENDS Emp2

CONSTANTS
    BloomSizes,    \* the sizes that bf_param may return
    HfNums,        \* and the numbers of hash functions
    HashSeed,      \* hash_seed_list, at least as long
    Elements,      \* what may be queried
    Sets,          \* what the set holders may have joined
    Coins          \* seeds of the randomness

QParty == {"querier", "steward", "peer0", "peer1"}

VARIABLES
    bf_size, hf_num,
    element,       \* the queried element
    root,          \* the aggregated filter
    coin,          \* where the randomness of this run comes from
    pos,           \* how far each party is
    mem,           \* what the parties have computed so far
    threw          \* some party has thrown an exception

qvars == <<bf_size, hf_num, element, root, coin, pos, mem, threw>>

-----------------------------------------------------------------------------
\* bf_param

CeilLog2(n) == CHOOSE k \in 0..n : 2^k >= n /\ (k = 0 \/ 2^(k - 1) < n)
FloorLog2(n) == CHOOSE k \in 0..n : 2^k <= n /\ n < 2^(k + 1)

ell_add2 == CeilLog2(bf_size)

\* Mutant of ell_root: a ring without room for the count of all hash functions.
EllRootUp == CeilLog2(hf_num)

ell_root == FloorLog2(hf_num) + 1

\* gen_bf's index of an element under the h-th seed.
Index(e, h, size) == LocalHash(e, HashSeed[h], CeilLog2(size)) % size

\* Filters of the set holders, joined by OR.
FilterOf(set, size, num) ==
    [j \in 0..(size - 1) |-> IF \E e \in set, h \in 1..num : Index(e, h, size) = j THEN 1 ELSE 0]

-----------------------------------------------------------------------------
\* The programs.

ForEach(steps) == FlattenSeq([h \in 1..hf_num |-> [i \in DOMAIN steps |-> <<steps[i], h>>]])
Once(steps) == [i \in DOMAIN steps |-> <<steps[i], 0>>]

QuerierProgram ==
    Once(<<"session", "session0", "element">>)
    \o ForEach(<<"key", "hash", "mod", "idx0", "idx1">>)
    \o Once(<<"dr", "session2", "equal", "result">>)

StewardProgram ==
    Once(<<"session", "element">>) \o ForEach(<<"key", "hash", "mod">>)
    \o ForEach(<<"this0", "this1">>) \o ForEach(<<"fss0", "fss1">>)
    \o Once(<<"reshare", "dot", "session2", "equal", "result">>)

Peer0Program ==
    Once(<<"session0">>) \o ForEach(<<"idx0">>)
    \o ForEach(<<"this1", "this2">>) \o ForEach(<<"fss0">>) \o Once(<<"reshare", "dot">>)

\* Mutant of Peer1Ring: PEER1 sends first, as the other two do.
Peer1SendsFirst == ForEach(<<"this2", "this0">>)

\* _reshare_idx_share of PEER1 receives from NEXT before it sends to PREV.
Peer1Ring == ForEach(<<"this0", "this2">>)

Peer1Program ==
    ForEach(<<"idx1">>) \o Peer1Ring \o ForEach(<<"fss1">>) \o Once(<<"reshare", "dot", "dr">>)

Program(p) ==
    CASE p = "querier" -> QuerierProgram [] p = "steward" -> StewardProgram
      [] p = "peer0" -> Peer0Program [] p = "peer1" -> Peer1Program

\* Who takes part in a step.
Who(step) ==
    CASE step \in {"session", "element", "key", "hash", "mod", "session2", "equal", "result"} ->
           {"querier", "steward"}
      [] step \in {"session0", "idx0"} -> {"querier", "peer0"}
      [] step \in {"idx1", "dr"} -> {"querier", "peer1"}
      [] step = "this0" -> {"steward", "peer1"}
      [] step \in {"this1", "fss0"} -> {"peer0", "steward"}
      [] step = "this2" -> {"peer1", "peer0"}
      [] step = "fss1" -> {"steward", "peer1"}
      [] step \in {"reshare", "dot"} -> {"steward", "peer0", "peer1"}

Done(p) == pos[p] > Len(Program(p))

\* All who take part are at the step, and go on.
Meet(step, h) ==
    /\ ~threw
    /\ \A p \in Who(step) : ~Done(p) /\ Program(p)[pos[p]] = <<step, h>>
    /\ pos' = [p \in QParty |-> IF p \in Who(step) THEN pos[p] + 1 ELSE pos[p]]
    /\ UNCHANGED <<bf_size, hf_num, element, root, coin>>

\* The k-th random value.
Rand(k) == coin * (2 * k + 1) + k * k + (coin * k) \div 2
RandBytes(n, k) == [i \in 1..n |-> (Rand(k + i) \div 2) % 2]

QInit ==
    /\ bf_size \in BloomSizes /\ hf_num \in HfNums
    /\ element \in Elements
    /\ root \in {FilterOf(set, bf_size, hf_num) : set \in Sets}
    /\ coin \in Coins
    /\ pos = [p \in QParty |-> 1]
    /\ mem = [alpha |-> <<>>, bias |-> <<>>, part |-> <<>>]
    /\ threw = FALSE

-----------------------------------------------------------------------------
\* The steps.

Put(name, v) == mem' = [x \in DOMAIN mem \cup {name} |-> IF x = name THEN v ELSE mem[x]]

\* The constructor of ShrAdd2 at both ends: a seed, and the set-up of the session.
Session == \E s \in {"session", "session0", "session2"} : Meet(s, 0) /\ UNCHANGED <<mem, threw>>

ShareElement ==
    Meet("element", 0) /\ Put("element", SharedBytes(element, RandBytes(Len(element), 1))) /\ UNCHANGED threw

\* The Steward shares a seed: its own share is the second of the pair in a circuit.
ShareKey(h) ==
    /\ Meet("key", h)
    /\ LET s == SharedBytes(HashSeed[h], RandBytes(BlockBytes, 3 * h)) IN Put("key", <<s[2], s[1]>>)
    /\ UNCHANGED threw

HashShares(h) ==
    Meet("hash", h) /\ Put("hash", Hash(mem.element, mem.key, Rand(5 * h), ell_add2)) /\ UNCHANGED threw

\* A modulus outside the ring makes both parties throw.
ModShares(h) ==
    /\ Meet("mod", h)
    /\ IF ModThrows(bf_size, ell_add2) THEN threw' = TRUE /\ UNCHANGED mem
       ELSE LET idx == Mod(mem.hash, bf_size, Rand(7 * h), ell_add2)
            IN  /\ mem' = [x \in DOMAIN mem \cup {"idx"} |->
                      CASE x = "idx" -> idx
                        [] x = "part" -> Append(mem.part, [steward |-> idx[2], peer0 |-> 0, peer1 |-> 0])
                        [] OTHER -> mem[x]]
                /\ UNCHANGED threw

\* The Querier shares its part again among PEER0, with share_scalar, and PEER1, to
\* which it sends its own share of that.
SendIdx0(h) ==
    /\ Meet("idx0", h)
    /\ mem' = [mem EXCEPT !.part[h].peer0 = Shared(mem.idx[1], Rand(9 * h), ell_add2)[2],
                          !.part[h].peer1 = Shared(mem.idx[1], Rand(9 * h), ell_add2)[1]]
    /\ UNCHANGED threw
SendIdx1(h) == Meet("idx1", h) /\ UNCHANGED <<mem, threw>>

\* _reshare_idx_share: what the Steward learns gives the blinded index, what the
\* peers learn gives them the bias.
RingStep(h) ==
    \/ Meet("this0", h) /\ UNCHANGED <<mem, threw>>
    \/ /\ Meet("this1", h)
       /\ mem' = [mem EXCEPT !.alpha = Append(@, (mem.part[h].steward + mem.part[h].peer0) % 2^ell_add2)]
       /\ UNCHANGED threw
    \/ Meet("this2", h) /\ mem' = [mem EXCEPT !.bias = Append(@, mem.part[h].peer1)] /\ UNCHANGED threw

\* gen with beta = 1 and send_key, first to Evaluator 0, which is PEER0.
SendKeys(h) == (Meet("fss0", h) \/ Meet("fss1", h)) /\ UNCHANGED <<mem, threw>>

\* eval_range over the indices that the bias moves to 0 .. bf_size - 1, summed over
\* the hash functions, and the reshare of the sum.  eval_range throws if the range
\* has not the length of the buffer.
Bg(h) == (0 - mem.bias[h]) % 2^ell_add2
Ed(h) == (((Bg(h) + bf_size) % 2^ell_add2) - 1) % 2^ell_add2
EvalReshare ==
    /\ Meet("reshare", 0)
    /\ IF \E h \in 1..hf_num : ((Ed(h) - Bg(h)) % 2^ell_add2) + 1 # bf_size
       THEN threw' = TRUE /\ UNCHANGED mem
       ELSE /\ Put("query", [j \in 0..(bf_size - 1) |->
                    Cardinality({h \in 1..hf_num : mem.alpha[h] = (Bg(h) + j) % 2^ell_add2}) % 2^ell_root])
            /\ UNCHANGED threw

\* dot with the root; the Steward holds two of the three shares of the result.
Dot ==
    /\ Meet("dot", 0)
    /\ Put("dr", Shared(MapThenSumSet(LAMBDA j : mem.query[j] * root[j], DOMAIN root), Rand(11), ell_root))
    /\ UNCHANGED threw

SendDr == Meet("dr", 0) /\ UNCHANGED <<mem, threw>>

Equality ==
    /\ Meet("equal", 0)
    /\ Put("qr", EqualityTest(mem.dr, <<0, hf_num % 2^ell_root>>, Rand(13), ell_root))
    /\ UNCHANGED threw

Result == Meet("result", 0) /\ Put("answer", Opened(mem.qr, ell_root)) /\ UNCHANGED threw

QNext ==
    \/ Session \/ ShareElement \/ EvalReshare \/ Dot \/ SendDr \/ Equality \/ Result
    \/ \E h \in 1..hf_num :
          \/ ShareKey(h) \/ HashShares(h) \/ ModShares(h) \/ SendIdx0(h) \/ SendIdx1(h)
          \/ RingStep(h) \/ SendKeys(h)

QSpec == QInit /\ [][QNext]_qvars

-----------------------------------------------------------------------------
\* The answer is 1 if all bits of the element are set in the aggregated filter, as
\* gen_bf sets them, and else 0: for a member always 1.
AnswerIsMembership ==
    "answer" \in DOMAIN mem =>
        mem.answer = IF \A h \in 1..hf_num : root[Index(element, h, bf_size)] = 1 THEN 1 ELSE 0

\* The parties never wait for each other in a circle: unless one threw, somebody
\* can go on until all have finished.
QueryIsNotStuck ==
    threw \/ (\A p \in QParty : Done(p))
    \/ \E p \in QParty : ~Done(p) /\
          \A q \in Who(Program(p)[pos[p]][1]) : ~Done(q) /\ Program(q)[pos[q]] = Program(p)[pos[p]]

\* With the sizes that bf_param returns nobody throws.
QueryDoesNotThrow == ~threw

=============================================================================
