---------------------------- MODULE MCProtocols ----------------------------
(***************************************************************************)
(* Small instances of the three specifications of multi-party computation  *)
(* for TLC: the replicated sharing (Aby3), the point functions (Dpf) and   *)
(* the QUERY that is put together from both and from Emp2 (Query).  They   *)
(* share no variable: the instance picks one, and the others stay as they  *)
(* are.                                                                    *)
(***************************************************************************)
EXTENDS Aby3, Dpf

CONSTANTS Parts,        \* which of the three to explore
          MCBloomSizes  \* the sizes of Bloom filters

VARIABLES
    part,
    bf_size, hf_num, element, root, coin, pos, mem, threw

queryvars == <<bf_size, hf_num, element, root, coin, pos, mem, threw>>

-----------------------------------------------------------------------------
\* Aby3: bits and the integers modulo 4, scalars and vectors of length 3, bytes of
\* 3 bits and blocks of 2 bytes.

MCWidth == [w \in Wire |-> IF w \in {"b", "bs"} THEN 1 ELSE 2]
MCSize == [w \in Wire |-> IF w \in {"bs", "xs", "ys"} THEN 1 ELSE 3]

\* b and x are vectors, bs, xs and ys are scalars.
Plain(b, x, c, y, z) == [w \in Wire |->
    CASE w = "b" -> b [] w = "x" -> x [] w = "v" -> <<0, 0, 0>>
      [] w = "bs" -> <<c>> [] w = "xs" -> <<y>> [] w = "ys" -> <<z>>]

MCInitialPlain == {Plain(<<1, 0, 1>>, <<3, 1, 2>>, 1, 3, 2), Plain(<<0, 1, 1>>, <<2, 2, 3>>, 0, 1, 3)}
MCInitialMask == [q \in 0..1 |-> 2 * q + 1]

R(op, a, b, o, vec) ==
    [op |-> op, a |-> a, b |-> b, o |-> o, vec |-> vec, by |-> 0, x |-> <<>>]
Share(by, x, o, vec) == [R("share", o, o, o, vec) EXCEPT !.by = by, !.x = x]
Conv(a, o, vec) == <<R("conv1", a, a, o, vec), R("conv2", a, a, o, vec)>>

MCCalls ==
    {<<Share(1, <<1>>, "bs", FALSE)>>, <<Share(0, <<2>>, "xs", FALSE)>>,
     <<Share(2, <<0, 1, 1>>, "b", TRUE)>>,
     <<R("reshare", "x", "x", "v", TRUE)>>,
     <<R("add", "x", "v", "v", TRUE)>>, <<R("sub", "xs", "ys", "xs", FALSE)>>,
     <<R("mul", "xs", "ys", "ys", FALSE)>>, <<R("mul", "bs", "bs", "bs", FALSE)>>,
     <<R("mul", "x", "x", "v", TRUE)>>,
     <<R("dot", "x", "v", "xs", FALSE)>>,
     Conv("bs", "ys", FALSE), Conv("b", "v", TRUE),
     <<R("reveal", "xs", "xs", "xs", FALSE)>>, <<R("reveal", "v", "v", "v", TRUE)>>}

\* A function without a pattern that the arithmetic could cancel by accident.
MCPrf(key, id) == {k \in 0..5 : ((key * 5 + id * 3 + k * 7 + key * id * k) \div 2) % 2 = 1}

-----------------------------------------------------------------------------
\* Dpf: a domain of eight indices, values modulo 4, blocks of three bits, subtrees
\* of two leaves, every range and every length.

Number(v) == MapThenSumSet(LAMBDA b : 2^b, v)
OfNumber(n) == {b \in 0..2 : (n \div 2^b) % 2 = 1}

\* Two pairs of functions without a pattern, not injective.
HashBox == [k \in 0..1, d \in 0..1, v \in SUBSET (0..2) |->
    OfNumber((Number(v) * Number(v) * (3 + k) + Number(v) * (5 + 2 * d) + 3 * d + k) \div 2)]
MCH(k, d, v) == HashBox[k, d, v]

MCRoots == {[p \in 0..1 |-> IF p = 0 THEN {0, 2} ELSE {1}]}
MCPoints == {<<0, 1>>, <<2, 2>>, <<5, 7>>}
MCRanges == (0..7) \X (0..7)

-----------------------------------------------------------------------------
\* Query: strings of bits, blocks of three.

MCElements == {<<1>>, <<0, 1>>, <<1, 1, 0>>, <<0, 1, 1, 1>>, <<1, 0, 0, 1, 1, 0>>}
MCSets == {{}, {<<1>>}, {<<0, 1, 1, 1>>, <<1, 1, 0>>}}
MCHashSeed == <<<<0, 1, 1>>, <<1, 0, 0>>, <<1, 1, 0>>>>

Num(b) == MapThenSumSet(LAMBDA i : b[i] * 2^(i - 1), DOMAIN b)
AesBox == [k \in 0..7, m \in 0..7 |->
    [i \in 1..3 |-> (((k * k + 3 * m + 5 * k * m + m * m * 2 + i * (k + m + 1)) \div i) % 2)]]
MCAes(key, m) == AesBox[Num(key), Num(m)]

Q == INSTANCE Query WITH
    BlockBytes <- 3, Aes <- MCAes, BloomSizes <- MCBloomSizes, HfNums <- {2, 3},
    HashSeed <- MCHashSeed, Elements <- MCElements, Sets <- MCSets, Coins <- {0, 1, 2, 5}

-----------------------------------------------------------------------------
\* A specification that is not explored has one initial state.

NoQuery ==
    /\ bf_size = 0 /\ hf_num = 1 /\ element = <<>> /\ root = <<>> /\ coin = 0
    /\ pos = [p \in Q!QParty |-> 1] /\ mem = <<>> /\ threw = FALSE

MCInit ==
    /\ part \in Parts
    /\ Init /\ (part = "sharing" \/ plain = <<CHOOSE env \in InitialPlain : TRUE>>)
    /\ FssInit
    /\ IF part = "query" THEN Q!QInit ELSE NoQuery

MCNext ==
    /\ UNCHANGED part
    /\ \/ part = "sharing" /\ Next /\ UNCHANGED <<fssvars, queryvars>>
       \/ part = "fss" /\ FssNext /\ UNCHANGED <<vars, queryvars>>
       \/ part = "query" /\ Q!QNext /\ UNCHANGED <<vars, fssvars>>

MCSpec == MCInit /\ [][MCNext]_<<part, vars, fssvars, queryvars>>

\* The properties of the instance, under names of their own.
AnswerIsMembership == part = "query" => Q!AnswerIsMembership
QueryIsNotStuck == part = "query" => Q!QueryIsNotStuck
QueryDoesNotThrow == part = "query" => Q!QueryDoesNotThrow

=============================================================================
