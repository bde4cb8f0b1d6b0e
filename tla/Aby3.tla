------------------------------- MODULE Aby3 -------------------------------
(***************************************************************************)
(* Replicated secret sharing among three parties                           *)
(* (include/ref_impl/shr_rep3/aby3.hpp): the shares, the arithmetic on     *)
(* them, and the correlated randomness that every party draws from its own *)
(* generator and that must cancel out over the three.                      *)
(*                                                                         *)
(* The parties make the same calls but run on their own: each is some      *)
(* rounds ahead of or behind the others.  A call is one round, except that *)
(* ringConv is two.  A round draws, computes, sends to PREV (Begin), and   *)
(* then receives from NEXT (Finish).  How bytes get through the channels   *)
(* is ReshareRing's subject; here they are unbounded queues of messages.   *)
(* A value is a vector; scalar operations use vectors of length one, and   *)
(* differ in how they draw.  The pseudo-random function is any function;   *)
(* a block is the set of its bits that are one.                            *)
(***************************************************************************)
EXTENDS Integers, Sequences

CONSTANTS
    Wire,       \* names of shared values
    Width,      \* the ring of each wire: ELL, or ELL_TO of a conversion
    Size,       \* the length of each wire
    Calls,      \* the calls that a program may consist of, as lists of rounds
    MaxRounds,  \* bound on the length of a program
    InitialPlain,  \* the values that wires may hold at the start
    InitialMask,   \* the shares that P0 and P1 hold of them
    Prf(_, _),  \* key and counter to block
    ByteBits, BlockBytes, Batch   \* 8, BLOCK_CAPACITY, counters per H<4>

Party == 0..2
PREV(p) == (p + 2) % 3
NEXT(p) == (p + 1) % 3
BlockBits == BlockBytes * ByteBits

ASSUME SizeAssumption ==
    ByteBits \in Nat \ {0} /\ BlockBytes \in Nat \ {0} /\ Batch \in Nat \ {0}

\* A round: the operation, its operands and output, whether it is one on vectors,
\* and for share who shares what.
Rounds ==
    [op : {"share", "reshare", "add", "sub", "mul", "dot", "conv1", "conv2", "reveal"},
     a : Wire, b : Wire, o : Wire, vec : BOOLEAN, by : Party, x : Seq(Int)]

Ring(w) == 0..(2^Width[w] - 1)
Vector(w) == [1..Size[w] -> Ring(w)]

\* The calls that compile and pass the checks of sizes and of ring elements: operands
\* of one ring and one length.  Scalar operations are about scalars.  ringConv, of at
\* least one bit, goes from bits to another ring.
SameType(v, w) == Width[v] = Width[w] /\ Size[v] = Size[w]
Legal(r) ==
    /\ ~r.vec => Size[r.o] = 1
    /\ r.op = "share" => r.x \in Vector(r.o)
    /\ r.op \in {"reshare", "add", "sub", "mul"} => SameType(r.a, r.o)
    /\ r.op \in {"add", "sub", "mul"} => SameType(r.b, r.o)
    /\ r.op = "dot" => SameType(r.a, r.b) /\ Width[r.o] = Width[r.a] /\ Size[r.o] = 1
    /\ r.op \in {"conv1", "conv2"} =>
          Width[r.a] = 1 /\ Width[r.o] # 1 /\ Size[r.a] = Size[r.o] /\ Size[r.o] # 0
IsCall(call) ==
    /\ call \in Seq(Rounds) /\ \A i \in DOMAIN call : Legal(call[i])
    /\ \/ Len(call) = 1 /\ call[1].op \notin {"conv1", "conv2"}
       \/ Len(call) = 2 /\ call[1].op = "conv1" /\ call[2] = [call[1] EXCEPT !.op = "conv2"]

ASSUME ProgramAssumption ==
    /\ Width \in [Wire -> 1..8] /\ Size \in [Wire -> Nat]
    /\ \A call \in Calls : IsCall(call)
    /\ \A env \in InitialPlain : DOMAIN env = Wire /\ \A w \in Wire : env[w] \in Vector(w)
    /\ InitialMask \in [0..1 -> Int]

VARIABLES
    script,     \* the rounds of the program that some party has begun
    plain,      \* history: the values of the wires after each round
    at,         \* rounds that each party has finished
    waiting,    \* parties between the two steps of a round
    mine,       \* what a waiting party has sent, its thisShare of the round
    share,      \* the shares of each party
    out,        \* what its last revealAll returned
    gen,        \* its generator
    spent,      \* history: the pseudo-random units it has drawn
    chan        \* messages under way

vars == <<script, plain, at, waiting, mine, share, out, gen, spent, chan>>

-----------------------------------------------------------------------------
\* crng.  cached is the counter of the block in crngCache_, whose contents follow
\* from it and from crngIsXor_.  A unit is a bit or a byte of a block.

\* The constructor leaves the cache exhausted, so that the first draw refills it.
FreshGenerator == [id |-> 0, ptr |-> BlockBits, isXor |-> FALSE, cached |-> 0]

CeilDiv(n, m) == (n + m - 1) \div m
UnitBits(w) == IF w = 1 THEN 1 ELSE ByteBits

\* Mutant of Stale: a change between bits and bytes keeps the cache.
Exhausted(g, w) == g.ptr >= BlockBits

Stale(g, w) == g.ptr >= BlockBits \/ g.isXor # (w = 1)

\* refillCrngCache
Refilled(g, w) ==
    IF Stale(g, w) THEN [id |-> g.id + 1, ptr |-> 0, isXor |-> (w = 1), cached |-> g.id] ELSE g

ScalarDraw(g, w) ==
    LET h == Refilled(g, w)
    IN  [units |-> <<<<h.cached, w = 1, h.ptr \div UnitBits(w)>>>>,
         gen |-> [h EXCEPT !.ptr = @ + UnitBits(w)]]

\* Whole batches of counters are used up, and the cache counts as exhausted.
VectorDraw(g, w, n) ==
    LET perBlock == BlockBits \div UnitBits(w)
    IN  [units |-> [i \in 1..n |-> <<g.id + (i - 1) \div perBlock, w = 1, (i - 1) % perBlock>>],
         gen |-> [g EXCEPT !.id = @ + Batch * CeilDiv(CeilDiv(n, perBlock), Batch),
                           !.ptr = BlockBits]]

Draw(g, w, n, vec) == IF vec THEN VectorDraw(g, w, n) ELSE ScalarDraw(g, w)

Total(v) ==
    LET sum[n \in 0..Len(v)] == IF n = 0 THEN 0 ELSE sum[n - 1] + v[n]
    IN  sum[Len(v)]

ByteAt(block, from, bits) ==
    Total([k \in 1..bits |-> IF from + k - 1 \in block THEN 2^(k - 1) ELSE 0])

\* The unit of the block of party p's own key, and of the key it received from
\* PREV when both were constructed.
Unit(key, u) == ByteAt(Prf(key, u[1]), u[3] * UnitBits(IF u[2] THEN 1 ELSE 2),
                       UnitBits(IF u[2] THEN 1 ELSE 2))
Correlated(p, u, w) ==
    IF u[2] THEN (Unit(p, u) + Unit(PREV(p), u)) % 2 ELSE (Unit(p, u) - Unit(PREV(p), u)) % 2^w

-----------------------------------------------------------------------------
\* What party p, whose shares are s, contributes to a round before its mask, and what
\* it keeps.

Zeros(n) == [i \in 1..n |-> 0]
Mod(v, w) == [i \in DOMAIN v |-> v[i] % 2^w]

\* Mutant of Product: the term of the two next shares, which is PREV's to add.
ProductOfSums(a, b, i) == (a.this[i] + a.nxt[i]) * (b.this[i] + b.nxt[i])

Product(a, b, i) == a.this[i] * b.this[i] + a.this[i] * b.nxt[i] + a.nxt[i] * b.this[i]

\* The length of a round's output, and whether it hides its contribution.
Length(r) == Size[r.o]
Local == {"add", "sub"}

\* Mutant of Masked: P0 has nothing to contribute to the second round of ringConv
\* and draws nothing.
MaskedIfNeeded(p, r) == r.op # "reshare" /\ ~(r.op = "conv2" /\ p = 0)

Masked(p, r) == r.op # "reshare"

\* The second round of ringConv multiplies by the last bit, which P1 and P2 hold.
LastBit(s, p, r, i) ==
    IF p = 0 THEN 0
    ELSE IF p = 1 THEN s[r.o].this[i] * s[r.a].nxt[i]
    ELSE (s[r.o].this[i] + s[r.o].nxt[i]) * s[r.a].this[i]

Contribution(s, p, r) ==
    CASE r.op = "share" -> IF p = r.by THEN r.x ELSE Zeros(Length(r))
      [] r.op = "reshare" -> s[r.a].this
      [] r.op = "mul" -> [i \in 1..Length(r) |-> Product(s[r.a], s[r.b], i)]
      [] r.op = "dot" -> <<Total([i \in 1..Size[r.a] |-> Product(s[r.a], s[r.b], i)])>>
      [] r.op = "conv1" ->
             [i \in 1..Length(r) |-> IF p = 0 THEN s[r.a].this[i] * s[r.a].nxt[i] ELSE 0]
      [] r.op = "conv2" -> [i \in 1..Length(r) |-> LastBit(s, p, r, i)]

\* What a party sends in a round, when its generator is g.
Sent(s, p, r, g) ==
    LET units == Draw(g, Width[r.o], Length(r), r.vec).units
    IN  Mod([i \in 1..Length(r) |->
               Contribution(s, p, r)[i]
               + IF Masked(p, r) THEN Correlated(p, units[i], Width[r.o]) ELSE 0], Width[r.o])

\* ringConv adds the shares of its bits one by one: P0 holds b0 and b1, P1 holds b1
\* and b2, P2 holds b2 and b0.  x + y - 2xy is the exclusive or of two bits.
KeepOf(s, p, r, m, received) ==
    LET n == Length(r)
        w == Width[r.o]
    IN  CASE r.op = "conv1" ->
               [this |-> Mod([i \in 1..n |-> (IF p = 2 THEN 0 ELSE s[r.a].this[i]) - 2 * m[i]], w),
                nxt |-> Mod([i \in 1..n |-> (IF p = 1 THEN 0 ELSE s[r.a].nxt[i])
                                            - 2 * received[i]], w)]
          [] r.op = "conv2" ->
               [this |-> Mod([i \in 1..n |-> (s[r.o].this[i] + IF p = 2 THEN s[r.a].this[i] ELSE 0)
                                             - 2 * m[i]], w),
                nxt |-> Mod([i \in 1..n |-> (s[r.o].nxt[i] + IF p = 1 THEN s[r.a].nxt[i] ELSE 0)
                                            - 2 * received[i]], w)]
          [] OTHER -> [this |-> m, nxt |-> received]

\* The sum or difference of two vectors.
Combined(r, u, v) ==
    Mod([i \in 1..Length(r) |-> IF r.op = "add" THEN u[i] + v[i] ELSE u[i] - v[i]], Width[r.o])

\* What the wires mean after a round.
Meaning(env, r) ==
    LET mod == 2^Width[r.o]
    IN  CASE r.op = "share" -> [env EXCEPT ![r.o] = r.x]
          [] r.op = "reveal" -> env
          [] r.op \in {"reshare", "conv1", "conv2"} -> [env EXCEPT ![r.o] = env[r.a]]
          [] r.op \in Local -> [env EXCEPT ![r.o] = Combined(r, env[r.a], env[r.b])]
          [] r.op = "mul" ->
               [env EXCEPT ![r.o] = [i \in 1..Length(r) |-> (env[r.a][i] * env[r.b][i]) % mod]]
          [] r.op = "dot" ->
               [env EXCEPT ![r.o] =
                   <<Total([i \in 1..Size[r.a] |-> env[r.a][i] * env[r.b][i]]) % mod>>]

-----------------------------------------------------------------------------
\* The program: the first party to begin a round decides what it is.

\* hadamard refuses to write over its inputs, before it does anything.
Refused(r) == r.vec /\ r.op = "mul" /\ r.o \in {r.a, r.b}

Choose(call) ==
    /\ \A r \in {call[i] : i \in 1..Len(call)} : ~Refused(r)
    /\ Len(script) + Len(call) <= MaxRounds
    /\ script' = script \o call
    /\ plain' = LET env == plain[Len(plain)]
                IN  plain \o [i \in 1..Len(call) |-> Meaning(env, call[i])]

Extend ==
    /\ \E p \in Party : at[p] = Len(script) /\ p \notin waiting
    /\ \E call \in Calls : Choose(call)
    /\ UNCHANGED <<at, waiting, mine, share, out, gen, spent, chan>>

Round(p) == script[at[p] + 1]
Ready(p) == p \notin waiting /\ at[p] < Len(script)

Post(c, p, q, m) == [c EXCEPT ![<<p, q>>] = Append(@, m)]
Arrived(p, q) == chan[<<q, p>>] # <<>>
Taken(c, p, q) == [c EXCEPT ![<<q, p>>] = Tail(@)]

DoLocal(p) ==
    LET r == Round(p)
        a == share[p][r.a]
        b == share[p][r.b]
    IN  /\ Ready(p) /\ r.op \in Local
        /\ share' = [share EXCEPT ![p][r.o] = [this |-> Combined(r, a.this, b.this),
                                               nxt |-> Combined(r, a.nxt, b.nxt)]]
        /\ at' = [at EXCEPT ![p] = @ + 1]
        /\ UNCHANGED <<script, plain, waiting, mine, out, gen, spent, chan>>

\* The draw of a round by party p: its mask, and the generator after it.
DrawOf(p, r) == Draw(gen[p], Width[r.o], Length(r), r.vec)

Begin(p) ==
    LET r == Round(p)
        m == Sent(share[p], p, r, gen[p])
        d == DrawOf(p, r)
    IN  /\ Ready(p) /\ r.op \notin Local \cup {"reveal"}
        /\ mine' = [mine EXCEPT ![p] = m]
        /\ chan' = Post(chan, p, PREV(p), m)
        /\ waiting' = waiting \cup {p}
        /\ IF Masked(p, r)
           THEN /\ gen' = [gen EXCEPT ![p] = d.gen]
                /\ spent' = [spent EXCEPT ![p] = @ \cup {d.units[i] : i \in 1..Length(r)}]
           ELSE UNCHANGED <<gen, spent>>
        /\ UNCHANGED <<script, plain, at, share, out>>

EndRound(p) ==
    /\ at' = [at EXCEPT ![p] = @ + 1]
    /\ waiting' = waiting \ {p}
    /\ UNCHANGED <<script, plain, gen, spent, mine>>

Finish(p) ==
    LET r == Round(p)
    IN  /\ p \in waiting /\ r.op # "reveal"
        /\ Arrived(p, NEXT(p))
        /\ share' = [share EXCEPT ![p][r.o] = KeepOf(share[p], p, r, mine[p], Head(chan[<<NEXT(p), p>>]))]
        /\ chan' = Taken(chan, p, NEXT(p))
        /\ EndRound(p)
        /\ UNCHANGED out

-----------------------------------------------------------------------------
\* revealAll: P1 sends P0 the share it lacks, P0 opens and tells the others.

\* Mutant of Lacking: P1 sends the share that P0 has.
NotLacking(s, w) == s[w].this

Lacking(s, w) == s[w].nxt

BeginReveal(p) ==
    /\ Ready(p) /\ Round(p).op = "reveal"
    /\ waiting' = waiting \cup {p}
    /\ chan' = IF p = 1 THEN Post(chan, 1, 0, Lacking(share[1], Round(p).a)) ELSE chan
    /\ UNCHANGED <<script, plain, at, mine, share, out, gen, spent>>

Opened(s, w, missing) ==
    Mod([i \in 1..Size[w] |-> s[w].this[i] + s[w].nxt[i] + missing[i]], Width[w])

FinishReveal(p) ==
    LET from == IF p = 0 THEN 1 ELSE 0
        got == Head(chan[<<from, p>>])
        result == IF p = 0 THEN Opened(share[0], Round(p).a, got) ELSE got
        rest == Taken(chan, p, from)
    IN  /\ p \in waiting /\ Round(p).op = "reveal"
        /\ Arrived(p, from)
        /\ out' = [out EXCEPT ![p] = result]
        /\ chan' = IF p = 0 THEN Post(Post(rest, 0, 1, result), 0, 2, result) ELSE rest
        /\ EndRound(p)
        /\ UNCHANGED share

-----------------------------------------------------------------------------
\* Shares s0, s1 and what is missing to the value.
SharesOf(env, w, p) ==
    LET s(q) == [i \in 1..Size[w] |->
                    (IF q = 2 THEN env[w][i] - InitialMask[0] - InitialMask[1]
                     ELSE InitialMask[q]) % 2^Width[w]]
    IN  [this |-> s(p), nxt |-> s(NEXT(p))]

Init ==
    /\ script = <<>>
    /\ \E env \in InitialPlain :
           /\ plain = <<env>>
           /\ share = [p \in Party |-> [w \in Wire |-> SharesOf(env, w, p)]]
    /\ at = [p \in Party |-> 0]
    /\ waiting = {}
    /\ mine = [p \in Party |-> <<>>]
    /\ out = [p \in Party |-> <<>>]
    /\ gen = [p \in Party |-> FreshGenerator]
    /\ spent = [p \in Party |-> {}]
    /\ chan = [l \in Party \X Party |-> <<>>]

Next ==
    \/ Extend
    \/ \E p \in Party :
           DoLocal(p) \/ Begin(p) \/ Finish(p) \/ BeginReveal(p) \/ FinishReveal(p)

Spec == Init /\ [][Next]_vars

-----------------------------------------------------------------------------
\* Properties

\* All three have finished k rounds, and round k was not the first half of a call.
Together(k) ==
    /\ waiting = {} /\ \A p \in Party : at[p] = k
    /\ k = 0 \/ script[k].op # "conv1"

\* Whenever the parties have finished the same calls, every wire is consistently
\* replicated and opens to the value that plain arithmetic gives it: the masks that
\* the three drew, each on its own and at its own time, cancel out.
SharesOpen ==
    \A k \in 0..Len(script) : Together(k) =>
        \A w \in Wire :
            /\ \A p \in Party : share[p][w].nxt = share[NEXT(p)][w].this
            /\ Mod([i \in 1..Size[w] |->
                      share[0][w].this[i] + share[1][w].this[i] + share[2][w].this[i]], Width[w])
               = plain[k + 1][w]

\* A party that finished a revealAll has the plaintext, however far the others are.
RevealIsPlain ==
    \A p \in Party :
        p \notin waiting /\ at[p] > 0 /\ script[at[p]].op = "reveal" =>
            out[p] = plain[at[p]][script[at[p]].a]

Begun(p) == at[p] + IF p \in waiting THEN 1 ELSE 0

\* Parties that have begun the same rounds have generators in the same state: no
\* call moves one of the three further than the others.
InStep ==
    \A p, q \in Party : Begun(p) = Begun(q) => gen[p] = gen[q] /\ spent[p] = spent[q]

\* No draw uses a unit of the pseudo-random function twice, or a counter both as bits
\* and as bytes.
FreshMasks ==
    [][\A p \in Party :
         gen'[p] # gen[p] =>
            LET d == DrawOf(p, Round(p)).units
            IN  \A i \in DOMAIN d :
                   /\ d[i] \notin spent[p]
                   /\ \A j \in DOMAIN d : d[i] = d[j] => i = j
                   /\ \A u \in spent[p] : u[1] = d[i][1] => u[2] = d[i][2]]_vars

=============================================================================
