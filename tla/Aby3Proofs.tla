----------------------------- MODULE Aby3Proofs -----------------------------
(***************************************************************************)
(* Proofs about Aby3, for every program, interleaving of the parties,      *)
(* block size, batch and pseudo-random function.  No party uses a unit of  *)
(* the pseudo-random function twice; parties that have made the same calls *)
(* have generators in the same state; the shares of every wire open to     *)
(* what plain arithmetic makes of it, and revealAll returns it.            *)
(*                                                                         *)
(* The last three rest on a history: what the rounds of the program make,  *)
(* one after the other, of one generator and of the shares of all three.   *)
(* Every party is at a point of it, and what is in the channels is what    *)
(* its rounds send.                                                        *)
(***************************************************************************)
EXTENDS Aby3, NumberLemmas, SequenceTheorems, TLAPS

-----------------------------------------------------------------------------
\* Generators

Generators == [id : Nat, ptr : Nat, isXor : BOOLEAN, cached : Nat]
Units == Nat \X BOOLEAN \X Nat

\* What a generator g remembers of the units s it has handed out.  All come from
\* counters below its own; of the block in the cache only units of the kind it is
\* read as, and only those in front of its position.
Remembers(g, s) ==
    /\ g \in Generators /\ s \subseteq Units
    /\ \A u \in s : u[1] < g.id
    /\ g.ptr < BlockBits =>
          /\ g.cached < g.id
          /\ \A u \in s : u[1] = g.cached =>
                /\ u[2] = g.isXor
                /\ (u[3] + 1) * (IF g.isXor THEN 1 ELSE ByteBits) <= g.ptr

-----------------------------------------------------------------------------
\* Units and counters

\* Bytes and bits divide blocks without a rest.
LEMMA UnitsPerBlock ==
    ASSUME NEW w
    PROVE  UnitBits(w) \in Nat \ {0} /\ BlockBits \div UnitBits(w) \in Nat \ {0} /\ BlockBits \in Nat
<1>1. BlockBytes * ByteBits \in Nat /\ ByteBits * BlockBytes = BlockBytes * ByteBits
  BY SizeAssumption, Z3
<1>2. BlockBytes * ByteBits >= 1
  BY SizeAssumption, <1>1, TimesMonotonic, BlockBytes * 1 <= BlockBytes * ByteBits
<1>3. UnitBits(w) \in Nat \ {0} /\ \E q \in Nat \ {0} : UnitBits(w) * q <= BlockBits
  <2>1. CASE w = 1
    BY <2>1, <1>1, <1>2, 1 * BlockBits <= BlockBits DEF UnitBits, BlockBits
  <2>2. CASE w # 1
    BY <2>2, <1>1, SizeAssumption, ByteBits * BlockBytes <= BlockBits DEF UnitBits, BlockBits
  <2> QED BY <2>1, <2>2
<1>4. BlockBits \in Nat
  BY <1>1 DEF BlockBits
<1> QED BY <1>3, <1>4, Quotient, Division

\* A vector's counters are below those that its batches use up.
LEMMA BatchesCover ==
    ASSUME NEW n \in Nat, NEW m \in Nat \ {0}, NEW k \in 0..(n - 1)
    PROVE  /\ k \div m < Batch * CeilDiv(CeilDiv(n, m), Batch)
           /\ Batch * CeilDiv(CeilDiv(n, m), Batch) \in Nat
<1>1. \A a \in Nat, b \in Nat \ {0} : CeilDiv(a, b) \in Nat /\ a <= b * CeilDiv(a, b)
  <2> TAKE a \in Nat, b \in Nat \ {0}
  <2>1. a + b - 1 \in Nat
    OBVIOUS
  <2> QED BY <2>1, Division DEF CeilDiv
<1>2. k < m * CeilDiv(n, m) /\ CeilDiv(n, m) \in Nat
  BY <1>1
<1>3. k \div m < CeilDiv(n, m)
  BY <1>2, Quotient
<1>4. CeilDiv(CeilDiv(n, m), Batch) \in Nat /\ CeilDiv(n, m) <= Batch * CeilDiv(CeilDiv(n, m), Batch)
  BY <1>1, <1>2, SizeAssumption
<1>5. k \div m \in Nat
  BY Division
<1>6. Batch * CeilDiv(CeilDiv(n, m), Batch) \in Nat
  BY <1>4, SizeAssumption, Z3
<1> QED BY <1>2, <1>3, <1>4, <1>5, <1>6

-----------------------------------------------------------------------------
\* One draw

\* What a draw d of n elements from generator g promises, when s are the units
\* that came before.
GoodDraw(d, g, s, n) ==
    /\ DOMAIN d.units = 1..n
    /\ \A i \in 1..n :
          /\ d.units[i] \in Units /\ d.units[i] \notin s
          /\ \A j \in 1..n : d.units[i] = d.units[j] => i = j
          /\ \A u \in s : u[1] = d.units[i][1] => u[2] = d.units[i][2]
    /\ Remembers(d.gen, s \cup {d.units[i] : i \in 1..n})

LEMMA ScalarDrawIsGood ==
    ASSUME NEW g, NEW s, NEW w \in Nat, Remembers(g, s)
    PROVE  GoodDraw(ScalarDraw(g, w), g, s, 1)
<1> DEFINE h == Refilled(g, w)
           b == UnitBits(w)
           v == <<h.cached, w = 1, h.ptr \div b>>
           d == ScalarDraw(g, w)
<1>1. b \in Nat \ {0} /\ BlockBits \in Nat
  BY UnitsPerBlock
<1>2. /\ h \in Generators /\ h.cached < h.id /\ h.isXor = (w = 1)
      /\ \A u \in s : /\ u[1] < h.id
                      /\ u[1] = h.cached => u[2] = h.isXor /\ (u[3] + 1) * b <= h.ptr
  <2>1. CASE Stale(g, w)
    <3>1. h = [id |-> g.id + 1, ptr |-> 0, isXor |-> (w = 1), cached |-> g.id]
      BY <2>1 DEF Refilled
    <3>2. (w = 1) \in BOOLEAN /\ g.id \in Nat /\ \A u \in s : u[1] \in Nat /\ u[1] < g.id
      BY DEF Remembers, Generators, Units
    <3> QED BY <3>1, <3>2 DEF Generators
  <2>2. CASE ~Stale(g, w)
    <3>1. h = g /\ ~(g.ptr >= BlockBits) /\ g.isXor = (w = 1)
      BY <2>2 DEF Refilled, Stale
    <3>2. g.ptr < BlockBits /\ g \in Generators
      BY <3>1, <1>1 DEF Remembers, Generators
    <3>3. b = IF g.isXor THEN 1 ELSE ByteBits
      BY <3>1 DEF UnitBits
    <3> QED BY <3>1, <3>2, <3>3 DEF Remembers
  <2> QED BY <2>1, <2>2
<1>3. d.units = <<v>> /\ d.gen = [h EXCEPT !.ptr = @ + b]
  BY DEF ScalarDraw
<1> HIDE DEF h, b, d
<1>4. h.id \in Nat /\ h.ptr \in Nat /\ h.cached \in Nat /\ h.isXor \in BOOLEAN
  BY <1>2 DEF Generators
<1>5. h.ptr \div b \in Nat /\ b * (h.ptr \div b) <= h.ptr
  BY <1>1, <1>4, Division
<1>6. v \in Units /\ v[1] = h.cached /\ v[2] = h.isXor /\ v[3] = h.ptr \div b
  BY <1>2, <1>4, <1>5 DEF Units
<1>7. (v[3] + 1) * b <= h.ptr + b
  <2> DEFINE q == h.ptr \div b
  <2>1. (q + 1) * b = b * q + b
    BY <1>1, <1>5, Z3
  <2> QED BY <1>1, <1>4, <1>5, <1>6, <2>1
<1>8. v \notin s
  <2> SUFFICES ASSUME v \in s PROVE FALSE
    OBVIOUS
  <2>1. (v[3] + 1) * b <= h.ptr
    BY <1>2, <1>6
  <2> DEFINE q == h.ptr \div b
  <2>2. (q + 1) * b = b * (q + 1)
    BY <1>1, <1>5, Z3
  <2>3. q + 1 <= q
    BY <1>1, <1>4, <1>5, <1>6, <2>1, <2>2, Quotient, q + 1 \in Nat
  <2> QED BY <2>3, <1>5
<1>9. Remembers(d.gen, s \cup {v})
  <2> DEFINE e == d.gen
  <2>1. /\ e \in Generators /\ e.id = h.id /\ e.ptr = h.ptr + b
        /\ e.isXor = h.isXor /\ e.cached = h.cached
    BY <1>1, <1>2, <1>3, <1>4 DEF Generators
  <2> HIDE DEF e, v
  <2>2. \A u \in s \cup {v} :
           /\ u \in Units /\ u[1] < e.id
           /\ u[1] = e.cached => u[2] = e.isXor /\ (u[3] + 1) * b <= e.ptr
    <3>1. ASSUME NEW u \in s, u[1] = h.cached PROVE u[2] = h.isXor /\ (u[3] + 1) * b <= h.ptr + b
      <4>1. u[3] + 1 \in Nat /\ (u[3] + 1) * b \in Nat
        BY <1>1, Z3 DEF Remembers, Units
      <4> QED BY <1>1, <1>2, <1>4, <3>1, <4>1
    <3>2. \A u \in s : u \in Units
      BY DEF Remembers
    <3> QED BY <1>2, <1>6, <1>7, <2>1, <3>1, <3>2
  <2>3. b = IF e.isXor THEN 1 ELSE ByteBits
    BY <1>2, <2>1 DEF b, UnitBits
  <2> QED BY <1>2, <2>1, <2>2, <2>3 DEF Remembers, e
<1>10. \A u \in s : u[1] = v[1] => u[2] = v[2]
  BY <1>2, <1>6
<1> HIDE DEF v
<1>11. d.units[1] = v /\ DOMAIN d.units = 1..1 /\ {d.units[i] : i \in 1..1} = {v}
  BY <1>3
<1> QED BY <1>6, <1>8, <1>9, <1>10, <1>11 DEF GoodDraw, d

LEMMA VectorDrawIsGood ==
    ASSUME NEW g, NEW s, NEW w \in Nat, NEW n \in Nat, Remembers(g, s)
    PROVE  GoodDraw(VectorDraw(g, w, n), g, s, n)
<1> DEFINE m == BlockBits \div UnitBits(w)
           d == VectorDraw(g, w, n)
           used == Batch * CeilDiv(CeilDiv(n, m), Batch)
           q(i) == (i - 1) \div m
           r(i) == (i - 1) % m
<1>1. m \in Nat \ {0} /\ BlockBits \in Nat
  BY UnitsPerBlock
<1>2. /\ d.units = [i \in 1..n |-> <<g.id + q(i), w = 1, r(i)>>]
      /\ d.gen = [g EXCEPT !.id = @ + used, !.ptr = BlockBits]
  BY DEF VectorDraw
<1>3. /\ g.id \in Nat /\ g.ptr \in Nat /\ g.isXor \in BOOLEAN /\ g.cached \in Nat /\ g \in Generators
      /\ \A u \in s : u \in Units /\ u[1] \in Nat /\ u[1] < g.id
  BY DEF Remembers, Generators, Units
<1> HIDE DEF d
<1>4. used \in Nat
  <2>1. \A a \in Nat, c \in Nat \ {0} : CeilDiv(a, c) \in Nat
    <3> TAKE a \in Nat, c \in Nat \ {0}
    <3>1. a + c - 1 \in Nat
      OBVIOUS
    <3> QED BY <3>1, Division DEF CeilDiv
  <2>2. CeilDiv(CeilDiv(n, m), Batch) \in Nat
    BY <1>1, <2>1, SizeAssumption
  <2> QED BY <2>2, SizeAssumption, Z3
<1>5. \A i \in 1..n : q(i) \in Nat /\ r(i) \in Nat /\ q(i) < used
  <2> TAKE i \in 1..n
  <2>1. i - 1 \in Nat /\ i - 1 \in 0..(n - 1)
    OBVIOUS
  <2> QED BY <1>1, <2>1, Division, BatchesCover
<1>6. \A i, j \in 1..n : q(i) = q(j) /\ r(i) = r(j) => i = j
  <2> TAKE i, j \in 1..n
  <2> HAVE q(i) = q(j) /\ r(i) = r(j)
  <2>1. i - 1 \in Nat /\ j - 1 \in Nat
    OBVIOUS
  <2>2. i - 1 = j - 1
    BY <1>1, <2>1, SameQuotient
  <2> QED BY <2>2
<1> HIDE DEF q, r, used
<1>7. \A i \in 1..n : /\ d.units[i] = <<g.id + q(i), w = 1, r(i)>>
                      /\ d.units[i] \in Units /\ d.units[i][1] = g.id + q(i)
  <2> TAKE i \in 1..n
  <2> DEFINE t == <<g.id + q(i), w = 1, r(i)>>
  <2>1. d.units[i] = t
    BY <1>2
  <2>2. g.id + q(i) \in Nat /\ (w = 1) \in BOOLEAN /\ r(i) \in Nat
    BY <1>3, <1>5
  <2>3. t \in Units /\ t[1] = g.id + q(i)
    BY <2>2 DEF Units
  <2> QED BY <2>1, <2>3
<1>8. \A i \in 1..n : \A u \in s : u[1] # d.units[i][1]
  BY <1>3, <1>5, <1>7
<1>9. \A i, j \in 1..n : d.units[i] = d.units[j] => i = j
  BY <1>3, <1>5, <1>6, <1>7
<1>10. Remembers(d.gen, s \cup {d.units[i] : i \in 1..n})
  <2>1. d.gen \in Generators /\ d.gen.id = g.id + used /\ d.gen.ptr = BlockBits
    <3>1. PICK x \in Nat : x = g.id + used
      BY <1>3, <1>4
    <3>2. PICK y \in Nat : y = BlockBits
      BY <1>1
    <3>3. d.gen = [g EXCEPT !.id = x, !.ptr = y]
      BY <1>2, <3>1, <3>2
    <3>4. [g EXCEPT !.id = x, !.ptr = y] \in Generators
      BY <1>3 DEF Generators
    <3>5. d.gen.id = x /\ d.gen.ptr = y
      BY <1>3, <3>3 DEF Generators
    <3> QED BY <3>1, <3>2, <3>3, <3>4, <3>5
  <2>2. \A u \in s \cup {d.units[i] : i \in 1..n} : u \in Units /\ u[1] < d.gen.id
    BY <1>3, <1>4, <1>5, <1>7, <2>1
  <2> QED BY <1>1, <2>1, <2>2 DEF Remembers
<1>11. DOMAIN d.units = 1..n
  BY <1>2
<1> QED BY <1>7, <1>8, <1>9, <1>10, <1>11 DEF GoodDraw, d

\* s adds up the first n elements of v.
PartialSums(s, v, n) ==
    s = [k \in 0..n |-> IF k = 0 THEN 0 ELSE s[k - 1] + v[k]]

LEMMA PartialSumsExist ==
    ASSUME NEW n \in Nat, NEW v
    PROVE  \E s : PartialSums(s, v, n)
<1> DEFINE T == {j \in 0..n : ~ \E s : PartialSums(s, v, j)}
<1> SUFFICES ASSUME T # {} PROVE FALSE
  OBVIOUS
<1>1. PICK j \in T : \A i \in T : j <= i
  BY Extremes
<1>2. CASE j = 0
  <2>1. PICK s : s = [k \in 0..0 |-> 0]
    OBVIOUS
  <2>2. PartialSums(s, v, 0)
    BY <2>1 DEF PartialSums
  <2> QED BY <1>2, <2>2
<1>3. CASE j # 0
  <2>1. j - 1 \in 0..n /\ j - 1 \notin T /\ j \in Nat
    BY <1>1, <1>3
  <2>2. PICK s : PartialSums(s, v, j - 1)
    BY <2>1
  <2>3. PICK t : t = [k \in 0..j |-> IF k = j THEN s[j - 1] + v[j] ELSE s[k]]
    OBVIOUS
  <2>4. \A k \in 0..j : t[k] = IF k = 0 THEN 0 ELSE t[k - 1] + v[k]
    BY <1>3, <2>1, <2>2, <2>3 DEF PartialSums
  <2>5. PartialSums(t, v, j)
    BY <2>3, <2>4 DEF PartialSums
  <2> QED BY <2>5
<1> QED BY <1>2, <1>3

LEMMA TotalIsPartialSum ==
    ASSUME NEW n \in Nat, NEW v, Len(v) = n
    PROVE  \E s : PartialSums(s, v, n) /\ Total(v) = s[n]
<1> DEFINE t == CHOOSE s : PartialSums(s, v, n)
<1>1. PartialSums(t, v, n)
  BY PartialSumsExist
<1>2. Total(v) = t[n]
  BY DEF Total, PartialSums
<1> QED BY <1>1, <1>2

LEMMA PartialSumsType ==
    ASSUME NEW n \in Nat, NEW v \in [1..n -> Int], NEW s, PartialSums(s, v, n)
    PROVE  /\ \A k \in 0..n : s[k] \in Int
           /\ s[0] = 0 /\ \A k \in 1..n : s[k] = s[k - 1] + v[k]
<1>1. s[0] = 0 /\ \A k \in 1..n : s[k] = s[k - 1] + v[k]
  BY DEF PartialSums
<1> DEFINE T == {j \in 0..n : s[j] \notin Int}
<1>2. ASSUME T # {} PROVE FALSE
  <2>1. PICK j \in T : \A i \in T : j <= i
    BY <1>2, Extremes
  <2>2. j # 0 /\ j \in 1..n /\ j - 1 \in 0..n /\ j - 1 \notin T
    BY <1>1, <2>1
  <2>3. s[j - 1] \in Int /\ v[j] \in Int /\ s[j] = s[j - 1] + v[j]
    BY <1>1, <2>2
  <2> QED BY <2>1, <2>3
<1> QED BY <1>1, <1>2

LEMMA TotalType ==
    ASSUME NEW n \in Nat, NEW v \in [1..n -> Int]
    PROVE  Total(v) \in Int
<1>1. Len(v) = n
  OBVIOUS
<1>2. PICK s : PartialSums(s, v, n) /\ Total(v) = s[n]
  BY <1>1, TotalIsPartialSum
<1> QED BY <1>2, PartialSumsType

\* Sums are congruent when their terms are.
LEMMA TotalCong ==
    ASSUME NEW n \in Nat, NEW m \in Nat \ {0},
           NEW u \in [1..n -> Int], NEW v \in [1..n -> Int], NEW w \in [1..n -> Int],
           NEW x \in [1..n -> Int],
           \A i \in 1..n : Cong(u[i] + v[i] + w[i], x[i], m)
    PROVE  Cong(Total(u) + Total(v) + Total(w), Total(x), m)
<1>0. Len(u) = n /\ Len(v) = n /\ Len(w) = n /\ Len(x) = n
  OBVIOUS
<1>1. PICK a : PartialSums(a, u, n) /\ Total(u) = a[n]
  BY <1>0, TotalIsPartialSum
<1>2. PICK b : PartialSums(b, v, n) /\ Total(v) = b[n]
  BY <1>0, TotalIsPartialSum
<1>3. PICK c : PartialSums(c, w, n) /\ Total(w) = c[n]
  BY <1>0, TotalIsPartialSum
<1>4. PICK d : PartialSums(d, x, n) /\ Total(x) = d[n]
  BY <1>0, TotalIsPartialSum
<1>5. /\ \A k \in 0..n : a[k] \in Int /\ b[k] \in Int /\ c[k] \in Int /\ d[k] \in Int
      /\ a[0] = 0 /\ b[0] = 0 /\ c[0] = 0 /\ d[0] = 0
      /\ \A k \in 1..n : /\ a[k] = a[k - 1] + u[k] /\ b[k] = b[k - 1] + v[k]
                         /\ c[k] = c[k - 1] + w[k] /\ d[k] = d[k - 1] + x[k]
  <2>1. /\ a[0] = 0 /\ \A k \in 0..n : a[k] \in Int
        /\ \A k \in 1..n : a[k] = a[k - 1] + u[k]
    BY <1>0, <1>1, PartialSumsType, Zenon
  <2>2. /\ b[0] = 0 /\ \A k \in 0..n : b[k] \in Int
        /\ \A k \in 1..n : b[k] = b[k - 1] + v[k]
    BY <1>0, <1>2, PartialSumsType, Zenon
  <2>3. /\ c[0] = 0 /\ \A k \in 0..n : c[k] \in Int
        /\ \A k \in 1..n : c[k] = c[k - 1] + w[k]
    BY <1>0, <1>3, PartialSumsType, Zenon
  <2>4. /\ d[0] = 0 /\ \A k \in 0..n : d[k] \in Int
        /\ \A k \in 1..n : d[k] = d[k - 1] + x[k]
    BY <1>0, <1>4, PartialSumsType, Zenon
  <2> QED BY <2>1, <2>2, <2>3, <2>4
<1> DEFINE T == {j \in 0..n : ~Cong(a[j] + b[j] + c[j], d[j], m)}
<1>6. ASSUME T # {} PROVE FALSE
  <2>1. PICK j \in T : \A i \in T : j <= i
    BY <1>6, Extremes
  <2>2. j # 0
    <3>1. a[0] + b[0] + c[0] = 0 /\ d[0] = 0 /\ Cong(0, 0, m)
      BY <1>5, CongSelf
    <3> QED BY <2>1, <3>1
  <2>3. j \in 1..n /\ j - 1 \in 0..n /\ j - 1 \notin T
    BY <2>1, <2>2
  <2>4. PICK k \in 0..n : k = j - 1
    BY <2>3
  <2>5. Cong(a[k] + b[k] + c[k], d[k], m) /\ Cong(u[j] + v[j] + w[j], x[j], m)
    BY <2>3, <2>4
  <2>6. /\ a[k] \in Int /\ b[k] \in Int /\ c[k] \in Int /\ d[k] \in Int
        /\ u[j] \in Int /\ v[j] \in Int /\ w[j] \in Int /\ x[j] \in Int
        /\ a[j] = a[k] + u[j] /\ b[j] = b[k] + v[j] /\ c[j] = c[k] + w[j] /\ d[j] = d[k] + x[j]
    BY <1>5, <2>3, <2>4
  <2>7. Cong((a[k] + u[j]) + (b[k] + v[j]) + (c[k] + w[j]), d[k] + x[j], m)
    BY <2>5, <2>6, CongThreeSums
  <2> QED BY <2>1, <2>6, <2>7
<1>7. n \in 0..n
  OBVIOUS
<1>8. n \notin T
  <2> HIDE DEF T
  <2> QED BY <1>6
<1>9. Cong(a[n] + b[n] + c[n], d[n], m)
  BY <1>7, <1>8, Zenon
<1> QED BY <1>1, <1>2, <1>3, <1>4, <1>9

-----------------------------------------------------------------------------
\* Masks cancel

\* The modulus of a wire's ring.
M(w) == 2^Width[w]

LEMMA Modulus ==
    ASSUME NEW w \in Wire
    PROVE  /\ M(w) \in Nat \ {0} /\ (Width[w] = 1 => M(w) = 2)
           /\ Width[w] \in 1..8 /\ Size[w] \in Nat
<1>1. Width[w] \in 1..8 /\ Size[w] \in Nat
  BY ProgramAssumption
<1> QED BY <1>1, PowersOfTwo DEF M

LEMMA UnitType ==
    ASSUME NEW key, NEW u
    PROVE  Unit(key, u) \in Int
<1> DEFINE bits == UnitBits(IF u[2] THEN 1 ELSE 2)
           v == [k \in 1..bits |-> IF u[3] * bits + k - 1 \in Prf(key, u[1]) THEN 2^(k - 1) ELSE 0]
<1>1. bits \in Nat
  BY SizeAssumption DEF UnitBits
<1>2. \A k \in 1..bits : 2^(k - 1) \in Int
  BY <1>1
<1>3. v \in [1..bits -> Int]
  BY <1>2
<1>4. Unit(key, u) = Total(v)
  BY DEF Unit, ByteAt
<1> HIDE DEF v, bits
<1> QED BY <1>1, <1>3, <1>4, TotalType

\* What the three draw from one unit cancels out: every block is added by one party
\* and subtracted by another.
LEMMA MasksCancel ==
    ASSUME NEW w \in Wire, NEW u, u[2] = (Width[w] = 1)
    PROVE  /\ \A p \in Party : Correlated(p, u, Width[w]) \in Int
           /\ Cong(Correlated(0, u, Width[w]) + Correlated(1, u, Width[w])
                   + Correlated(2, u, Width[w]), 0, M(w))
<1>1. PICK a \in Int : a = Unit(0, u)
  BY UnitType
<1>2. PICK b \in Int : b = Unit(1, u)
  BY UnitType
<1>3. PICK c \in Int : c = Unit(2, u)
  BY UnitType
<1>4. PREV(0) = 2 /\ PREV(1) = 0 /\ PREV(2) = 1 /\ Party = {0, 1, 2}
  BY DEF PREV, Party
<1>5. PICK m \in Nat \ {0} : m = M(w) /\ m = 2^Width[w] /\ (Width[w] = 1 => m = 2)
  BY Modulus DEF M
<1>6. CASE Width[w] = 1
  <2>1. /\ Correlated(0, u, Width[w]) = (a + c) % m /\ Correlated(1, u, Width[w]) = (b + a) % m
        /\ Correlated(2, u, Width[w]) = (c + b) % m
    BY <1>1, <1>2, <1>3, <1>4, <1>5, <1>6 DEF Correlated
  <2>2. PICK x \in Int, y \in Int, z \in Int : x = a + c /\ y = b + a /\ z = c + b
    OBVIOUS
  <2>3. x % m \in Int /\ y % m \in Int /\ z % m \in Int
    BY ModIsCong
  <2>4. Cong((x % m) + (y % m) + (z % m), x + y + z, m)
    BY CongThreeMods
  <2>5. x + y + z = 0 + (a + b + c) * m /\ a + b + c \in Int
    BY <1>5, <1>6, <2>2
  <2>6. Cong(x + y + z, 0, m)
    BY <2>5 DEF Cong
  <2>7. (x % m) + (y % m) + (z % m) \in Int /\ x + y + z \in Int
    BY <2>3
  <2>8. Cong((x % m) + (y % m) + (z % m), 0, m)
    BY <2>4, <2>6, <2>7, CongTrans
  <2> QED BY <1>4, <1>5, <2>1, <2>2, <2>3, <2>8, Zenon
<1>7. CASE Width[w] # 1
  <2>1. /\ Correlated(0, u, Width[w]) = (a - c) % m /\ Correlated(1, u, Width[w]) = (b - a) % m
        /\ Correlated(2, u, Width[w]) = (c - b) % m
    BY <1>1, <1>2, <1>3, <1>4, <1>5, <1>7 DEF Correlated
  <2>2. PICK x \in Int, y \in Int, z \in Int : x = a - c /\ y = b - a /\ z = c - b
    OBVIOUS
  <2>3. x % m \in Int /\ y % m \in Int /\ z % m \in Int
    BY ModIsCong
  <2>4. Cong((x % m) + (y % m) + (z % m), x + y + z, m)
    BY CongThreeMods
  <2>5. x + y + z = 0
    BY <2>2
  <2> QED BY <1>4, <1>5, <2>1, <2>2, <2>3, <2>4, <2>5, Zenon
<1> QED BY <1>6, <1>7

\* The units of a round are of the kind that its ring asks for.
LEMMA UnitsOfKind ==
    ASSUME NEW r \in Rounds, Legal(r), NEW g, NEW i \in 1..Length(r)
    PROVE  Draw(g, Width[r.o], Length(r), r.vec).units[i][2] = (Width[r.o] = 1)
<1>1. r.vec \in BOOLEAN
  BY DEF Rounds
<1>2. CASE r.vec
  BY <1>2 DEF Draw, VectorDraw
<1>3. CASE ~r.vec
  <2>1. i = 1
    BY <1>3 DEF Legal, Length
  <2> QED BY <1>3, <2>1 DEF Draw, ScalarDraw
<1> QED BY <1>1, <1>2, <1>3

\* What the three send in a round: masked one by one, unmasked in sum.
LEMMA SentSum ==
    ASSUME NEW r \in Rounds, Legal(r), NEW g, NEW s,
           NEW c \in [Party -> [1..Length(r) -> Int]],
           \A p \in Party : \A i \in 1..Length(r) : Contribution(s[p], p, r)[i] = c[p][i]
    PROVE  /\ \A p \in Party : Sent(s[p], p, r, g) \in Vector(r.o)
           /\ \A i \in 1..Length(r) :
                 Cong(Sent(s[0], 0, r, g)[i] + Sent(s[1], 1, r, g)[i] + Sent(s[2], 2, r, g)[i],
                      c[0][i] + c[1][i] + c[2][i], M(r.o))
<1> DEFINE units == Draw(g, Width[r.o], Length(r), r.vec).units
           mask(p, i) == IF Masked(p, r) THEN Correlated(p, units[i], Width[r.o]) ELSE 0
<1>1. r.o \in Wire
  BY DEF Rounds
<1>2. PICK n \in Nat : n = Length(r) /\ n = Size[r.o]
  BY <1>1, Modulus DEF Length
<1>3. PICK m \in Nat \ {0} : m = M(r.o) /\ m = 2^Width[r.o]
  BY <1>1, Modulus DEF M
<1>4. \A i \in 1..n : (\A p \in Party : mask(p, i) \in Int)
                      /\ Cong(mask(0, i) + mask(1, i) + mask(2, i), 0, m)
  <2> TAKE i \in 1..n
  <2>1. units[i][2] = (Width[r.o] = 1)
    <3>1. i \in 1..Length(r)
      BY <1>2
    <3>2. Draw(g, Width[r.o], Length(r), r.vec).units[i][2] = (Width[r.o] = 1)
      BY <3>1, UnitsOfKind, Z3
    <3> QED BY <3>2, Zenon
  <2>2. CASE Masked(0, r)
    <3>1. \A p \in Party : mask(p, i) = Correlated(p, units[i], Width[r.o])
      BY <2>2 DEF Masked
    <3>2. PICK u : u = units[i]
      OBVIOUS
    <3>3. /\ \A p \in Party : Correlated(p, u, Width[r.o]) \in Int
          /\ Cong(Correlated(0, u, Width[r.o]) + Correlated(1, u, Width[r.o])
                  + Correlated(2, u, Width[r.o]), 0, M(r.o))
      BY <1>1, <2>1, <3>2, MasksCancel
    <3>4. 0 \in Party /\ 1 \in Party /\ 2 \in Party
      BY DEF Party
    <3> HIDE DEF units, mask
    <3> QED BY <1>3, <3>1, <3>2, <3>3, <3>4, Zenon
  <2>3. CASE ~Masked(0, r)
    <3>1. \A p \in Party : mask(p, i) = 0
      BY <2>3 DEF Masked
    <3> HIDE DEF mask
    <3> QED BY <3>1, CongSelf DEF Party
  <2> QED BY <2>2, <2>3
<1>5. \A p \in Party : \A i \in 1..n :
         Sent(s[p], p, r, g)[i] = (c[p][i] + mask(p, i)) % m
  BY <1>2, <1>3 DEF Sent, Mod
<1>6. \A p \in Party : Sent(s[p], p, r, g) \in Vector(r.o)
  <2> TAKE p \in Party
  <2>1. \A i \in 1..n : c[p][i] + mask(p, i) \in Int
    <3> HIDE DEF mask
    <3> TAKE i \in 1..n
    <3>1. c[p][i] \in Int /\ mask(p, i) \in Int
      BY <1>2, <1>4
    <3> QED BY <3>1
  <2>2. \A i \in 1..n : (c[p][i] + mask(p, i)) % m \in 0..(m - 1)
    <3> HIDE DEF mask
    <3> QED BY <2>1, ModIsCong
  <2>3. Sent(s[p], p, r, g) = [i \in 1..n |-> (c[p][i] + mask(p, i)) % m]
    BY <1>2, <1>3 DEF Sent, Mod
  <2> HIDE DEF mask
  <2> QED BY <1>2, <1>3, <2>2, <2>3 DEF Vector, Ring
<1> HIDE DEF mask, units
<1>7. ASSUME NEW i \in 1..n
      PROVE  Cong(Sent(s[0], 0, r, g)[i] + Sent(s[1], 1, r, g)[i] + Sent(s[2], 2, r, g)[i],
                  c[0][i] + c[1][i] + c[2][i], m)
  <2>1. /\ c[0][i] \in Int /\ c[1][i] \in Int /\ c[2][i] \in Int
        /\ mask(0, i) \in Int /\ mask(1, i) \in Int /\ mask(2, i) \in Int
    <3>1. 0 \in Party /\ 1 \in Party /\ 2 \in Party
      BY DEF Party
    <3> QED BY <1>2, <1>4, <3>1
  <2>2. PICK a \in Int, b \in Int, d \in Int : a = c[0][i] /\ b = c[1][i] /\ d = c[2][i]
    BY <2>1
  <2>3. PICK u \in Int, v \in Int, w \in Int : u = mask(0, i) /\ v = mask(1, i) /\ w = mask(2, i)
    BY <2>1
  <2>4. /\ Sent(s[0], 0, r, g)[i] = (a + u) % m /\ Sent(s[1], 1, r, g)[i] = (b + v) % m
        /\ Sent(s[2], 2, r, g)[i] = (d + w) % m
    <3>1. 0 \in Party /\ 1 \in Party /\ 2 \in Party
      BY DEF Party
    <3> QED BY <1>5, <2>2, <2>3, <3>1, Zenon
  <2>5. Cong(u + v + w, 0, m)
    BY <1>4, <2>3
  <2>6. Cong(((a + u) % m) + ((b + v) % m) + ((d + w) % m), a + b + d, m)
    BY <2>5, CongMasked
  <2> QED BY <2>2, <2>4, <2>6, Zenon
<1> QED BY <1>2, <1>3, <1>6, <1>7

-----------------------------------------------------------------------------
\* One round of the three together

IsEnv(env) == DOMAIN env = Wire /\ \A w \in Wire : env[w] \in Vector(w)

\* Every party holds the share of the next.
Replicated(s, w) ==
    \A p \in Party : s[p][w].this \in Vector(w) /\ s[p][w].nxt = s[NEXT(p)][w].this

\* The i-th element of a wire, up to its modulus.
SumOf(s, w, i) == s[0][w].this[i] + s[1][w].this[i] + s[2][w].this[i]

GoodWire(s, env, w) ==
    Replicated(s, w) /\ \A i \in 1..Size[w] : Cong(SumOf(s, w, i), env[w][i], M(w))

AreShares(s) == \A p \in Party : DOMAIN s[p] = Wire

GoodShares(s, env) == AreShares(s) /\ \A w \in Wire : GoodWire(s, env, w)

\* What the shares s become by round r, when g is the generator of all three.
After(s, r, g) ==
    [p \in Party |->
        IF r.op = "reveal" THEN s[p]
        ELSE [s[p] EXCEPT ![r.o] =
                IF r.op \in Local
                THEN [this |-> Combined(r, s[p][r.a].this, s[p][r.b].this),
                      nxt |-> Combined(r, s[p][r.a].nxt, s[p][r.b].nxt)]
                ELSE KeepOf(s[p], p, r, Sent(s[p], p, r, g), Sent(s[NEXT(p)], NEXT(p), r, g))]]

LEMMA ElementType ==
    ASSUME NEW s, NEW w \in Wire, Replicated(s, w), NEW i \in 1..Size[w]
    PROVE  /\ s[0][w].this[i] \in Int /\ s[1][w].this[i] \in Int /\ s[2][w].this[i] \in Int
           /\ s[0][w].nxt[i] = s[1][w].this[i] /\ s[1][w].nxt[i] = s[2][w].this[i]
           /\ s[2][w].nxt[i] = s[0][w].this[i]
<1>1. NEXT(0) = 1 /\ NEXT(1) = 2 /\ NEXT(2) = 0 /\ 0 \in Party /\ 1 \in Party /\ 2 \in Party
  BY DEF NEXT, Party
<1>2. \A p \in Party : s[p][w].this[i] \in Ring(w)
  BY DEF Replicated, Vector
<1>3. Ring(w) \subseteq Int
  BY Modulus DEF Ring, M
<1> QED BY <1>1, <1>2, <1>3 DEF Replicated

LEMMA EnvType ==
    ASSUME NEW env, IsEnv(env), NEW w \in Wire, NEW i \in 1..Size[w]
    PROVE  env[w][i] \in Int /\ env[w][i] \in 0..(M(w) - 1)
<1>1. env[w][i] \in Ring(w)
  BY DEF IsEnv, Vector
<1> QED BY <1>1, Modulus DEF Ring, M

\* The products that the three add up are all there are.
LEMMA SumOfProducts ==
    ASSUME NEW a0 \in Int, NEW a1 \in Int, NEW a2 \in Int, NEW b0 \in Int, NEW b1 \in Int, NEW b2 \in Int,
           NEW a \in Int, NEW b \in Int, NEW m \in Nat \ {0},
           Cong(a0 + a1 + a2, a, m), Cong(b0 + b1 + b2, b, m)
    PROVE  Cong((a0 * b0 + a0 * b1 + a1 * b0) + (a1 * b1 + a1 * b2 + a2 * b1)
                + (a2 * b2 + a2 * b0 + a0 * b2), a * b, m)
<1>1. PICK x \in Int, y \in Int : x = a0 + a1 + a2 /\ y = b0 + b1 + b2
  OBVIOUS
<1>2. Cong(x * y, a * b, m)
  BY <1>1, CongProduct
<1>3. x * y = (a0 * b0 + a0 * b1 + a1 * b0) + (a1 * b1 + a1 * b2 + a2 * b1)
              + (a2 * b2 + a2 * b0 + a0 * b2)
  BY <1>1, Z3
<1> QED BY <1>2, <1>3

LEMMA ProductsSum ==
    ASSUME NEW s, NEW env, IsEnv(env), NEW v \in Wire, NEW w \in Wire, SameType(v, w),
           GoodWire(s, env, v), GoodWire(s, env, w), NEW i \in 1..Size[v]
    PROVE  /\ \A p \in Party : Product(s[p][v], s[p][w], i) \in Int
           /\ Cong(Product(s[0][v], s[0][w], i) + Product(s[1][v], s[1][w], i)
                   + Product(s[2][v], s[2][w], i), env[v][i] * env[w][i], M(v))
<1>1. i \in 1..Size[w] /\ M(w) = M(v)
  BY DEF SameType, M
<1>2. Replicated(s, v) /\ Replicated(s, w)
  BY DEF GoodWire
<1>3. PICK a0 \in Int, a1 \in Int, a2 \in Int :
         /\ a0 = s[0][v].this[i] /\ a1 = s[1][v].this[i] /\ a2 = s[2][v].this[i]
         /\ a1 = s[0][v].nxt[i] /\ a2 = s[1][v].nxt[i] /\ a0 = s[2][v].nxt[i]
  BY <1>2, ElementType
<1>4. PICK b0 \in Int, b1 \in Int, b2 \in Int :
         /\ b0 = s[0][w].this[i] /\ b1 = s[1][w].this[i] /\ b2 = s[2][w].this[i]
         /\ b1 = s[0][w].nxt[i] /\ b2 = s[1][w].nxt[i] /\ b0 = s[2][w].nxt[i]
  BY <1>1, <1>2, ElementType
<1>5. PICK a \in Int, b \in Int : a = env[v][i] /\ b = env[w][i]
  BY <1>1, EnvType
<1>6. PICK m \in Nat \ {0} : m = M(v) /\ m = M(w)
  BY <1>1, Modulus
<1>7. Cong(a0 + a1 + a2, a, m) /\ Cong(b0 + b1 + b2, b, m)
  BY <1>1, <1>3, <1>4, <1>5, <1>6 DEF GoodWire, SumOf
<1>8. /\ Product(s[0][v], s[0][w], i) = a0 * b0 + a0 * b1 + a1 * b0
      /\ Product(s[1][v], s[1][w], i) = a1 * b1 + a1 * b2 + a2 * b1
      /\ Product(s[2][v], s[2][w], i) = a2 * b2 + a2 * b0 + a0 * b2
  BY <1>3, <1>4, Zenon DEF Product
<1>9. /\ a0 * b0 + a0 * b1 + a1 * b0 \in Int /\ a1 * b1 + a1 * b2 + a2 * b1 \in Int
      /\ a2 * b2 + a2 * b0 + a0 * b2 \in Int
  BY Z3
<1>10. \A p \in Party : p = 0 \/ p = 1 \/ p = 2
  BY DEF Party
<1>11. \A p \in Party : Product(s[p][v], s[p][w], i) \in Int
  BY <1>8, <1>9, <1>10, Zenon
<1>12. Cong((a0 * b0 + a0 * b1 + a1 * b0) + (a1 * b1 + a1 * b2 + a2 * b1)
            + (a2 * b2 + a2 * b0 + a0 * b2), a * b, m)
  BY <1>7, SumOfProducts
<1> QED BY <1>5, <1>6, <1>8, <1>11, <1>12, Zenon

-----------------------------------------------------------------------------
\* What the three contribute to a round adds up to its meaning.

Summed == {"share", "reshare", "mul", "dot"}

AddsUp(c, s, r, v) ==
    /\ c \in [Party -> [1..Length(r) -> Int]]
    /\ \A p \in Party : \A i \in 1..Length(r) : Contribution(s[p], p, r)[i] = c[p][i]
    /\ \A i \in 1..Length(r) : Cong(c[0][i] + c[1][i] + c[2][i], v[i], M(r.o))

LEMMA ShareAddsUp ==
    ASSUME NEW r \in Rounds, Legal(r), r.op = "share", NEW s, NEW env, IsEnv(env)
    PROVE  \E c : AddsUp(c, s, r, Meaning(env, r)[r.o])
<1>1. r.by \in Party /\ r.x \in Vector(r.o) /\ r.o \in Wire /\ Length(r) = Size[r.o]
  BY DEF Rounds, Legal, Length
<1>2. Meaning(env, r)[r.o] = r.x
  BY <1>1 DEF Meaning, IsEnv, Local
<1>3. PICK m \in Nat \ {0} : m = M(r.o) /\ Ring(r.o) = 0..(m - 1)
  BY <1>1, Modulus DEF Ring, M
<1>4. \A i \in 1..Length(r) : r.x[i] \in Int
  <2>1. \A i \in 1..Length(r) : r.x[i] \in Ring(r.o)
    BY <1>1 DEF Vector
  <2> QED BY <1>3, <2>1
<1>5. PICK c : c = [p \in Party |-> [i \in 1..Length(r) |-> IF p = r.by THEN r.x[i] ELSE 0]]
  OBVIOUS
<1>6. c \in [Party -> [1..Length(r) -> Int]]
  BY <1>4, <1>5
<1>7. \A p \in Party : \A i \in 1..Length(r) : Contribution(s[p], p, r)[i] = c[p][i]
  BY <1>5 DEF Contribution, Zeros
<1>8. \A i \in 1..Length(r) : Cong(c[0][i] + c[1][i] + c[2][i], r.x[i], m)
  <2> TAKE i \in 1..Length(r)
  <2>1. r.by = 0 \/ r.by = 1 \/ r.by = 2
    BY <1>1 DEF Party
  <2>2. c[0][i] + c[1][i] + c[2][i] = r.x[i]
    BY <1>4, <1>5, <2>1 DEF Party
  <2> QED BY <1>4, <2>2, CongSelf
<1> QED BY <1>2, <1>3, <1>6, <1>7, <1>8 DEF AddsUp

LEMMA ReshareAddsUp ==
    ASSUME NEW r \in Rounds, Legal(r), r.op = "reshare", NEW s, NEW env, IsEnv(env),
           GoodShares(s, env)
    PROVE  \E c : AddsUp(c, s, r, Meaning(env, r)[r.o])
<1>1. r.a \in Wire /\ r.o \in Wire /\ SameType(r.a, r.o) /\ Length(r) = Size[r.a]
  BY DEF Rounds, Legal, Length, SameType
<1>2. Meaning(env, r)[r.o] = env[r.a]
  BY <1>1 DEF Meaning, IsEnv, Local
<1>3. M(r.o) = M(r.a) /\ GoodWire(s, env, r.a)
  BY <1>1 DEF SameType, M, GoodShares
<1>4. PICK c : c = [p \in Party |-> s[p][r.a].this]
  OBVIOUS
<1>5. c \in [Party -> [1..Length(r) -> Int]]
  <2>1. \A p \in Party : c[p] \in [1..Length(r) -> Ring(r.a)]
    BY <1>1, <1>3, <1>4 DEF GoodWire, Replicated, Vector
  <2>2. Ring(r.a) \subseteq Int
    BY <1>1, Modulus DEF Ring, M
  <2>3. \A p \in Party : c[p] \in [1..Length(r) -> Int]
    BY <2>1, <2>2
  <2> QED BY <1>4, <2>3
<1>6. \A p \in Party : \A i \in 1..Length(r) : Contribution(s[p], p, r)[i] = c[p][i]
  BY <1>4 DEF Contribution
<1>7. \A i \in 1..Length(r) : Cong(c[0][i] + c[1][i] + c[2][i], env[r.a][i], M(r.o))
  BY <1>1, <1>3, <1>4 DEF GoodWire, SumOf, Party
<1> QED BY <1>2, <1>5, <1>6, <1>7 DEF AddsUp

LEMMA MulAddsUp ==
    ASSUME NEW r \in Rounds, Legal(r), r.op = "mul", NEW s, NEW env, IsEnv(env),
           GoodShares(s, env)
    PROVE  \E c : AddsUp(c, s, r, Meaning(env, r)[r.o])
<1>1. /\ r.a \in Wire /\ r.b \in Wire /\ r.o \in Wire /\ SameType(r.a, r.o) /\ SameType(r.b, r.o)
      /\ SameType(r.a, r.b) /\ Length(r) = Size[r.a] /\ Length(r) = Size[r.b]
  BY DEF Rounds, Legal, Length, SameType
<1>2. PICK m \in Nat \ {0} : m = M(r.o) /\ m = M(r.a) /\ m = 2^Width[r.o]
  BY <1>1, Modulus DEF SameType, M
<1>3. Meaning(env, r)[r.o] = [i \in 1..Length(r) |-> (env[r.a][i] * env[r.b][i]) % m]
  BY <1>1, <1>2 DEF Meaning, IsEnv, Local
<1>4. PICK c : c = [p \in Party |-> [i \in 1..Length(r) |-> Product(s[p][r.a], s[p][r.b], i)]]
  OBVIOUS
<1>5. \A i \in 1..Length(r) :
         /\ \A p \in Party : Product(s[p][r.a], s[p][r.b], i) \in Int
         /\ Cong(Product(s[0][r.a], s[0][r.b], i) + Product(s[1][r.a], s[1][r.b], i)
                 + Product(s[2][r.a], s[2][r.b], i), env[r.a][i] * env[r.b][i], m)
  BY <1>1, <1>2, ProductsSum DEF GoodShares
<1>6. c \in [Party -> [1..Length(r) -> Int]]
  BY <1>4, <1>5
<1>7. \A p \in Party : \A i \in 1..Length(r) : Contribution(s[p], p, r)[i] = c[p][i]
  BY <1>4 DEF Contribution
<1>8. \A i \in 1..Length(r) :
         Cong(c[0][i] + c[1][i] + c[2][i], (env[r.a][i] * env[r.b][i]) % m, m)
  <2> TAKE i \in 1..Length(r)
  <2>0. c[0][i] \in Int /\ c[1][i] \in Int /\ c[2][i] \in Int
    <3>1. 0 \in Party /\ 1 \in Party /\ 2 \in Party
      BY DEF Party
    <3> QED BY <1>6, <3>1
  <2>1. PICK x \in Int, y \in Int, z \in Int : x = c[0][i] /\ y = c[1][i] /\ z = c[2][i]
    BY <2>0
  <2>2. PICK t \in Int : t = env[r.a][i] * env[r.b][i]
    <3>1. PICK a \in Int, b \in Int : a = env[r.a][i] /\ b = env[r.b][i]
      BY <1>1, EnvType
    <3>2. a * b \in Int
      BY Z3
    <3> QED BY <3>1, <3>2
  <2>3. Cong(x + y + z, t, m)
    <3>1. 0 \in Party /\ 1 \in Party /\ 2 \in Party
      BY DEF Party
    <3> QED BY <1>4, <1>5, <2>1, <2>2, <3>1
  <2>4. Cong(x + y + z, t % m, m)
    BY <2>3, CongMod, x + y + z \in Int
  <2> QED BY <2>1, <2>2, <2>4, Zenon
<1> QED BY <1>2, <1>3, <1>6, <1>7, <1>8 DEF AddsUp

LEMMA DotAddsUp ==
    ASSUME NEW r \in Rounds, Legal(r), r.op = "dot", NEW s, NEW env, IsEnv(env),
           GoodShares(s, env)
    PROVE  \E c : AddsUp(c, s, r, Meaning(env, r)[r.o])
<1>1. /\ r.a \in Wire /\ r.b \in Wire /\ r.o \in Wire /\ SameType(r.a, r.b)
      /\ Length(r) = 1 /\ Width[r.o] = Width[r.a]
  BY DEF Rounds, Legal, Length
<1>2. PICK m \in Nat \ {0} : m = M(r.o) /\ m = M(r.a) /\ m = 2^Width[r.o]
  BY <1>1, Modulus DEF M
<1>3. PICK n \in Nat : n = Size[r.a] /\ n = Size[r.b]
  BY <1>1, Modulus DEF SameType
<1> DEFINE prod(p) == [i \in 1..n |-> Product(s[p][r.a], s[p][r.b], i)]
           x == [i \in 1..n |-> env[r.a][i] * env[r.b][i]]
<1>4. Meaning(env, r)[r.o] = <<Total(x) % m>>
  BY <1>1, <1>2, <1>3 DEF Meaning, IsEnv, Local
<1>5. \A i \in 1..n :
         /\ \A p \in Party : Product(s[p][r.a], s[p][r.b], i) \in Int
         /\ Cong(Product(s[0][r.a], s[0][r.b], i) + Product(s[1][r.a], s[1][r.b], i)
                 + Product(s[2][r.a], s[2][r.b], i), env[r.a][i] * env[r.b][i], m)
  BY <1>1, <1>2, <1>3, ProductsSum DEF GoodShares
<1>6. \A p \in Party : prod(p) \in [1..n -> Int]
  BY <1>5
<1>7. x \in [1..n -> Int]
  <2>1. \A i \in 1..n : env[r.a][i] * env[r.b][i] \in Int
    <3> TAKE i \in 1..n
    <3>1. PICK a \in Int, b \in Int : a = env[r.a][i] /\ b = env[r.b][i]
      BY <1>1, <1>3, EnvType
    <3>2. a * b \in Int
      BY Z3
    <3> QED BY <3>1, <3>2
  <2> QED BY <2>1
<1>8. 0 \in Party /\ 1 \in Party /\ 2 \in Party
  BY DEF Party
<1>9. Cong(Total(prod(0)) + Total(prod(1)) + Total(prod(2)), Total(x), m)
  <2>1. \A i \in 1..n : Cong(prod(0)[i] + prod(1)[i] + prod(2)[i], x[i], m)
    BY <1>5
  <2>2. prod(0) \in [1..n -> Int] /\ prod(1) \in [1..n -> Int] /\ prod(2) \in [1..n -> Int]
    BY <1>6, <1>8
  <2> HIDE DEF prod, x
  <2> QED BY <1>7, <2>1, <2>2, TotalCong
<1>10. PICK c : c = [p \in Party |-> [i \in 1..1 |-> Total(prod(p))]]
  OBVIOUS
<1>11. \A p \in Party : \A i \in 1..Length(r) : Contribution(s[p], p, r)[i] = c[p][i]
  BY <1>1, <1>3, <1>10 DEF Contribution
<1> HIDE DEF prod, x
<1>12. \A p \in Party : Total(prod(p)) \in Int
  BY <1>6, TotalType
<1>13. c \in [Party -> [1..Length(r) -> Int]]
  BY <1>1, <1>10, <1>12
<1>14. Cong(c[0][1] + c[1][1] + c[2][1], Total(x) % m, m)
  <2>1. PICK u \in Int, v \in Int, w \in Int :
           u = Total(prod(0)) /\ v = Total(prod(1)) /\ w = Total(prod(2))
    BY <1>8, <1>12
  <2>2. PICK t \in Int : t = Total(x)
    BY <1>7, TotalType
  <2>3. c[0][1] = u /\ c[1][1] = v /\ c[2][1] = w
    BY <1>8, <1>10, <2>1
  <2>4. Cong(u + v + w, t, m)
    BY <1>9, <2>1, <2>2
  <2>5. Cong(u + v + w, t % m, m)
    BY <2>4, CongMod, u + v + w \in Int
  <2> QED BY <2>2, <2>3, <2>5, Zenon
<1> QED BY <1>1, <1>2, <1>4, <1>11, <1>13, <1>14 DEF AddsUp

-----------------------------------------------------------------------------
\* One round keeps the shares good.

LEMMA NextType == \A p \in Party : NEXT(p) \in Party
  BY DEF NEXT, Party

\* A round touches its output only.
LEMMA OtherWires ==
    ASSUME NEW r \in Rounds, NEW s, AreShares(s), NEW g, NEW env, IsEnv(env),
           NEW w \in Wire, w # r.o \/ r.op = "reveal"
    PROVE  /\ AreShares(After(s, r, g)) /\ \A p \in Party : After(s, r, g)[p][w] = s[p][w]
           /\ Meaning(env, r)[w] = env[w]
<1>1. \A p \in Party : DOMAIN After(s, r, g)[p] = Wire /\ After(s, r, g)[p][w] = s[p][w]
  BY DEF After, AreShares
<1>2. r.op \in {"share", "reshare", "add", "sub", "mul", "dot", "conv1", "conv2", "reveal"}
  BY DEF Rounds
<1>3. Meaning(env, r)[w] = env[w]
  BY <1>2 DEF Meaning, IsEnv, Local
<1> QED BY <1>1, <1>3 DEF AreShares

LEMMA SameWire ==
    ASSUME NEW s, NEW t, NEW env, NEW e, NEW w \in Wire,
           \A p \in Party : t[p][w] = s[p][w], e[w] = env[w], GoodWire(s, env, w)
    PROVE  GoodWire(t, e, w)
  BY NextType, SMTT(40) DEF GoodWire, Replicated, SumOf, Party

LEMMA MaskedRound ==
    ASSUME NEW r \in Rounds, Legal(r), r.op \in Summed, NEW s, NEW g, AreShares(s),
           NEW c, NEW v, AddsUp(c, s, r, v)
    PROVE  /\ Replicated(After(s, r, g), r.o)
           /\ \A i \in 1..Length(r) : v[i] \in Int => Cong(SumOf(After(s, r, g), r.o, i), v[i], M(r.o))
<1> DEFINE t == After(s, r, g)
<1>1. r.o \in Wire /\ r.op \notin Local /\ r.op # "reveal" /\ r.op \notin {"conv1", "conv2"}
  BY DEF Rounds, Summed, Local
<1>2. \A p \in Party : /\ t[p][r.o].this = Sent(s[p], p, r, g)
                       /\ t[p][r.o].nxt = Sent(s[NEXT(p)], NEXT(p), r, g)
  BY <1>1 DEF After, AreShares, KeepOf
<1>3. /\ \A p \in Party : Sent(s[p], p, r, g) \in Vector(r.o)
      /\ \A i \in 1..Length(r) :
            Cong(Sent(s[0], 0, r, g)[i] + Sent(s[1], 1, r, g)[i] + Sent(s[2], 2, r, g)[i],
                 c[0][i] + c[1][i] + c[2][i], M(r.o))
  BY SentSum DEF AddsUp
<1> HIDE DEF t
<1>4. Replicated(t, r.o)
  <2> SUFFICES ASSUME NEW p \in Party
               PROVE  t[p][r.o].this \in Vector(r.o) /\ t[p][r.o].nxt = t[NEXT(p)][r.o].this
    BY DEF Replicated
  <2>1. PICK q \in Party : q = NEXT(p)
    BY NextType
  <2>2. t[p][r.o].this = Sent(s[p], p, r, g) /\ t[p][r.o].nxt = Sent(s[q], q, r, g)
    BY <1>2, <2>1
  <2>3. t[q][r.o].this = Sent(s[q], q, r, g)
    BY <1>2
  <2> QED BY <1>3, <2>1, <2>2, <2>3
<1>5. ASSUME NEW i \in 1..Length(r), v[i] \in Int
      PROVE  Cong(SumOf(t, r.o, i), v[i], M(r.o))
  <2>1. /\ t[0][r.o].this[i] = Sent(s[0], 0, r, g)[i] /\ t[1][r.o].this[i] = Sent(s[1], 1, r, g)[i]
        /\ t[2][r.o].this[i] = Sent(s[2], 2, r, g)[i]
    BY <1>2 DEF Party
  <2>2. Cong(SumOf(t, r.o, i), c[0][i] + c[1][i] + c[2][i], M(r.o))
    BY <1>3, <2>1 DEF SumOf
  <2>3. SumOf(t, r.o, i) \in Int
    <3>1. i \in 1..Size[r.o]
      BY DEF Length
    <3> QED BY <1>1, <1>4, <3>1, ElementType DEF SumOf
  <2>4. c[0][i] + c[1][i] + c[2][i] \in Int
    <3>1. 0 \in Party /\ 1 \in Party /\ 2 \in Party
      BY DEF Party
    <3>2. c[0][i] \in Int /\ c[1][i] \in Int /\ c[2][i] \in Int
      BY <3>1 DEF AddsUp
    <3> QED BY <3>2
  <2>5. Cong(c[0][i] + c[1][i] + c[2][i], v[i], M(r.o))
    BY DEF AddsUp
  <2> QED BY <1>1, <1>5, <2>2, <2>3, <2>4, <2>5, Modulus, CongTrans
<1> QED BY <1>4, <1>5 DEF t

\* The sum or difference of vectors of shares.
LEMMA CombinedType ==
    ASSUME NEW r \in Rounds, NEW u, NEW v,
           \A i \in 1..Length(r) : u[i] \in Int /\ v[i] \in Int
    PROVE  /\ Combined(r, u, v) \in Vector(r.o)
           /\ \A i \in 1..Length(r) : Combined(r, u, v)[i] =
                 (IF r.op = "add" THEN u[i] + v[i] ELSE u[i] - v[i]) % M(r.o)
<1>1. r.o \in Wire
  BY DEF Rounds
<1>2. PICK m \in Nat \ {0} : m = M(r.o) /\ m = 2^Width[r.o] /\ Ring(r.o) = 0..(m - 1)
  BY <1>1, Modulus DEF M, Ring
<1>3. Combined(r, u, v)
        = [i \in 1..Length(r) |-> (IF r.op = "add" THEN u[i] + v[i] ELSE u[i] - v[i]) % m]
  BY <1>2 DEF Combined, Mod
<1>4. \A i \in 1..Length(r) :
         (IF r.op = "add" THEN u[i] + v[i] ELSE u[i] - v[i]) % m \in Ring(r.o)
  <2> TAKE i \in 1..Length(r)
  <2>1. PICK x \in Int : x = IF r.op = "add" THEN u[i] + v[i] ELSE u[i] - v[i]
    OBVIOUS
  <2>2. x % m \in 0..(m - 1)
    BY ModIsCong
  <2> QED BY <1>2, <2>1, <2>2
<1>5. Combined(r, u, v) \in [1..Length(r) -> Ring(r.o)]
  BY <1>3, <1>4
<1> QED BY <1>2, <1>3, <1>5 DEF Vector, Length

LEMMA CongCombined ==
    ASSUME NEW a0 \in Int, NEW a1 \in Int, NEW a2 \in Int, NEW b0 \in Int, NEW b1 \in Int, NEW b2 \in Int,
           NEW a \in Int, NEW b \in Int, NEW m \in Nat \ {0},
           Cong(a0 + a1 + a2, a, m), Cong(b0 + b1 + b2, b, m)
    PROVE  /\ Cong(((a0 + b0) % m) + ((a1 + b1) % m) + ((a2 + b2) % m), (a + b) % m, m)
           /\ Cong(((a0 - b0) % m) + ((a1 - b1) % m) + ((a2 - b2) % m), (a - b) % m, m)
<1>1. PICK e \in Int, f \in Int : e = a0 + a1 + a2 /\ f = b0 + b1 + b2
  OBVIOUS
<1>2. Cong(e + f, a + b, m) /\ Cong(e - f, a - b, m)
  BY <1>1, CongSum
<1>3. ASSUME NEW x \in Int, NEW y \in Int, NEW z \in Int, NEW v \in Int, Cong(x + y + z, v, m)
      PROVE  Cong((x % m) + (y % m) + (z % m), v % m, m)
  <2>1. x % m \in Int /\ y % m \in Int /\ z % m \in Int
    BY ModIsCong
  <2>2. (x % m) + (y % m) + (z % m) \in Int /\ x + y + z \in Int
    BY <2>1
  <2>3. Cong((x % m) + (y % m) + (z % m), v, m)
    BY <1>3, <2>2, CongThreeMods, CongTrans
  <2> QED BY <2>2, <2>3, CongMod
<1>4. (a0 + b0) + (a1 + b1) + (a2 + b2) = e + f /\ (a0 - b0) + (a1 - b1) + (a2 - b2) = e - f
  BY <1>1
<1>5. Cong(((a0 + b0) % m) + ((a1 + b1) % m) + ((a2 + b2) % m), (a + b) % m, m)
  <2>1. PICK x \in Int, y \in Int, z \in Int, v \in Int :
           x = a0 + b0 /\ y = a1 + b1 /\ z = a2 + b2 /\ v = a + b
    OBVIOUS
  <2>2. Cong(x + y + z, v, m)
    BY <1>2, <1>4, <2>1
  <2> QED BY <1>3, <2>1, <2>2, Zenon
<1>6. Cong(((a0 - b0) % m) + ((a1 - b1) % m) + ((a2 - b2) % m), (a - b) % m, m)
  <2>1. PICK x \in Int, y \in Int, z \in Int, v \in Int :
           x = a0 - b0 /\ y = a1 - b1 /\ z = a2 - b2 /\ v = a - b
    OBVIOUS
  <2>2. Cong(x + y + z, v, m)
    BY <1>2, <1>4, <2>1
  <2> QED BY <1>3, <2>1, <2>2, Zenon
<1> QED BY <1>5, <1>6

LEMMA LocalRound ==
    ASSUME NEW r \in Rounds, Legal(r), r.op \in Local, NEW s, NEW g, NEW env, IsEnv(env),
           GoodShares(s, env)
    PROVE  GoodWire(After(s, r, g), Meaning(env, r), r.o)
<1> DEFINE t == After(s, r, g)
<1>1. /\ r.a \in Wire /\ r.b \in Wire /\ r.o \in Wire /\ r.op # "reveal"
      /\ Length(r) = Size[r.o] /\ Length(r) = Size[r.a] /\ Length(r) = Size[r.b]
      /\ M(r.a) = M(r.o) /\ M(r.b) = M(r.o)
  BY DEF Rounds, Local, Legal, SameType, Length, M
<1>2. /\ \A p \in Party :
            /\ t[p][r.o].this = Combined(r, s[p][r.a].this, s[p][r.b].this)
            /\ t[p][r.o].nxt = Combined(r, s[p][r.a].nxt, s[p][r.b].nxt)
      /\ Meaning(env, r)[r.o] = Combined(r, env[r.a], env[r.b])
  BY <1>1 DEF After, GoodShares, AreShares, Meaning, IsEnv, Local
<1> HIDE DEF t
<1>3. GoodWire(s, env, r.a) /\ GoodWire(s, env, r.b)
  BY <1>1 DEF GoodShares
<1>4. \A i \in 1..Length(r) : \A p \in Party : s[p][r.a].this[i] \in Int /\ s[p][r.b].this[i] \in Int
  <2> TAKE i \in 1..Length(r)
  <2>1. /\ s[0][r.a].this[i] \in Int /\ s[1][r.a].this[i] \in Int /\ s[2][r.a].this[i] \in Int
        /\ s[0][r.b].this[i] \in Int /\ s[1][r.b].this[i] \in Int /\ s[2][r.b].this[i] \in Int
    BY <1>1, <1>3, ElementType DEF GoodWire
  <2>2. \A p \in Party : p = 0 \/ p = 1 \/ p = 2
    BY DEF Party
  <2> QED BY <2>1, <2>2, Zenon
<1>5. \A p \in Party :
         /\ t[p][r.o].this \in Vector(r.o)
         /\ \A i \in 1..Length(r) : t[p][r.o].this[i] =
              (IF r.op = "add" THEN s[p][r.a].this[i] + s[p][r.b].this[i]
               ELSE s[p][r.a].this[i] - s[p][r.b].this[i]) % M(r.o)
  <2> TAKE p \in Party
  <2>1. PICK u, v : u = s[p][r.a].this /\ v = s[p][r.b].this
    OBVIOUS
  <2>2. \A i \in 1..Length(r) : u[i] \in Int /\ v[i] \in Int
    BY <1>4, <2>1
  <2>3. t[p][r.o].this = Combined(r, u, v)
    BY <1>2, <2>1
  <2>4. /\ Combined(r, u, v) \in Vector(r.o)
        /\ \A i \in 1..Length(r) : Combined(r, u, v)[i] =
              (IF r.op = "add" THEN u[i] + v[i] ELSE u[i] - v[i]) % M(r.o)
    BY <2>2, CombinedType
  <2> QED BY <2>1, <2>3, <2>4
<1>6. \A p \in Party : t[p][r.o].nxt = t[NEXT(p)][r.o].this
  <2> TAKE p \in Party
  <2>1. s[p][r.a].nxt = s[NEXT(p)][r.a].this /\ s[p][r.b].nxt = s[NEXT(p)][r.b].this
    BY <1>3 DEF GoodWire, Replicated
  <2>2. PICK q \in Party : q = NEXT(p)
    BY NextType
  <2>3. /\ t[p][r.o].nxt = Combined(r, s[p][r.a].nxt, s[p][r.b].nxt)
        /\ t[q][r.o].this = Combined(r, s[q][r.a].this, s[q][r.b].this)
    BY <1>2
  <2> QED BY <2>1, <2>2, <2>3
<1>7. ASSUME NEW i \in 1..Length(r)
      PROVE  Cong(SumOf(t, r.o, i), Meaning(env, r)[r.o][i], M(r.o))
  <2>0. 0 \in Party /\ 1 \in Party /\ 2 \in Party
    BY DEF Party
  <2>1. PICK a0 \in Int, a1 \in Int, a2 \in Int :
           a0 = s[0][r.a].this[i] /\ a1 = s[1][r.a].this[i] /\ a2 = s[2][r.a].this[i]
    BY <1>4, <2>0
  <2>2. PICK b0 \in Int, b1 \in Int, b2 \in Int :
           b0 = s[0][r.b].this[i] /\ b1 = s[1][r.b].this[i] /\ b2 = s[2][r.b].this[i]
    BY <1>4, <2>0
  <2>3. PICK a \in Int, b \in Int : a = env[r.a][i] /\ b = env[r.b][i]
    BY <1>1, EnvType
  <2>4. PICK m \in Nat \ {0} : m = M(r.o)
    BY <1>1, Modulus
  <2>5. Cong(a0 + a1 + a2, a, m) /\ Cong(b0 + b1 + b2, b, m)
    BY <1>1, <1>3, <2>1, <2>2, <2>3, <2>4 DEF GoodWire, SumOf
  <2>6. Meaning(env, r)[r.o][i] = (IF r.op = "add" THEN a + b ELSE a - b) % m
    <3>1. \A j \in 1..Length(r) : env[r.a][j] \in Int /\ env[r.b][j] \in Int
      BY <1>1, EnvType
    <3> QED BY <1>2, <2>3, <2>4, <3>1, CombinedType
  <2>8. CASE r.op = "add"
    <3>1. SumOf(t, r.o, i) = ((a0 + b0) % m) + ((a1 + b1) % m) + ((a2 + b2) % m)
      BY <1>5, <2>1, <2>2, <2>4, <2>0, <2>8, Zenon DEF SumOf
    <3>2. Meaning(env, r)[r.o][i] = (a + b) % m
      BY <2>6, <2>8
    <3>3. Cong(((a0 + b0) % m) + ((a1 + b1) % m) + ((a2 + b2) % m), (a + b) % m, m)
      BY <2>5, CongCombined
    <3> QED BY <2>4, <3>1, <3>2, <3>3, Zenon
  <2>9. CASE r.op # "add"
    <3>1. SumOf(t, r.o, i) = ((a0 - b0) % m) + ((a1 - b1) % m) + ((a2 - b2) % m)
      BY <1>5, <2>1, <2>2, <2>4, <2>0, <2>9, Zenon DEF SumOf
    <3>2. Meaning(env, r)[r.o][i] = (a - b) % m
      BY <2>6, <2>9
    <3>3. Cong(((a0 - b0) % m) + ((a1 - b1) % m) + ((a2 - b2) % m), (a - b) % m, m)
      BY <2>5, CongCombined
    <3> QED BY <2>4, <3>1, <3>2, <3>3, Zenon
  <2> QED BY <2>8, <2>9
<1> QED BY <1>1, <1>5, <1>6, <1>7 DEF GoodWire, Replicated, t

LEMMA PlainRound ==
    ASSUME NEW r \in Rounds, Legal(r), r.op \in Summed, NEW s, NEW g, NEW env, IsEnv(env),
           GoodShares(s, env), IsEnv(Meaning(env, r))
    PROVE  GoodWire(After(s, r, g), Meaning(env, r), r.o)
<1>1. PICK c : AddsUp(c, s, r, Meaning(env, r)[r.o])
  BY ShareAddsUp, ReshareAddsUp, MulAddsUp, DotAddsUp DEF Summed
<1>2. r.o \in Wire /\ Length(r) = Size[r.o]
  BY DEF Rounds, Length
<1>3. PICK v : v = Meaning(env, r)[r.o]
  OBVIOUS
<1>4. \A i \in 1..Length(r) : v[i] \in Int
  BY <1>2, <1>3, EnvType
<1>5. AreShares(s) /\ AddsUp(c, s, r, v)
  BY <1>1, <1>3 DEF GoodShares
<1>6. /\ Replicated(After(s, r, g), r.o)
      /\ \A i \in 1..Length(r) : Cong(SumOf(After(s, r, g), r.o, i), v[i], M(r.o))
  BY <1>4, <1>5, MaskedRound
<1> QED BY <1>2, <1>3, <1>6 DEF GoodWire

-----------------------------------------------------------------------------
\* The two rounds of ringConv

\* What the masked product is taken from, by party p.
Base(s, r, p, i) ==
    IF r.op = "conv1" THEN IF p = 2 THEN 0 ELSE s[p][r.a].this[i]
    ELSE s[p][r.o].this[i] + IF p = 2 THEN s[p][r.a].this[i] ELSE 0

\* After the first round the output is the exclusive or of the bits of P0 and P1.
HalfWay(s, env, r) ==
    /\ AreShares(s)
    /\ \A w \in Wire \ {r.o} : GoodWire(s, env, w)
    /\ Replicated(s, r.o)
    /\ \A i \in 1..Length(r) :
          Cong(SumOf(s, r.o, i),
               s[0][r.a].this[i] + s[1][r.a].this[i] - 2 * (s[0][r.a].this[i] * s[1][r.a].this[i]),
               M(r.o))

LEMMA CongKept ==
    ASSUME NEW b0 \in Int, NEW b1 \in Int, NEW b2 \in Int, NEW c0 \in Int, NEW c1 \in Int, NEW c2 \in Int,
           NEW c \in Int, NEW m \in Nat \ {0}, Cong(c0 + c1 + c2, c, m)
    PROVE  Cong(((b0 - 2 * c0) % m) + ((b1 - 2 * c1) % m) + ((b2 - 2 * c2) % m),
                (b0 + b1 + b2) - 2 * c, m)
<1>1. PICK x \in Int, y \in Int, z \in Int : x = b0 - 2 * c0 /\ y = b1 - 2 * c1 /\ z = b2 - 2 * c2
  OBVIOUS
<1>2. PICK e \in Int, f \in Int : e = b0 + b1 + b2 /\ f = c0 + c1 + c2
  OBVIOUS
<1>3. Cong((x % m) + (y % m) + (z % m), x + y + z, m)
  BY CongThreeMods
<1>4. Cong(2 * f, 2 * c, m) /\ Cong(e, e, m)
  <2>1. Cong(2, 2, m) /\ Cong(f, c, m) /\ Cong(e, e, m)
    BY <1>2, CongSelf
  <2> QED BY <2>1, CongProduct
<1>5. 2 * f \in Int /\ 2 * c \in Int /\ x + y + z = e - 2 * f
  BY <1>1, <1>2
<1>6. Cong(e - 2 * f, e - 2 * c, m)
  BY <1>4, <1>5, CongSum
<1>7. x % m \in Int /\ y % m \in Int /\ z % m \in Int
  BY ModIsCong
<1>8. (x % m) + (y % m) + (z % m) \in Int /\ x + y + z \in Int /\ e - 2 * c \in Int
  BY <1>7
<1>9. Cong((x % m) + (y % m) + (z % m), e - 2 * c, m)
  BY <1>3, <1>5, <1>6, <1>8, CongTrans
<1> QED BY <1>1, <1>2, <1>9, Zenon

LEMMA ConvRound ==
    ASSUME NEW r \in Rounds, Legal(r), r.op \in {"conv1", "conv2"}, NEW s, NEW g, AreShares(s),
           Replicated(s, r.a), Replicated(s, r.o),
           NEW c \in [Party -> [1..Length(r) -> Int]],
           \A p \in Party : \A i \in 1..Length(r) : Contribution(s[p], p, r)[i] = c[p][i]
    PROVE  /\ Replicated(After(s, r, g), r.o)
           /\ \A i \in 1..Length(r) :
                 /\ \A p \in Party : Base(s, r, p, i) \in Int
                 /\ Cong(SumOf(After(s, r, g), r.o, i),
                         (Base(s, r, 0, i) + Base(s, r, 1, i) + Base(s, r, 2, i))
                         - 2 * (c[0][i] + c[1][i] + c[2][i]), M(r.o))
<1> DEFINE t == After(s, r, g)
           sent(p) == Sent(s[p], p, r, g)
<1>1. /\ r.a \in Wire /\ r.o \in Wire /\ r.op \notin Local /\ r.op # "reveal"
      /\ Size[r.a] = Size[r.o] /\ Length(r) = Size[r.o]
  BY DEF Rounds, Local, Legal, Length
<1>2. PICK m \in Nat \ {0} : m = M(r.o) /\ m = 2^Width[r.o] /\ Ring(r.o) = 0..(m - 1)
  BY <1>1, Modulus DEF M, Ring
<1>3. PICK n \in Nat : n = Length(r) /\ n = Size[r.o]
  BY <1>1, Modulus
<1>4. /\ \A p \in Party : sent(p) \in Vector(r.o)
      /\ \A i \in 1..n : Cong(sent(0)[i] + sent(1)[i] + sent(2)[i], c[0][i] + c[1][i] + c[2][i], m)
  <2>1. /\ \A p \in Party : Sent(s[p], p, r, g) \in Vector(r.o)
        /\ \A i \in 1..Length(r) :
              Cong(Sent(s[0], 0, r, g)[i] + Sent(s[1], 1, r, g)[i] + Sent(s[2], 2, r, g)[i],
                   c[0][i] + c[1][i] + c[2][i], M(r.o))
    BY SentSum
  <2> QED BY <1>2, <1>3, <2>1, Zenon
<1>5. \A p \in Party : p = 0 \/ p = 1 \/ p = 2
  BY DEF Party
<1>6. 0 \in Party /\ 1 \in Party /\ 2 \in Party /\ NEXT(0) = 1 /\ NEXT(1) = 2 /\ NEXT(2) = 0
  BY DEF Party, NEXT
<1>7. \A i \in 1..n : \A p \in Party : Base(s, r, p, i) \in Int /\ sent(p)[i] \in Int
  <2> TAKE i \in 1..n
  <2>1. \A p \in Party : s[p][r.a].this[i] \in Int /\ s[p][r.o].this[i] \in Int
    <3>1. /\ s[0][r.a].this[i] \in Int /\ s[1][r.a].this[i] \in Int /\ s[2][r.a].this[i] \in Int
          /\ s[0][r.o].this[i] \in Int /\ s[1][r.o].this[i] \in Int /\ s[2][r.o].this[i] \in Int
      <4>1. Size[r.a] = n
        BY <1>3 DEF Legal
      <4>2. s[0][r.a].this[i] \in Int /\ s[1][r.a].this[i] \in Int /\ s[2][r.a].this[i] \in Int
        BY <1>1, <4>1, ElementType, Z3
      <4>3. s[0][r.o].this[i] \in Int /\ s[1][r.o].this[i] \in Int /\ s[2][r.o].this[i] \in Int
        BY <1>1, <1>3, ElementType, Z3
      <4> QED BY <4>2, <4>3
    <3> QED BY <1>5, <3>1, Zenon
  <2>2. \A p \in Party : sent(p)[i] \in Int
    <3> TAKE p \in Party
    <3>1. sent(p)[i] \in Ring(r.o)
      BY <1>3, <1>4 DEF Vector
    <3> HIDE DEF sent
    <3> QED BY <1>2, <3>1
  <2> HIDE DEF sent
  <2> QED BY <2>1, <2>2 DEF Base
<1>8. \A p \in Party :
         /\ t[p][r.o].this = [i \in 1..n |-> (Base(s, r, p, i) - 2 * sent(p)[i]) % m]
         /\ t[p][r.o].nxt = [i \in 1..n |-> (Base(s, r, NEXT(p), i) - 2 * sent(NEXT(p))[i]) % m]
  <2> TAKE p \in Party
  <2>1. t[p][r.o] = KeepOf(s[p], p, r, sent(p), sent(NEXT(p)))
    BY <1>1 DEF After, AreShares
  <2>2. /\ s[p][r.a].nxt = s[NEXT(p)][r.a].this /\ s[p][r.o].nxt = s[NEXT(p)][r.o].this
        /\ (p = 1) = (NEXT(p) = 2)
    BY <1>5, <1>6 DEF Replicated
  <2> HIDE DEF sent
  <2>3. CASE r.op = "conv1"
    <3>1. /\ KeepOf(s[p], p, r, sent(p), sent(NEXT(p))).this
               = [i \in 1..n |-> ((IF p = 2 THEN 0 ELSE s[p][r.a].this[i]) - 2 * sent(p)[i]) % m]
          /\ KeepOf(s[p], p, r, sent(p), sent(NEXT(p))).nxt
               = [i \in 1..n |-> ((IF p = 1 THEN 0 ELSE s[p][r.a].nxt[i]) - 2 * sent(NEXT(p))[i]) % m]
      BY <1>2, <1>3, <2>3 DEF KeepOf, Mod
    <3> QED BY <2>1, <2>2, <2>3, <3>1 DEF Base
  <2>4. CASE r.op = "conv2"
    <3>1. /\ KeepOf(s[p], p, r, sent(p), sent(NEXT(p))).this
               = [i \in 1..n |-> ((s[p][r.o].this[i] + IF p = 2 THEN s[p][r.a].this[i] ELSE 0)
                                  - 2 * sent(p)[i]) % m]
          /\ KeepOf(s[p], p, r, sent(p), sent(NEXT(p))).nxt
               = [i \in 1..n |-> ((s[p][r.o].nxt[i] + IF p = 1 THEN s[p][r.a].nxt[i] ELSE 0)
                                  - 2 * sent(NEXT(p))[i]) % m]
      BY <1>2, <1>3, <2>4 DEF KeepOf, Mod
    <3>2. /\ \A i \in 1..n : s[p][r.o].this[i] + (IF p = 2 THEN s[p][r.a].this[i] ELSE 0)
                              = Base(s, r, p, i)
          /\ \A i \in 1..n : s[p][r.o].nxt[i] + (IF p = 1 THEN s[p][r.a].nxt[i] ELSE 0)
                              = Base(s, r, NEXT(p), i)
      BY <2>2, <2>4 DEF Base
    <3> QED BY <2>1, <3>1, <3>2, ZenonT(60)
  <2> QED BY <2>3, <2>4
<1> HIDE DEF t, sent
<1>9. Replicated(t, r.o)
  <2> SUFFICES ASSUME NEW p \in Party
               PROVE  t[p][r.o].this \in Vector(r.o) /\ t[p][r.o].nxt = t[NEXT(p)][r.o].this
    BY DEF Replicated
  <2>1. \A i \in 1..n : (Base(s, r, p, i) - 2 * sent(p)[i]) % m \in Ring(r.o)
    <3> TAKE i \in 1..n
    <3>1. PICK x \in Int : x = Base(s, r, p, i) - 2 * sent(p)[i]
      BY <1>7
    <3>2. x % m \in 0..(m - 1)
      BY ModIsCong
    <3> QED BY <1>2, <3>1, <3>2
  <2>2. t[p][r.o].this \in Vector(r.o)
    <3>1. t[p][r.o].this = [i \in 1..n |-> (Base(s, r, p, i) - 2 * sent(p)[i]) % m]
      BY <1>8
    <3>2. t[p][r.o].this \in [1..n -> Ring(r.o)]
      BY <2>1, <3>1
    <3> QED BY <1>3, <3>2 DEF Vector
  <2> QED BY <1>8, <2>2, NextType
<1>10. ASSUME NEW i \in 1..n
       PROVE  Cong(SumOf(t, r.o, i), (Base(s, r, 0, i) + Base(s, r, 1, i) + Base(s, r, 2, i))
                                     - 2 * (c[0][i] + c[1][i] + c[2][i]), m)
  <2>1. PICK b0 \in Int, b1 \in Int, b2 \in Int :
           b0 = Base(s, r, 0, i) /\ b1 = Base(s, r, 1, i) /\ b2 = Base(s, r, 2, i)
    BY <1>6, <1>7
  <2>2. PICK s0 \in Int, s1 \in Int, s2 \in Int : s0 = sent(0)[i] /\ s1 = sent(1)[i] /\ s2 = sent(2)[i]
    BY <1>6, <1>7
  <2>3. PICK v \in Int : v = c[0][i] + c[1][i] + c[2][i]
    <3>1. c[0][i] \in Int /\ c[1][i] \in Int /\ c[2][i] \in Int
      BY <1>3, <1>6
    <3> QED BY <3>1
  <2>4. Cong(s0 + s1 + s2, v, m)
    BY <1>4, <2>2, <2>3
  <2>5. Cong(((b0 - 2 * s0) % m) + ((b1 - 2 * s1) % m) + ((b2 - 2 * s2) % m), (b0 + b1 + b2) - 2 * v, m)
    BY <2>4, CongKept
  <2>6. /\ t[0][r.o].this[i] = (b0 - 2 * s0) % m /\ t[1][r.o].this[i] = (b1 - 2 * s1) % m
        /\ t[2][r.o].this[i] = (b2 - 2 * s2) % m
    <3>1. ASSUME NEW p \in Party
          PROVE  t[p][r.o].this[i] = (Base(s, r, p, i) - 2 * sent(p)[i]) % m
      <4>1. t[p][r.o].this = [j \in 1..n |-> (Base(s, r, p, j) - 2 * sent(p)[j]) % m]
        BY <1>8
      <4> QED BY <4>1
    <3> QED BY <1>6, <2>1, <2>2, <3>1, Zenon
  <2> QED BY <2>1, <2>3, <2>5, <2>6, Zenon DEF SumOf
<1> QED BY <1>2, <1>3, <1>7, <1>9, <1>10 DEF t

LEMMA FirstHalf ==
    ASSUME NEW r \in Rounds, Legal(r), r.op = "conv1", NEW s, NEW g, NEW env, IsEnv(env),
           GoodShares(s, env)
    PROVE  HalfWay(After(s, r, g), Meaning(env, r), r)
<1> DEFINE t == After(s, r, g)
<1>1. /\ r.a \in Wire /\ r.o \in Wire /\ r.a # r.o
      /\ Size[r.a] = Size[r.o] /\ Length(r) = Size[r.o]
  BY DEF Rounds, Legal, Length
<1>2. PICK m \in Nat \ {0} : m = M(r.o)
  BY <1>1, Modulus
<1>3. PICK c : c = [p \in Party |-> [i \in 1..Length(r) |->
                       IF p = 0 THEN s[0][r.a].this[i] * s[0][r.a].nxt[i] ELSE 0]]
  OBVIOUS
<1>4. AreShares(s) /\ Replicated(s, r.a) /\ Replicated(s, r.o)
  BY <1>1 DEF GoodShares, GoodWire
<1>5. \A i \in 1..Length(r) :
         /\ s[0][r.a].this[i] \in Int /\ s[1][r.a].this[i] \in Int
         /\ s[0][r.a].nxt[i] = s[1][r.a].this[i]
         /\ s[0][r.a].this[i] * s[0][r.a].nxt[i] \in Int
  <2> TAKE i \in 1..Length(r)
  <2>1. /\ s[0][r.a].this[i] \in Int /\ s[1][r.a].this[i] \in Int
        /\ s[0][r.a].nxt[i] = s[1][r.a].this[i]
    BY <1>1, <1>4, ElementType
  <2>2. PICK x \in Int, y \in Int : x = s[0][r.a].this[i] /\ y = s[1][r.a].this[i]
    BY <2>1
  <2>3. x * y \in Int
    BY Z3
  <2> QED BY <2>1, <2>2, <2>3
<1>6. c \in [Party -> [1..Length(r) -> Int]]
  BY <1>3, <1>5
<1>7. \A p \in Party : \A i \in 1..Length(r) : Contribution(s[p], p, r)[i] = c[p][i]
  BY <1>3 DEF Contribution
<1>8. /\ Replicated(t, r.o)
      /\ \A i \in 1..Length(r) :
            Cong(SumOf(t, r.o, i), (Base(s, r, 0, i) + Base(s, r, 1, i) + Base(s, r, 2, i))
                                   - 2 * (c[0][i] + c[1][i] + c[2][i]), m)
  BY <1>2, <1>4, <1>6, <1>7, ConvRound
<1>9. AreShares(t) /\ \A p \in Party : t[p][r.a] = s[p][r.a]
  BY <1>1, <1>4, OtherWires
<1>10. ASSUME NEW w \in Wire \ {r.o} PROVE GoodWire(t, Meaning(env, r), w)
  <2>1. (\A p \in Party : t[p][w] = s[p][w]) /\ Meaning(env, r)[w] = env[w]
    BY <1>4, <1>10, OtherWires
  <2>2. GoodWire(s, env, w)
    BY DEF GoodShares
  <2> QED BY <2>1, <2>2, SameWire
<1> HIDE DEF t
<1>11. ASSUME NEW i \in 1..Length(r)
       PROVE  Cong(SumOf(t, r.o, i), t[0][r.a].this[i] + t[1][r.a].this[i]
                                     - 2 * (t[0][r.a].this[i] * t[1][r.a].this[i]), m)
  <2>1. PICK x \in Int, y \in Int : /\ x = s[0][r.a].this[i] /\ y = s[1][r.a].this[i]
                                    /\ y = s[0][r.a].nxt[i]
    BY <1>5
  <2>2. t[0][r.a].this[i] = x /\ t[1][r.a].this[i] = y
    <3>1. 0 \in Party /\ 1 \in Party
      BY DEF Party
    <3> QED BY <1>9, <2>1, <3>1, Zenon
  <2>3. Base(s, r, 0, i) = x /\ Base(s, r, 1, i) = y /\ Base(s, r, 2, i) = 0
    BY <2>1 DEF Base
  <2>4. c[0][i] = x * y /\ c[1][i] = 0 /\ c[2][i] = 0
    BY <1>3, <2>1 DEF Party
  <2>5. PICK z \in Int : z = x * y
    BY Z3
  <2>6. Cong(SumOf(t, r.o, i), (x + y + 0) - 2 * (z + 0 + 0), m)
    BY <1>8, <2>3, <2>4, <2>5, Zenon
  <2>7. (x + y + 0) - 2 * (z + 0 + 0) = x + y - 2 * z
    OBVIOUS
  <2> QED BY <2>2, <2>5, <2>6, <2>7, Zenon
<1> QED BY <1>2, <1>8, <1>9, <1>10, <1>11 DEF HalfWay, t

\* The exclusive or of three bits.
LEMMA ThreeBits ==
    ASSUME NEW x \in 0..1, NEW y \in 0..1, NEW z \in 0..1, NEW e \in 0..1, Cong(x + y + z, e, 2)
    PROVE  (x + y - 2 * (x * y)) + z - 2 * ((x + y - 2 * (x * y)) * z) = e
<1>1. PICK k \in Int : x + y + z = e + k * 2
  BY DEF Cong
<1>2. x = 0 \/ x = 1
  OBVIOUS
<1>3. y = 0 \/ y = 1
  OBVIOUS
<1>4. z = 0 \/ z = 1
  OBVIOUS
<1> QED BY <1>1, <1>2, <1>3, <1>4, Z3

\* The elements that the second round of ringConv adds up, and what each party contributes.
Operands(s, r, i, x, y, z, u, v, w) ==
    /\ x = s[0][r.a].this[i] /\ y = s[1][r.a].this[i] /\ z = s[2][r.a].this[i]
    /\ u = s[0][r.o].this[i] /\ v = s[1][r.o].this[i] /\ w = s[2][r.o].this[i]
    /\ LastBit(s[0], 0, r, i) = 0 /\ LastBit(s[1], 1, r, i) = v * z
    /\ LastBit(s[2], 2, r, i) = (w + u) * z

LEMMA SecondHalf ==
    ASSUME NEW r \in Rounds, Legal(r), r.op = "conv2", NEW s, NEW g, NEW env, IsEnv(env),
           HalfWay(s, env, r), env[r.o] = env[r.a]
    PROVE  GoodShares(After(s, r, g), env)
<1> DEFINE t == After(s, r, g)
<1>1. /\ r.a \in Wire /\ r.o \in Wire /\ r.a # r.o /\ Width[r.a] = 1
      /\ Size[r.a] = Size[r.o] /\ Length(r) = Size[r.o]
  BY DEF Rounds, Legal, Length
<1>2. PICK m \in Nat \ {0} : m = M(r.o)
  BY <1>1, Modulus
<1>3. M(r.a) = 2 /\ Ring(r.a) = 0..1
  BY <1>1, Modulus DEF M, Ring
<1>4. PICK c : c = [p \in Party |-> [i \in 1..Length(r) |-> LastBit(s[p], p, r, i)]]
  OBVIOUS
<1>5. AreShares(s) /\ GoodWire(s, env, r.a) /\ Replicated(s, r.a) /\ Replicated(s, r.o)
  BY <1>1 DEF HalfWay, GoodWire
<1>6. 0 \in Party /\ 1 \in Party /\ 2 \in Party /\ \A p \in Party : p = 0 \/ p = 1 \/ p = 2
  BY DEF Party
\* The elements of the operands and of what is contributed.
<1>7. \A i \in 1..Length(r) : \E x, y, z \in 0..1 : \E u, v, w \in Int :
         Operands(s, r, i, x, y, z, u, v, w)
  <2> TAKE i \in 1..Length(r)
  <2>1. \A p \in Party : s[p][r.a].this[i] \in 0..1
    BY <1>1, <1>3, <1>5 DEF Replicated, Vector
  <2>2. PICK x \in 0..1, y \in 0..1, z \in 0..1 :
           x = s[0][r.a].this[i] /\ y = s[1][r.a].this[i] /\ z = s[2][r.a].this[i]
    BY <1>6, <2>1
  <2>3. PICK u \in Int, v \in Int, w \in Int :
           /\ u = s[0][r.o].this[i] /\ v = s[1][r.o].this[i] /\ w = s[2][r.o].this[i]
           /\ u = s[2][r.o].nxt[i]
    BY <1>1, <1>5, ElementType
  <2>4. z = s[1][r.a].nxt[i]
    BY <1>1, <1>5, <2>2, ElementType
  <2>5. /\ LastBit(s[0], 0, r, i) = 0 /\ LastBit(s[1], 1, r, i) = v * z
        /\ LastBit(s[2], 2, r, i) = (w + u) * z
    BY <2>2, <2>3, <2>4 DEF LastBit
  <2>6. Operands(s, r, i, x, y, z, u, v, w)
    BY <2>2, <2>3, <2>5 DEF Operands
  <2> QED BY <2>6, Zenon
<1>8. c \in [Party -> [1..Length(r) -> Int]]
  <2>1. \A p \in Party : \A i \in 1..Length(r) : LastBit(s[p], p, r, i) \in Int
    <3> TAKE p \in Party
    <3> TAKE i \in 1..Length(r)
    <3>1. LastBit(s[0], 0, r, i) \in Int /\ LastBit(s[1], 1, r, i) \in Int /\ LastBit(s[2], 2, r, i) \in Int
      <4>1. PICK x \in 0..1, y \in 0..1, z \in 0..1, u \in Int, v \in Int, w \in Int :
               Operands(s, r, i, x, y, z, u, v, w)
        BY <1>7, Zenon
      <4>2. v * z \in Int /\ (w + u) * z \in Int
        BY z \in Int, Z3
      <4> QED BY <4>1, <4>2 DEF Operands
    <3> QED BY <1>6, <3>1, Zenon
  <2> QED BY <1>4, <2>1
<1>9. \A p \in Party : \A i \in 1..Length(r) : Contribution(s[p], p, r)[i] = c[p][i]
  BY <1>4 DEF Contribution
<1>10. /\ Replicated(t, r.o)
       /\ \A i \in 1..Length(r) :
             Cong(SumOf(t, r.o, i), (Base(s, r, 0, i) + Base(s, r, 1, i) + Base(s, r, 2, i))
                                    - 2 * (c[0][i] + c[1][i] + c[2][i]), m)
  BY <1>2, <1>5, <1>8, <1>9, ConvRound
<1>11. AreShares(t)
  <2>1. \A p \in Party : DOMAIN t[p] = Wire
    BY <1>5 DEF After, AreShares
  <2> QED BY <2>1 DEF AreShares
<1>12. ASSUME NEW w \in Wire, w # r.o PROVE GoodWire(t, env, w)
  <2>1. \A p \in Party : t[p][w] = s[p][w]
    BY <1>5, <1>12, OtherWires
  <2>2. GoodWire(s, env, w)
    BY <1>12 DEF HalfWay
  <2> QED BY <2>1, <2>2, SameWire
<1>13. ASSUME NEW i \in 1..Length(r) PROVE Cong(SumOf(t, r.o, i), env[r.o][i], m)
  <2>0. PICK x \in 0..1, y \in 0..1, z \in 0..1, u \in Int, v \in Int, w \in Int :
           Operands(s, r, i, x, y, z, u, v, w)
    BY <1>7, Zenon
  <2>1. /\ x = s[0][r.a].this[i] /\ y = s[1][r.a].this[i] /\ z = s[2][r.a].this[i]
        /\ u = s[0][r.o].this[i] /\ v = s[1][r.o].this[i] /\ w = s[2][r.o].this[i]
        /\ LastBit(s[0], 0, r, i) = 0 /\ LastBit(s[1], 1, r, i) = v * z
        /\ LastBit(s[2], 2, r, i) = (w + u) * z
    BY <2>0 DEF Operands
  <2>2. PICK e \in 0..1 : e = env[r.a][i] /\ e = env[r.o][i]
    BY <1>1, <1>3, EnvType
  <2>3. Cong(x + y + z, e, 2)
    BY <1>1, <1>3, <1>5, <2>1, <2>2 DEF GoodWire, SumOf
  <2>4. PICK h \in Int : h = x + y - 2 * (x * y)
    BY x \in Int, y \in Int, Z3
  <2>5. h + z - 2 * (h * z) = e
    BY <2>3, <2>4, ThreeBits
  <2>6. Cong(u + v + w, h, m)
    BY <1>2, <2>1, <2>4 DEF HalfWay, SumOf
  <2>7. c[0][i] = 0 /\ c[1][i] = v * z /\ c[2][i] = (w + u) * z
    BY <1>4, <1>6, <2>1
  <2>8. Base(s, r, 0, i) = u + 0 /\ Base(s, r, 1, i) = v + 0 /\ Base(s, r, 2, i) = w + z
    BY <2>1 DEF Base
  <2>9. PICK o \in Int : o = u + v + w
    OBVIOUS
  <2>10. Cong(SumOf(t, r.o, i), ((u + 0) + (v + 0) + (w + z)) - 2 * (0 + v * z + (w + u) * z), m)
    BY <1>10, <2>7, <2>8, Zenon
  <2>11. ((u + 0) + (v + 0) + (w + z)) - 2 * (0 + v * z + (w + u) * z) = (o + z) - 2 * (o * z)
    BY <2>9, z \in Int, Z3
  <2>12. Cong((o + z) - 2 * (o * z), (h + z) - 2 * (h * z), m)
    <3>1. Cong(o, h, m) /\ Cong(z, z, m) /\ Cong(2, 2, m) /\ z \in Int
      BY <2>6, <2>9, CongSelf, z \in Int
    <3>2. PICK oz \in Int, hz \in Int : oz = o * z /\ hz = h * z
      BY <3>1, Z3
    <3>3. Cong(oz, hz, m)
      BY <3>1, <3>2, CongProduct
    <3>4. Cong(2 * oz, 2 * hz, m) /\ 2 * oz \in Int /\ 2 * hz \in Int
      BY <3>1, <3>3, CongProduct
    <3>5. Cong(o + z, h + z, m) /\ o + z \in Int /\ h + z \in Int
      BY <3>1, CongSum
    <3>6. Cong((o + z) - 2 * oz, (h + z) - 2 * hz, m)
      BY <3>4, <3>5, CongSum
    <3> QED BY <3>2, <3>6, Zenon
  <2>13. /\ SumOf(t, r.o, i) \in Int /\ (o + z) - 2 * (o * z) \in Int
         /\ (h + z) - 2 * (h * z) \in Int
    <3>1. SumOf(t, r.o, i) \in Int
      BY <1>1, <1>10, ElementType DEF SumOf
    <3> QED BY <3>1, z \in Int, Z3
  <2>14. Cong(SumOf(t, r.o, i), (h + z) - 2 * (h * z), m)
    BY <2>10, <2>11, <2>12, <2>13, CongTrans
  <2> QED BY <2>2, <2>5, <2>14
<1>14. GoodWire(t, env, r.o)
  BY <1>1, <1>2, <1>10, <1>13 DEF GoodWire
<1> HIDE DEF t
<1>15. GoodShares(t, env)
  BY <1>11, <1>12, <1>14 DEF GoodShares
<1> QED BY <1>15 DEF t

-----------------------------------------------------------------------------
\* The program and the two kinds of steps

\* The two rounds of ringConv come together, and plain is what plain arithmetic makes
\* of the rounds.
IsProgram(sc, pl) ==
    /\ sc \in Seq(Rounds) /\ \A k \in DOMAIN sc : Legal(sc[k])
    /\ \A k \in DOMAIN sc :
          /\ sc[k].op = "conv1" => k + 1 \in DOMAIN sc /\ sc[k + 1] = [sc[k] EXCEPT !.op = "conv2"]
          /\ sc[k].op = "conv2" => k - 1 \in DOMAIN sc /\ sc[k - 1].op = "conv1"
    /\ (\E S : pl \in Seq(S)) /\ Len(pl) = Len(sc) + 1
    /\ \A k \in DOMAIN pl : IsEnv(pl[k])
    /\ \A k \in DOMAIN sc :
          pl[k + 1] = IF sc[k].op = "conv2" THEN pl[k] ELSE Meaning(pl[k], sc[k])

ProgramOK ==
    /\ IsProgram(script, plain)
    /\ at \in [Party -> Nat] /\ waiting \subseteq Party
    /\ \A p \in Party : Begun(p) <= Len(script)

\* Operations that move the generator.
Moves(r) == r.op \notin Local \cup {"reveal", "reshare"}

\* Party p begins the round that comes next.
DrawStep(p) ==
    /\ Ready(p) /\ Begun(p)' = Begun(p) + 1
    /\ \A q \in Party \ {p} : Begun(q)' = Begun(q)
    /\ IF Moves(Round(p))
       THEN /\ gen' = [gen EXCEPT ![p] = DrawOf(p, Round(p)).gen]
            /\ spent' = [spent EXCEPT ![p] = @ \cup
                          {DrawOf(p, Round(p)).units[i] : i \in 1..Length(Round(p))}]
       ELSE UNCHANGED <<gen, spent>>

\* No party begins a round.
QuietStep ==
    (\A p \in Party : Begun(p)' = Begun(p)) /\ UNCHANGED <<gen, spent>>

LEMMA InitProgramOK == Init => ProgramOK
<1> SUFFICES ASSUME Init PROVE ProgramOK
  OBVIOUS
<1>1. PICK env \in InitialPlain : plain = <<env>>
  BY DEF Init
<1>2. IsEnv(env)
  BY ProgramAssumption DEF IsEnv
<1>3. script = <<>> /\ at = [p \in Party |-> 0] /\ waiting = {}
  BY DEF Init
<1>4. plain \in Seq({env}) /\ Len(plain) = 1 /\ plain[1] = env /\ DOMAIN plain = {1}
  BY <1>1
<1>5. DOMAIN script = {} /\ Len(script) = 0 /\ script \in Seq(Rounds)
  BY <1>3
<1>6. \A p \in Party : Begun(p) <= 0
  BY <1>3 DEF Begun
<1> QED BY <1>2, <1>3, <1>4, <1>5, <1>6 DEF ProgramOK, IsProgram

\* The lengths of draws.
LEMMA LengthType ==
    ASSUME ProgramOK, NEW k \in DOMAIN script
    PROVE  /\ script[k] \in Rounds /\ Legal(script[k])
           /\ Length(script[k]) \in Nat /\ Width[script[k].o] \in Nat /\ script[k].vec \in BOOLEAN
           /\ ~script[k].vec => Length(script[k]) = 1
<1> DEFINE r == script[k]
<1>1. r \in Rounds /\ Legal(r)
  BY DEF ProgramOK, IsProgram
<1>2. r.o \in Wire /\ r.vec \in BOOLEAN
  BY <1>1 DEF Rounds
<1> HIDE DEF r
<1>3. Size[r.o] \in Nat /\ Width[r.o] \in Nat
  BY <1>2, ProgramAssumption
<1> QED BY <1>1, <1>2, <1>3 DEF Length, Legal, r

LEMMA RoundOfParty ==
    ASSUME ProgramOK, NEW p \in Party, p \in waiting \/ Ready(p)
    PROVE  at[p] + 1 \in DOMAIN script /\ Round(p) = script[at[p] + 1]
<1>1. at[p] \in Nat /\ Len(script) \in Nat /\ DOMAIN script = 1..Len(script) /\ Begun(p) <= Len(script)
  BY DEF ProgramOK, IsProgram
<1>2. at[p] + 1 <= Len(script)
  BY <1>1 DEF Begun, Ready
<1> QED BY <1>1, <1>2 DEF Round

\* Every step begins a round of one party, or leaves the generators alone; and the
\* program only grows.
LEMMA StepOfProgram ==
    ASSUME ProgramOK, [Next]_vars
    PROVE  /\ QuietStep \/ \E p \in Party : DrawStep(p)
           /\ at' \in [Party -> Nat] /\ waiting' \subseteq Party
           /\ UNCHANGED <<script, plain>> \/ \E call \in Calls : Choose(call) /\ UNCHANGED <<at, waiting, gen, spent>>
<1>1. at \in [Party -> Nat] /\ waiting \subseteq Party
  BY DEF ProgramOK, IsProgram
<1>2. CASE Extend
  BY <1>1, <1>2 DEF Extend, QuietStep, Begun
<1>3. ASSUME NEW p \in Party, DoLocal(p)
      PROVE  DrawStep(p) /\ at' \in [Party -> Nat] /\ UNCHANGED <<script, plain, waiting>>
  <2>1. /\ Ready(p) /\ Round(p).op \in Local /\ at' = [at EXCEPT ![p] = @ + 1]
        /\ UNCHANGED <<script, plain, waiting, gen, spent>>
    BY <1>3 DEF DoLocal
  <2>2. Begun(p)' = Begun(p) + 1 /\ \A q \in Party \ {p} : Begun(q)' = Begun(q)
    BY <1>1, <2>1 DEF Begun, Ready
  <2> QED BY <1>1, <2>1, <2>2 DEF DrawStep, Moves
<1>4. ASSUME NEW p \in Party, Begin(p)
      PROVE  DrawStep(p) /\ UNCHANGED <<script, plain, at>> /\ waiting' \subseteq Party
  <2>1. UNCHANGED <<script, plain, at>> /\ waiting' = waiting \cup {p} /\ Ready(p)
    BY <1>4 DEF Begin
  <2>2. Begun(p)' = Begun(p) + 1 /\ \A q \in Party \ {p} : Begun(q)' = Begun(q)
    BY <1>1, <2>1 DEF Begun, Ready
  <2>3. Moves(Round(p)) <=> Masked(p, Round(p))
    BY <1>4 DEF Begin, Moves, Masked
  <2>4. IF Moves(Round(p))
        THEN /\ gen' = [gen EXCEPT ![p] = DrawOf(p, Round(p)).gen]
             /\ spent' = [spent EXCEPT ![p] = @ \cup
                           {DrawOf(p, Round(p)).units[i] : i \in 1..Length(Round(p))}]
        ELSE UNCHANGED <<gen, spent>>
    BY <1>4, <2>3 DEF Begin
  <2> QED BY <1>1, <2>1, <2>2, <2>4 DEF DrawStep
<1>5. ASSUME NEW p \in Party, Finish(p) \/ FinishReveal(p)
      PROVE  QuietStep /\ at' \in [Party -> Nat] /\ UNCHANGED <<script, plain>> /\ waiting' \subseteq Party
  BY <1>1, <1>5 DEF Finish, FinishReveal, EndRound, QuietStep, Begun
<1>6. ASSUME NEW p \in Party, BeginReveal(p)
      PROVE  DrawStep(p) /\ UNCHANGED <<script, plain, at>> /\ waiting' \subseteq Party
  BY <1>1, <1>6 DEF BeginReveal, DrawStep, Ready, Moves, Begun
<1>7. CASE UNCHANGED vars
  BY <1>1, <1>7 DEF vars, QuietStep, Begun
<1> QED BY <1>1, <1>2, <1>3, <1>4, <1>5, <1>6, <1>7 DEF Next, Extend

-----------------------------------------------------------------------------
\* The program grows by legal calls.

LEMMA MeaningType ==
    ASSUME NEW env, IsEnv(env), NEW r \in Rounds, Legal(r)
    PROVE  IsEnv(Meaning(env, r))
<1> DEFINE e == Meaning(env, r)
<1>1. /\ r.a \in Wire /\ r.b \in Wire /\ r.o \in Wire
      /\ r.op \in {"share", "reshare", "add", "sub", "mul", "dot", "conv1", "conv2", "reveal"}
  BY DEF Rounds
<1>2. DOMAIN e = Wire
  BY <1>1 DEF Meaning, IsEnv, Local
<1>3. \A w \in Wire : w # r.o => e[w] = env[w]
  BY <1>1 DEF Meaning, IsEnv, Local
<1>4. PICK m \in Nat \ {0} : m = M(r.o) /\ m = 2^Width[r.o] /\ Ring(r.o) = 0..(m - 1)
  BY <1>1, Modulus DEF M, Ring
<1>5. PICK n \in Nat : n = Size[r.o] /\ n = Length(r)
  BY <1>1, Modulus DEF Length
<1>6. e[r.o] \in Vector(r.o)
  <2>1. CASE r.op = "share"
    <3>1. e[r.o] = r.x
      BY <1>1, <2>1 DEF Meaning, IsEnv, Local
    <3> QED BY <2>1, <3>1 DEF Legal
  <2>2. CASE r.op = "reveal"
    <3>1. e[r.o] = env[r.o]
      BY <1>1, <2>2 DEF Meaning, IsEnv, Local
    <3> QED BY <1>1, <3>1 DEF IsEnv
  <2>3. CASE r.op = "reshare"
    <3>1. e[r.o] = env[r.a]
      BY <1>1, <2>3 DEF Meaning, IsEnv, Local
    <3>2. Vector(r.a) = Vector(r.o)
      BY <2>3 DEF Legal, SameType, Vector, Ring
    <3> QED BY <1>1, <3>1, <3>2 DEF IsEnv
  <2>4. CASE r.op \in {"conv1", "conv2"}
    <3>1. e[r.o] = env[r.a]
      BY <1>1, <2>4 DEF Meaning, IsEnv, Local
    <3>2. Size[r.a] = n /\ Ring(r.a) = 0..1
      <4>1. Width[r.a] = 1 /\ Size[r.a] = n
        BY <1>5, <2>4 DEF Legal
      <4>2. M(r.a) = 2
        BY <1>1, <4>1, Modulus
      <4> QED BY <4>1, <4>2 DEF M, Ring
    <3>3. Ring(r.a) \subseteq Ring(r.o)
      <4>1. m \in {2, 4, 8, 16, 32, 64, 128, 256}
        <5>1. Width[r.o] \in 1..8
          BY <1>1, Modulus
        <5>2. 2^Width[r.o] \in {2, 4, 8, 16, 32, 64, 128, 256}
          BY <5>1, PowersOfTwoAre
        <5> QED BY <1>4, <5>2, Zenon
      <4> QED BY <1>4, <3>2, <4>1
    <3>4. env[r.a] \in [1..n -> Ring(r.a)]
      BY <1>1, <3>2 DEF IsEnv, Vector
    <3>5. env[r.a] \in [1..n -> Ring(r.o)]
      BY <3>3, <3>4
    <3> QED BY <1>5, <3>1, <3>5 DEF Vector
  <2>5. CASE r.op \in Local
    <3>1. e[r.o] = Combined(r, env[r.a], env[r.b])
      BY <1>1, <2>5 DEF Meaning, IsEnv, Local
    <3>2. SameType(r.a, r.o) /\ SameType(r.b, r.o)
      BY <2>5 DEF Legal, Local
    <3>3. \A i \in 1..Length(r) : env[r.a][i] \in Int /\ env[r.b][i] \in Int
      BY <1>1, <3>2, EnvType DEF SameType, Length
    <3> QED BY <3>1, <3>3, CombinedType
  <2>6. CASE r.op = "mul"
    <3>1. e[r.o] = [i \in 1..n |-> (env[r.a][i] * env[r.b][i]) % m]
      BY <1>1, <1>4, <1>5, <2>6 DEF Meaning, IsEnv, Local
    <3>2. SameType(r.a, r.o) /\ SameType(r.b, r.o)
      BY <2>6 DEF Legal
    <3>3. \A i \in 1..n : (env[r.a][i] * env[r.b][i]) % m \in Ring(r.o)
      <4> TAKE i \in 1..n
      <4>1. PICK a \in Int, b \in Int : a = env[r.a][i] /\ b = env[r.b][i]
        BY <1>1, <1>5, <3>2, EnvType DEF SameType
      <4>2. PICK x \in Int : x = a * b
        BY Z3
      <4>3. x % m \in 0..(m - 1)
        BY ModIsCong
      <4> QED BY <1>4, <4>1, <4>2, <4>3
    <3>4. e[r.o] \in [1..n -> Ring(r.o)]
      BY <3>1, <3>3
    <3> QED BY <1>5, <3>4 DEF Vector
  <2>7. CASE r.op = "dot"
    <3> DEFINE x == [i \in 1..Size[r.a] |-> env[r.a][i] * env[r.b][i]]
    <3>1. e[r.o] = <<Total(x) % m>>
      BY <1>1, <1>4, <2>7 DEF Meaning, IsEnv, Local
    <3>2. SameType(r.a, r.b) /\ n = 1 /\ Size[r.a] \in Nat
      BY <1>1, <1>5, <2>7, Modulus DEF Legal
    <3>3. \A i \in 1..Size[r.a] : env[r.a][i] * env[r.b][i] \in Int
      <4> TAKE i \in 1..Size[r.a]
      <4>1. PICK a \in Int, b \in Int : a = env[r.a][i] /\ b = env[r.b][i]
        BY <1>1, <3>2, EnvType DEF SameType
      <4>2. a * b \in Int
        BY Z3
      <4> QED BY <4>1, <4>2
    <3>4. x \in [1..Size[r.a] -> Int]
      BY <3>3
    <3> HIDE DEF x
    <3>5. Total(x) % m \in Ring(r.o)
      <4>1. PICK y \in Int : y = Total(x)
        BY <3>2, <3>4, TotalType
      <4>2. y % m \in 0..(m - 1)
        BY ModIsCong
      <4> QED BY <1>4, <4>1, <4>2
    <3>6. e[r.o] \in [1..1 -> Ring(r.o)]
      BY <3>1, <3>5
    <3> QED BY <1>5, <3>2, <3>6 DEF Vector
  <2> QED BY <1>1, <2>1, <2>2, <2>3, <2>4, <2>5, <2>6, <2>7 DEF Local
<1> HIDE DEF e
<1>7. IsEnv(e)
  <2>1. \A w \in Wire : e[w] \in Vector(w)
    BY <1>3, <1>6 DEF IsEnv
  <2> QED BY <1>2, <2>1 DEF IsEnv
<1> QED BY <1>7 DEF e

\* The two rounds of ringConv mean the same.
LEMMA MeaningOfConv ==
    ASSUME NEW env, NEW r \in Rounds, r.op = "conv1", NEW q, q = [r EXCEPT !.op = "conv2"]
    PROVE  q.op = "conv2" /\ q.a = r.a /\ q.o = r.o /\ Meaning(env, q) = Meaning(env, r)
<1>1. q.op = "conv2" /\ q.a = r.a /\ q.o = r.o
  BY DEF Rounds
<1>2. Meaning(env, q) = [env EXCEPT ![q.o] = env[q.a]]
  BY <1>1 DEF Meaning, Local
<1>3. Meaning(env, r) = [env EXCEPT ![r.o] = env[r.a]]
  BY DEF Meaning, Local
<1> QED BY <1>1, <1>2, <1>3

LEMMA CallType ==
    ASSUME NEW call \in Calls
    PROVE  /\ call \in Seq(Rounds) /\ Len(call) \in 1..2
           /\ \A i \in 1..Len(call) : call[i] \in Rounds /\ Legal(call[i])
           /\ Len(call) = 1 => call[1].op \notin {"conv1", "conv2"}
           /\ Len(call) = 2 => call[1].op = "conv1" /\ call[2] = [call[1] EXCEPT !.op = "conv2"]
<1>1. IsCall(call)
  BY ProgramAssumption
<1>2. call \in Seq(Rounds)
  BY <1>1 DEF IsCall
<1>3. Len(call) \in 1..2
  BY <1>1 DEF IsCall
<1>4. \A i \in 1..Len(call) : call[i] \in Rounds /\ Legal(call[i])
  BY <1>1, <1>2 DEF IsCall
<1> QED BY <1>1, <1>2, <1>3, <1>4 DEF IsCall

LEMMA Appended ==
    ASSUME NEW S, NEW u \in Seq(S), NEW v \in Seq(S)
    PROVE  /\ u \o v \in Seq(S) /\ Len(u) \in Nat /\ Len(v) \in Nat
           /\ Len(u \o v) = Len(u) + Len(v) /\ DOMAIN (u \o v) = 1..(Len(u) + Len(v))
           /\ \A k \in 1..Len(u) : (u \o v)[k] = u[k]
           /\ \A i \in 1..Len(v) : (u \o v)[Len(u) + i] = v[i]
  OBVIOUS

\* What is appended, element by element.
LEMMA ChosenParts ==
    ASSUME ProgramOK, NEW call \in Calls, Choose(call)
    PROVE  /\ script' \in Seq(Rounds) /\ Len(script) \in Nat
           /\ Len(script') = Len(script) + Len(call) /\ DOMAIN script' = 1..(Len(script) + Len(call))
           /\ \A k \in 1..Len(script) : script'[k] = script[k]
           /\ \A i \in 1..Len(call) : script'[Len(script) + i] = call[i]
           /\ \E S : plain' \in Seq(S)
           /\ Len(plain') = Len(script') + 1 /\ DOMAIN plain' = 1..(Len(script) + 1 + Len(call))
           /\ \A k \in 1..(Len(script) + 1) : plain'[k] = plain[k]
           /\ \A i \in 1..Len(call) :
                 plain'[Len(script) + 1 + i] = Meaning(plain[Len(script) + 1], call[i])
<1>1. /\ call \in Seq(Rounds) /\ script \in Seq(Rounds) /\ script' = script \o call
      /\ Len(script) \in Nat /\ Len(call) \in Nat
  <2>1. call \in Seq(Rounds)
    BY CallType
  <2> QED BY <2>1 DEF ProgramOK, IsProgram, Choose
<1>2. /\ script' \in Seq(Rounds) /\ Len(script') = Len(script) + Len(call)
      /\ DOMAIN script' = 1..(Len(script) + Len(call))
      /\ \A k \in 1..Len(script) : script'[k] = script[k]
      /\ \A i \in 1..Len(call) : script'[Len(script) + i] = call[i]
  BY <1>1, Appended
<1> DEFINE more == [i \in 1..Len(call) |-> Meaning(plain[Len(plain)], call[i])]
           T == {Meaning(plain[Len(plain)], call[i]) : i \in 1..Len(call)}
<1>3. PICK S : plain \in Seq(S)
  BY DEF ProgramOK, IsProgram
<1>4. more \in Seq(S \cup T) /\ Len(more) = Len(call)
  <2>1. \A i \in 1..Len(call) : Meaning(plain[Len(plain)], call[i]) \in S \cup T
    OBVIOUS
  <2> HIDE DEF T
  <2> QED BY <1>1, <2>1, IsASeq
<1>5. plain \in Seq(S \cup T) /\ Len(plain) = Len(script) + 1
  BY <1>3, SeqMonotonic DEF ProgramOK, IsProgram
<1>6. plain' = plain \o more
  BY DEF Choose
<1>7. \A i \in 1..Len(call) : more[i] = Meaning(plain[Len(script) + 1], call[i])
  BY <1>5
<1> HIDE DEF more, T
<1>8. /\ plain' \in Seq(S \cup T) /\ Len(plain') = (Len(script) + 1) + Len(call)
      /\ DOMAIN plain' = 1..((Len(script) + 1) + Len(call))
      /\ \A k \in 1..(Len(script) + 1) : plain'[k] = plain[k]
      /\ \A i \in 1..Len(call) : plain'[(Len(script) + 1) + i] = more[i]
  <2>1. /\ plain \o more \in Seq(S \cup T) /\ Len(plain \o more) = Len(plain) + Len(more)
        /\ DOMAIN (plain \o more) = 1..(Len(plain) + Len(more))
        /\ \A k \in 1..Len(plain) : (plain \o more)[k] = plain[k]
        /\ \A i \in 1..Len(more) : (plain \o more)[Len(plain) + i] = more[i]
    <3>1. PICK U : U = S \cup T
      OBVIOUS
    <3>2. plain \in Seq(U) /\ more \in Seq(U)
      BY <1>4, <1>5, <3>1
    <3> QED BY <3>1, <3>2, Appended
  <2> QED BY <1>4, <1>5, <1>6, <2>1, Zenon
<1> QED BY <1>1, <1>2, <1>7, <1>8

LEMMA ChooseKeepsProgram ==
    ASSUME ProgramOK, NEW call \in Calls, Choose(call)
    PROVE  /\ \A k \in DOMAIN script' : Legal(script'[k])
           /\ \A k \in DOMAIN script' :
                 /\ script'[k].op = "conv1" =>
                       k + 1 \in DOMAIN script' /\ script'[k + 1] = [script'[k] EXCEPT !.op = "conv2"]
                 /\ script'[k].op = "conv2" => k - 1 \in DOMAIN script' /\ script'[k - 1].op = "conv1"
           /\ \A k \in DOMAIN plain' : IsEnv(plain'[k])
           /\ \A k \in DOMAIN script' :
                 plain'[k + 1] = IF script'[k].op = "conv2" THEN plain'[k]
                                 ELSE Meaning(plain'[k], script'[k])
<1>1. PICK n \in Nat : n = Len(script) /\ DOMAIN script = 1..n /\ DOMAIN plain = 1..(n + 1)
  <2>1. Len(script) \in Nat /\ DOMAIN script = 1..Len(script) /\ DOMAIN plain = 1..Len(plain)
        /\ Len(plain) = Len(script) + 1
    BY DEF ProgramOK, IsProgram
  <2> QED BY <2>1
<1>2. PICK c \in 1..2 : c = Len(call)
  BY CallType
<1>3. /\ DOMAIN script' = 1..(n + c) /\ DOMAIN plain' = 1..(n + 1 + c)
      /\ \A k \in 1..n : script'[k] = script[k]
      /\ \A i \in 1..c : script'[n + i] = call[i]
      /\ \A k \in 1..(n + 1) : plain'[k] = plain[k]
      /\ \A i \in 1..c : plain'[n + 1 + i] = Meaning(plain[n + 1], call[i])
  BY <1>1, <1>2, ChosenParts
<1>4. /\ \A i \in 1..c : call[i] \in Rounds /\ Legal(call[i])
      /\ c = 1 => call[1].op \notin {"conv1", "conv2"}
      /\ c = 2 => call[1].op = "conv1" /\ call[2] = [call[1] EXCEPT !.op = "conv2"]
  BY <1>2, CallType
<1>5. c = 2 => call[2].op = "conv2" /\ Meaning(plain[n + 1], call[2]) = Meaning(plain[n + 1], call[1])
  <2>1. 1 \in 1..c
    BY <1>2
  <2> QED BY <1>4, <2>1, MeaningOfConv
\* Every round is an old one, or one of the two of the call.
<1>6. \A k \in 1..(n + c) : k \in 1..n \/ k = n + 1 \/ (c = 2 /\ k = n + 2)
  BY <1>2
<1>7. /\ script'[n + 1] = call[1] /\ plain'[n + 2] = Meaning(plain[n + 1], call[1])
      /\ plain'[n + 1] = plain[n + 1] /\ 1 \in 1..c
      /\ c = 2 => /\ script'[n + 2] = call[2] /\ 2 \in 1..c
                  /\ plain'[n + 3] = Meaning(plain[n + 1], call[2])
  <2>1. 1 \in 1..c /\ n + 1 \in 1..(n + 1) /\ (c = 2 => 2 \in 1..c)
    BY <1>2
  <2>2. n + 1 + 1 = n + 2 /\ n + 1 + 2 = n + 3
    OBVIOUS
  <2> QED BY <1>3, <2>1, <2>2
<1>8. \A k \in 1..n : /\ k + 1 \in 1..(n + 1) /\ k \in 1..(n + 1) /\ k \in 1..(n + c)
                      /\ Legal(script[k])
                      /\ script[k].op = "conv1" =>
                            k + 1 \in 1..n /\ script[k + 1] = [script[k] EXCEPT !.op = "conv2"]
                      /\ script[k].op = "conv2" => k - 1 \in 1..n /\ script[k - 1].op = "conv1"
                      /\ plain[k + 1] = IF script[k].op = "conv2" THEN plain[k]
                                        ELSE Meaning(plain[k], script[k])
  BY <1>1, <1>2 DEF ProgramOK, IsProgram
<1>9. \A k \in DOMAIN script' : Legal(script'[k])
  <2> TAKE k \in DOMAIN script'
  <2>1. k \in 1..n \/ k = n + 1 \/ (c = 2 /\ k = n + 2)
    BY <1>3, <1>6
  <2> QED BY <1>3, <1>4, <1>7, <1>8, <2>1, Zenon
<1>10. \A k \in DOMAIN script' :
          /\ script'[k].op = "conv1" =>
                k + 1 \in DOMAIN script' /\ script'[k + 1] = [script'[k] EXCEPT !.op = "conv2"]
          /\ script'[k].op = "conv2" => k - 1 \in DOMAIN script' /\ script'[k - 1].op = "conv1"
  <2> TAKE k \in DOMAIN script'
  <2>1. CASE k \in 1..n
    <3>1. \A j \in 1..n : j \in DOMAIN script'
      BY <1>2, <1>3
    <3> QED BY <1>3, <1>8, <2>1, <3>1
  <2>2. CASE k = n + 1
    <3>1. CASE c = 1
      BY <1>4, <1>7, <2>2, <3>1
    <3>2. CASE c = 2
      <4>1. k + 1 = n + 2 /\ k + 1 \in 1..(n + c)
        BY <2>2, <3>2
      <4> QED BY <1>3, <1>4, <1>7, <2>2, <3>2, <4>1
    <3> QED BY <1>2, <3>1, <3>2
  <2>3. CASE c = 2 /\ k = n + 2
    <3>1. k - 1 = n + 1 /\ k - 1 \in 1..(n + c)
      BY <2>3
    <3> QED BY <1>3, <1>4, <1>5, <1>7, <2>3, <3>1
  <2> QED BY <1>3, <1>6, <2>1, <2>2, <2>3
<1>11. \A k \in DOMAIN plain' : IsEnv(plain'[k])
  <2>1. \A k \in 1..(n + 1) : IsEnv(plain[k])
    BY <1>1 DEF ProgramOK, IsProgram
  <2>2. \A i \in 1..c : IsEnv(Meaning(plain[n + 1], call[i]))
    BY <1>4, <2>1, MeaningType, n + 1 \in 1..(n + 1)
  <2> TAKE k \in DOMAIN plain'
  <2>3. k \in 1..(n + 1) \/ k = n + 2 \/ (c = 2 /\ k = n + 3)
    BY <1>2, <1>3, SMTT(40)
  <2> QED BY <1>3, <1>7, <2>1, <2>2, <2>3, Zenon
<1>12. \A k \in DOMAIN script' :
          plain'[k + 1] = IF script'[k].op = "conv2" THEN plain'[k] ELSE Meaning(plain'[k], script'[k])
  <2> TAKE k \in DOMAIN script'
  <2>1. CASE k \in 1..n
    <3>1. k + 1 \in 1..(n + 1) /\ k \in 1..(n + 1)
      BY <2>1
    <3>2. plain'[k + 1] = plain[k + 1] /\ plain'[k] = plain[k] /\ script'[k] = script[k]
      BY <1>3, <2>1, <3>1
    <3> QED BY <1>8, <2>1, <3>2
  <2>2. CASE k = n + 1
    <3>1. k + 1 = n + 2 /\ call[1].op # "conv2"
      BY <1>2, <1>4, <2>2
    <3> QED BY <1>7, <2>2, <3>1
  <2>3. CASE c = 2 /\ k = n + 2
    <3>1. k + 1 = n + 3
      BY <2>3
    <3> QED BY <1>5, <1>7, <2>3, <3>1
  <2> QED BY <1>3, <1>6, <2>1, <2>2, <2>3
<1> QED BY <1>9, <1>10, <1>11, <1>12

LEMMA NextProgramOK == ProgramOK /\ [Next]_vars => ProgramOK'
<1> SUFFICES ASSUME ProgramOK, [Next]_vars PROVE ProgramOK'
  OBVIOUS
<1>1. at' \in [Party -> Nat] /\ waiting' \subseteq Party
  BY StepOfProgram
<1>2. CASE UNCHANGED <<script, plain>>
  <2>1. \A p \in Party : Begun(p)' <= Len(script)
    <3>1. CASE QuietStep
      BY <3>1 DEF QuietStep, ProgramOK, IsProgram
    <3>2. ASSUME NEW p \in Party, DrawStep(p)
          PROVE  \A q \in Party : Begun(q)' <= Len(script)
      <4>1. Begun(p) = at[p] /\ at[p] < Len(script) /\ at[p] \in Nat /\ Len(script) \in Nat
        BY <3>2 DEF DrawStep, Ready, Begun, ProgramOK, IsProgram
      <4> QED BY <3>2, <4>1 DEF DrawStep, ProgramOK, IsProgram
    <3> QED BY <3>1, <3>2, StepOfProgram
  <2> QED BY <1>1, <1>2, <2>1 DEF ProgramOK, IsProgram
<1>3. ASSUME NEW call \in Calls, Choose(call), UNCHANGED <<at, waiting>>
      PROVE  ProgramOK'
  <2>1. \A p \in Party : Begun(p)' = Begun(p) /\ Begun(p) \in Nat /\ Begun(p) <= Len(script)
    BY <1>3 DEF Begun, ProgramOK, IsProgram
  <2>2. /\ Len(script) \in Nat /\ Len(script') \in Nat /\ Len(script) <= Len(script')
        /\ script' \in Seq(Rounds) /\ (\E S : plain' \in Seq(S)) /\ Len(plain') = Len(script') + 1
    BY <1>3, ChosenParts, CallType
  <2>3. \A p \in Party : Begun(p)' <= Len(script')
    BY <2>1, <2>2
  <2> QED BY <1>1, <1>3, <2>2, <2>3, ChooseKeepsProgram DEF ProgramOK, IsProgram
<1> QED BY <1>2, <1>3, StepOfProgram

-----------------------------------------------------------------------------
\* No unit twice

Remembered ==
    /\ gen \in [Party -> Generators] /\ spent \in [Party -> SUBSET Units]
    /\ \A p \in Party : Remembers(gen[p], spent[p])

IInv == ProgramOK /\ Remembered

LEMMA InitIInv == Init => IInv
<1> SUFFICES ASSUME Init PROVE Remembered
  BY InitProgramOK DEF IInv
<1>1. BlockBits \in Nat
  BY UnitsPerBlock
<1>2. FreshGenerator \in Generators /\ FreshGenerator.ptr = BlockBits
  BY <1>1 DEF FreshGenerator, Generators
<1>3. Remembers(FreshGenerator, {})
  BY <1>1, <1>2 DEF Remembers
<1> QED BY <1>2, <1>3 DEF Init, Remembered

\* The draw of a party that begins a round is good.
LEMMA DrawIsGood ==
    ASSUME IInv, NEW p \in Party, Ready(p)
    PROVE  GoodDraw(DrawOf(p, Round(p)), gen[p], spent[p], Length(Round(p)))
<1>1. /\ Length(Round(p)) \in Nat /\ Width[Round(p).o] \in Nat /\ Round(p).vec \in BOOLEAN
      /\ ~Round(p).vec => Length(Round(p)) = 1
  BY LengthType, RoundOfParty DEF IInv
<1>2. Remembers(gen[p], spent[p])
  BY DEF IInv, Remembered
<1>3. CASE Round(p).vec
  BY <1>1, <1>2, <1>3, VectorDrawIsGood DEF DrawOf, Draw
<1>4. CASE ~Round(p).vec
  BY <1>1, <1>2, <1>4, ScalarDrawIsGood DEF DrawOf, Draw
<1> QED BY <1>3, <1>4

LEMMA NextIInv == IInv /\ [Next]_vars => IInv'
<1> SUFFICES ASSUME IInv, [Next]_vars PROVE Remembered'
  BY NextProgramOK DEF IInv
<1>1. CASE UNCHANGED <<gen, spent>>
  BY <1>1 DEF IInv, Remembered
<1>2. ASSUME NEW p \in Party, DrawStep(p), Moves(Round(p)) PROVE Remembered'
  <2> DEFINE d == DrawOf(p, Round(p))
             more == {d.units[i] : i \in 1..Length(Round(p))}
  <2>1. Remembers(d.gen, spent[p] \cup more)
    BY <1>2, DrawIsGood DEF DrawStep, GoodDraw
  <2>2. gen' = [gen EXCEPT ![p] = d.gen] /\ spent' = [spent EXCEPT ![p] = @ \cup more]
    BY <1>2 DEF DrawStep
  <2> HIDE DEF d, more
  <2>3. d.gen \in Generators /\ spent[p] \cup more \subseteq Units
    BY <2>1 DEF Remembers
  <2> QED BY <2>1, <2>2, <2>3 DEF IInv, Remembered
<1> QED BY <1>1, <1>2, StepOfProgram DEF IInv, QuietStep, DrawStep

\* No unit of the pseudo-random function masks two values: not within a round, not in
\* two rounds of one kind, and not once as a bit and once as part of a byte.
THEOREM MasksAreFresh == Spec => FreshMasks
<1>1. ASSUME IInv, [Next]_vars, NEW p \in Party, gen'[p] # gen[p]
      PROVE  LET d == DrawOf(p, Round(p)).units
             IN  \A i \in DOMAIN d :
                    /\ d[i] \notin spent[p]
                    /\ \A j \in DOMAIN d : d[i] = d[j] => i = j
                    /\ \A u \in spent[p] : u[1] = d[i][1] => u[2] = d[i][2]
  <2>1. Ready(p)
    <3>1. PICK q \in Party : DrawStep(q)
      BY <1>1, StepOfProgram DEF IInv, QuietStep
    <3>2. q = p
      BY <1>1, <3>1 DEF DrawStep, IInv, Remembered
    <3> QED BY <3>1, <3>2 DEF DrawStep
  <2> QED BY <1>1, <2>1, DrawIsGood DEF GoodDraw
<1>2. IInv /\ [Next]_vars => [\A p \in Party :
         gen'[p] # gen[p] =>
            LET d == DrawOf(p, Round(p)).units
            IN  \A i \in DOMAIN d :
                   /\ d[i] \notin spent[p]
                   /\ \A j \in DOMAIN d : d[i] = d[j] => i = j
                   /\ \A u \in spent[p] : u[1] = d[i][1] => u[2] = d[i][2]]_vars
  BY <1>1
<1> QED BY <1>2, InitIInv, NextIInv, PTL DEF Spec, FreshMasks

-----------------------------------------------------------------------------
\* Queues

\* The queue Q holds, in their order, what D says of the rounds of P after round d.
Stream(Q, P, d, D) ==
    /\ \E S : Q \in Seq(S)
    /\ \E n \in Nat : n = Len(Q) /\ \E tag \in [1..n -> P] :
          /\ \A i, j \in 1..n : i < j => tag[i] < tag[j]
          /\ \A i \in 1..n : tag[i] > d /\ Q[i] = D[tag[i]]
          /\ \A k \in P : k > d => \E i \in 1..n : tag[i] = k

LEMMA EmptyStream ==
    ASSUME NEW P, NEW d, NEW D, \A k \in P : ~(k > d)
    PROVE  Stream(<<>>, P, d, D)
<1>1. Len(<<>>) = 0 /\ <<>> \in Seq({}) /\ 1..0 = {}
  OBVIOUS
<1>2. PICK tag : tag = [i \in 1..0 |-> 0]
  OBVIOUS
<1>3. tag \in [1..0 -> P]
  BY <1>1, <1>2
<1> QED BY <1>1, <1>3 DEF Stream

LEMMA StreamAppend ==
    ASSUME NEW Q, NEW P, P \subseteq Nat, NEW d \in Nat, NEW D, Stream(Q, P, d, D),
           NEW k \in Nat, k > d, \A j \in P : j < k
    PROVE  Stream(Append(Q, D[k]), P \cup {k}, d, D)
<1> DEFINE Q2 == Append(Q, D[k])
<1>1. PICK S : Q \in Seq(S)
  BY DEF Stream
<1>2. PICK n \in Nat : n = Len(Q) /\ \E tag \in [1..n -> P] :
          /\ \A i, j \in 1..n : i < j => tag[i] < tag[j]
          /\ \A i \in 1..n : tag[i] > d /\ Q[i] = D[tag[i]]
          /\ \A j \in P : j > d => \E i \in 1..n : tag[i] = j
  BY Zenon DEF Stream
<1>3. PICK tag \in [1..n -> P] :
          /\ \A i, j \in 1..n : i < j => tag[i] < tag[j]
          /\ \A i \in 1..n : tag[i] > d /\ Q[i] = D[tag[i]]
          /\ \A j \in P : j > d => \E i \in 1..n : tag[i] = j
  BY <1>2
<1>4. Q2 \in Seq(S \cup {D[k]}) /\ Len(Q2) = n + 1 /\ Q2[n + 1] = D[k]
      /\ \A i \in 1..n : Q2[i] = Q[i]
  <2>1. PICK x : x = D[k]
    OBVIOUS
  <2>2. Q \in Seq(S \cup {x})
    BY <1>1, SeqMonotonic
  <2> QED BY <1>2, <2>1, <2>2
<1> HIDE DEF Q2
<1>5. PICK t : t = [i \in 1..(n + 1) |-> IF i = n + 1 THEN k ELSE tag[i]]
  OBVIOUS
<1>6. t[n + 1] = k /\ \A i \in 1..n : t[i] = tag[i] /\ tag[i] \in P
  BY <1>3, <1>5
<1>7. t \in [1..(n + 1) -> P \cup {k}]
  BY <1>3, <1>5
<1>8. \A i \in 1..(n + 1) : i \in 1..n \/ i = n + 1
  OBVIOUS
<1>9. \A i, j \in 1..(n + 1) : i < j => t[i] < t[j]
  <2> TAKE i, j \in 1..(n + 1)
  <2> HAVE i < j
  <2>1. i \in 1..n
    OBVIOUS
  <2>2. CASE j \in 1..n
    BY <1>3, <1>6, <2>1, <2>2
  <2>3. CASE j = n + 1
    BY <1>6, <2>1, <2>3
  <2> QED BY <1>8, <2>2, <2>3
<1>10. \A i \in 1..(n + 1) : t[i] > d /\ Q2[i] = D[t[i]]
  BY <1>3, <1>4, <1>6, <1>8
<1>11. \A j \in P \cup {k} : j > d => \E i \in 1..(n + 1) : t[i] = j
  <2> TAKE j \in P \cup {k}
  <2> HAVE j > d
  <2>1. CASE j = k
    BY <1>6, <2>1
  <2>2. CASE j \in P
    <3>1. PICK i \in 1..n : tag[i] = j
      BY <1>3, <2>2
    <3> QED BY <1>6, <3>1
  <2> QED BY <2>1, <2>2
<1>12. n + 1 \in Nat /\ n + 1 = Len(Q2)
  BY <1>4
<1>13. Stream(Q2, P \cup {k}, d, D)
  BY <1>4, <1>7, <1>9, <1>10, <1>11, <1>12, ZenonT(60) DEF Stream
<1> QED BY <1>13 DEF Q2

\* What is posted and not taken is in the queue; the queue is no longer than that.
LEMMA StreamNonEmpty ==
    ASSUME NEW Q, NEW P, NEW d, NEW D, Stream(Q, P, d, D), Q # <<>>
    PROVE  \E j \in P : j > d
<1>1. Len(Q) \in Nat /\ Len(Q) # 0
  BY DEF Stream
<1>2. 1 \in 1..Len(Q)
  BY <1>1
<1> QED BY <1>2 DEF Stream

LEMMA StreamTake ==
    ASSUME NEW Q, NEW P, P \subseteq Nat, NEW d \in Nat, NEW D, Stream(Q, P, d, D), Q # <<>>,
           d + 1 \in P
    PROVE  Head(Q) = D[d + 1] /\ Stream(Tail(Q), P, d + 1, D)
<1>k. PICK k \in P : k = d + 1
  OBVIOUS
<1> DEFINE Q2 == Tail(Q)
<1>1. PICK S : Q \in Seq(S)
  BY DEF Stream
<1>0. PICK m \in Nat : m = Len(Q) /\ \E tag \in [1..m -> P] :
          /\ \A i, j \in 1..m : i < j => tag[i] < tag[j]
          /\ \A i \in 1..m : tag[i] > d /\ Q[i] = D[tag[i]]
          /\ \A j \in P : j > d => \E i \in 1..m : tag[i] = j
  BY Zenon DEF Stream
<1>0a. PICK tag0 \in [1..m -> P] :
          /\ \A i, j \in 1..m : i < j => tag0[i] < tag0[j]
          /\ \A i \in 1..m : tag0[i] > d /\ Q[i] = D[tag0[i]]
          /\ \A j \in P : j > d => \E i \in 1..m : tag0[i] = j
  BY <1>0
<1>2. PICK n \in Nat : n + 1 = m
  <2>1. m # 0
    BY <1>0, <1>1
  <2>2. m - 1 \in Nat /\ (m - 1) + 1 = m
    BY <2>1
  <2> QED BY <2>2
<1>3. PICK tag \in [1..(n + 1) -> P] :
          /\ \A i, j \in 1..(n + 1) : i < j => tag[i] < tag[j]
          /\ \A i \in 1..(n + 1) : tag[i] > d /\ Q[i] = D[tag[i]]
          /\ \A j \in P : j > d => \E i \in 1..(n + 1) : tag[i] = j
  BY <1>0a, <1>2, Zenon
<1>4. \A i \in 1..(n + 1) : tag[i] \in P /\ tag[i] \in Nat
  BY <1>3
<1>5. tag[1] = k
  <2>1. PICK i \in 1..(n + 1) : tag[i] = k
    BY <1>3, <1>k
  <2>2. 1 \in 1..(n + 1) /\ (i = 1 \/ 1 < i)
    OBVIOUS
  <2>3. tag[1] > d /\ (1 < i => tag[1] < k)
    BY <1>3, <1>k, <2>1, <2>2
  <2> QED BY <1>4, <1>k, <2>1, <2>2, <2>3
<1>6. Head(Q) = D[k]
  <2>1. Head(Q) = Q[1] /\ 1 \in 1..(n + 1)
    BY <1>1
  <2> QED BY <1>3, <1>5, <2>1
<1>7. Q2 \in Seq(S) /\ Len(Q2) = n /\ \A i \in 1..n : Q2[i] = Q[i + 1]
  BY <1>0, <1>1, <1>2
<1> HIDE DEF Q2
<1>8. PICK t : t = [i \in 1..n |-> tag[i + 1]]
  OBVIOUS
<1>9. \A i \in 1..n : i + 1 \in 1..(n + 1) /\ t[i] = tag[i + 1]
  BY <1>8
<1>10. t \in [1..n -> P]
  BY <1>4, <1>8, <1>9
<1>11. \A i, j \in 1..n : i < j => t[i] < t[j]
  <2> TAKE i, j \in 1..n
  <2> HAVE i < j
  <2>1. i + 1 < j + 1
    OBVIOUS
  <2> QED BY <1>3, <1>9, <2>1
<1>12. \A i \in 1..n : t[i] > k /\ Q2[i] = D[t[i]]
  <2> TAKE i \in 1..n
  <2>1. 1 < i + 1 /\ 1 \in 1..(n + 1)
    OBVIOUS
  <2>2. tag[1] < tag[i + 1]
    BY <1>3, <1>9, <2>1
  <2>3. t[i] > k
    BY <1>k, <1>4, <1>5, <1>9, <2>1, <2>2
  <2> QED BY <1>3, <1>7, <1>9, <2>3, ZenonT(60)
<1>13. \A j \in P : j > k => \E i \in 1..n : t[i] = j
  <2> TAKE j \in P
  <2> HAVE j > k
  <2>1. PICK i \in 1..(n + 1) : tag[i] = j
    BY <1>3, <1>k
  <2>2. i # 1
    BY <1>5, <2>1
  <2>3. i - 1 \in 1..n /\ (i - 1) + 1 = i
    BY <2>2
  <2>4. t[i - 1] = j
    BY <1>9, <2>1, <2>3
  <2> QED BY <2>3, <2>4
<1>14. Stream(Q2, P, k, D)
  BY <1>7, <1>10, <1>11, <1>12, <1>13, ZenonT(60) DEF Stream
<1> QED BY <1>k, <1>6, <1>14 DEF Q2

\* Passing a round that is not posted.
LEMMA StreamSkip ==
    ASSUME NEW Q, NEW P, P \subseteq Nat, NEW d \in Nat, NEW D, Stream(Q, P, d, D),
           NEW k, k = d + 1, k \notin P
    PROVE  Stream(Q, P, k, D)
<1>1. PICK n \in Nat : n = Len(Q) /\ \E tag \in [1..n -> P] :
          /\ \A i, j \in 1..n : i < j => tag[i] < tag[j]
          /\ \A i \in 1..n : tag[i] > d /\ Q[i] = D[tag[i]]
          /\ \A j \in P : j > d => \E i \in 1..n : tag[i] = j
  BY Zenon DEF Stream
<1>2. PICK tag \in [1..n -> P] :
          /\ \A i, j \in 1..n : i < j => tag[i] < tag[j]
          /\ \A i \in 1..n : tag[i] > d /\ Q[i] = D[tag[i]]
          /\ \A j \in P : j > d => \E i \in 1..n : tag[i] = j
  BY <1>1
<1>3. \A i \in 1..n : tag[i] > k
  <2> TAKE i \in 1..n
  <2>1. tag[i] \in P /\ tag[i] > d /\ tag[i] # k
    BY <1>2, Zenon
  <2>2. tag[i] \in Nat
    BY <2>1
  <2> QED BY <2>1, <2>2
<1>4. \A j \in P : j > k => j > d
  OBVIOUS
<1>5. PICK S : Q \in Seq(S)
  BY Zenon DEF Stream
<1>6. \A i \in 1..n : tag[i] > k /\ Q[i] = D[tag[i]]
  BY <1>2, <1>3
<1>7. \A j \in P : j > k => \E i \in 1..n : tag[i] = j
  BY <1>2, <1>4
<1>8. \E u \in [1..n -> P] :
          /\ \A i, j \in 1..n : i < j => u[i] < u[j]
          /\ \A i \in 1..n : u[i] > k /\ Q[i] = D[u[i]]
          /\ \A j \in P : j > k => \E i \in 1..n : u[i] = j
  BY <1>2, <1>6, <1>7, Zenon
<1> QED BY <1>1, <1>5, <1>8, Zenon DEF Stream

\* Only what is posted matters.
LEMMA StreamSame ==
    ASSUME NEW Q, NEW P, NEW d, NEW D, NEW F, Stream(Q, P, d, D), \A k \in P : F[k] = D[k]
    PROVE  Stream(Q, P, d, F)
  BY DEF Stream

-----------------------------------------------------------------------------
\* The history

\* The shares s are good after k rounds, which may end between the two of ringConv.
GoodAt(s, k, sc, pl) ==
    IF k > 0 /\ sc[k].op = "conv1" THEN HalfWay(s, pl[k + 1], sc[k]) ELSE GoodShares(s, pl[k + 1])

\* What a program says of one of its rounds, and of the one before.
LEMMA RoundAt ==
    ASSUME NEW sc, NEW pl, IsProgram(sc, pl), NEW k \in 1..Len(sc)
    PROVE  /\ Len(sc) \in Nat /\ sc[k] \in Rounds /\ Legal(sc[k])
           /\ IsEnv(pl[k]) /\ IsEnv(pl[k + 1])
<1>1. Len(sc) \in Nat /\ DOMAIN sc = 1..Len(sc) /\ \A j \in 1..Len(sc) : sc[j] \in Rounds
  BY DEF IsProgram
<1>2. DOMAIN pl = 1..(Len(sc) + 1)
  BY DEF IsProgram
<1>3. k \in DOMAIN pl /\ k + 1 \in DOMAIN pl
  BY <1>1, <1>2
<1> QED BY <1>1, <1>3 DEF IsProgram

LEMMA PlainAt ==
    ASSUME NEW sc, NEW pl, IsProgram(sc, pl), NEW k \in 1..Len(sc)
    PROVE  pl[k + 1] = IF sc[k].op = "conv2" THEN pl[k] ELSE Meaning(pl[k], sc[k])
<1>1. k \in DOMAIN sc
  BY DEF IsProgram
<1> QED BY <1>1 DEF IsProgram

LEMMA ConvAt ==
    ASSUME NEW sc, NEW pl, IsProgram(sc, pl), NEW k \in 1..Len(sc)
    PROVE  /\ k > 1 /\ sc[k - 1].op = "conv1" => sc[k] = [sc[k - 1] EXCEPT !.op = "conv2"]
           /\ sc[k].op = "conv2" => \E j \in 1..Len(sc) : j = k - 1 /\ sc[j].op = "conv1"
<1>1. Len(sc) \in Nat /\ DOMAIN sc = 1..Len(sc)
  BY DEF IsProgram
<1>2. ASSUME k > 1, sc[k - 1].op = "conv1" PROVE sc[k] = [sc[k - 1] EXCEPT !.op = "conv2"]
  <2>1. PICK j \in 1..Len(sc) : j = k - 1 /\ j + 1 = k
    BY <1>1, <1>2
  <2> QED BY <1>1, <1>2, <2>1 DEF IsProgram
<1>3. sc[k].op = "conv2" => \E j \in 1..Len(sc) : j = k - 1 /\ sc[j].op = "conv1"
  BY <1>1 DEF IsProgram
<1> QED BY <1>2, <1>3

\* Every round keeps the shares good.
LEMMA GoodStep ==
    ASSUME NEW sc, NEW pl, IsProgram(sc, pl), NEW k \in 1..Len(sc), NEW s, NEW g,
           GoodAt(s, k - 1, sc, pl)
    PROVE  GoodAt(After(s, sc[k], g), k, sc, pl)
<1>0. /\ sc[k] \in Rounds /\ Legal(sc[k]) /\ IsEnv(pl[k]) /\ IsEnv(pl[k + 1])
      /\ pl[k + 1] = IF sc[k].op = "conv2" THEN pl[k] ELSE Meaning(pl[k], sc[k])
  BY RoundAt, PlainAt
<1>1. PICK r \in Rounds : r = sc[k] /\ Legal(r)
  BY <1>0, Zenon
<1>2. PICK env : env = pl[k] /\ IsEnv(env)
  BY <1>0, Zenon
<1>3. PICK e : e = pl[k + 1] /\ IsEnv(e)
  BY <1>0, Zenon
<1>4. e = IF r.op = "conv2" THEN env ELSE Meaning(env, r)
  BY <1>0, <1>1, <1>2, <1>3, Zenon
<1>5. PICK t : t = After(s, r, g)
  OBVIOUS
<1>6. r.a \in Wire /\ r.b \in Wire /\ r.o \in Wire
  BY <1>1 DEF Rounds
<1>7. (k - 1) + 1 = k /\ k \in Nat /\ k > 0
  BY RoundAt
<1>8. CASE r.op = "conv2"
  <2>1. PICK j \in 1..Len(sc) : j = k - 1 /\ sc[j] \in Rounds /\ sc[j].op = "conv1"
    <3>1. sc[k].op = "conv2"
      BY <1>1, <1>8
    <3>2. PICK j \in 1..Len(sc) : j = k - 1 /\ sc[j].op = "conv1"
      BY <3>1, ConvAt
    <3> QED BY <3>2, RoundAt
  <2>2. j + 1 = k /\ j > 0 /\ k > 1
    BY <2>1, RoundAt
  <2>3. PICK q \in Rounds : q = sc[j] /\ q.op = "conv1" /\ r = [q EXCEPT !.op = "conv2"]
    BY <1>1, <2>1, <2>2, ConvAt
  <2>4. r.a = q.a /\ r.o = q.o
    BY <2>3 DEF Rounds
  <2>5. HalfWay(s, env, q)
    BY <1>2, <1>7, <2>1, <2>2, <2>3, Zenon DEF GoodAt
  <2>6. HalfWay(s, env, r)
    BY <2>4, <2>5 DEF HalfWay, Length
  <2>7. env[r.o] = env[r.a]
    <3>1. IsEnv(pl[j]) /\ pl[j + 1] = Meaning(pl[j], q)
      <4>1. IsEnv(pl[j]) /\ pl[j + 1] = IF sc[j].op = "conv2" THEN pl[j] ELSE Meaning(pl[j], sc[j])
        BY RoundAt, PlainAt
      <4> QED BY <2>3, <4>1
    <3>2. PICK env0 : IsEnv(env0) /\ env = Meaning(env0, q)
      BY <1>2, <2>2, <3>1
    <3>3. env = [env0 EXCEPT ![q.o] = env0[q.a]]
      BY <2>3, <3>2 DEF Meaning, Local
    <3> QED BY <1>6, <2>4, <3>2, <3>3 DEF IsEnv
  <2>8. GoodShares(t, env)
    BY <1>1, <1>2, <1>5, <1>8, <2>6, <2>7, SecondHalf
  <2>9. GoodShares(t, e)
    BY <1>4, <1>8, <2>8
  <2> QED BY <1>1, <1>3, <1>5, <1>8, <2>9 DEF GoodAt
<1>9. CASE r.op # "conv2"
  <2>1. ~(k - 1 > 0 /\ sc[k - 1].op = "conv1")
    <3> SUFFICES ASSUME k - 1 > 0, sc[k - 1].op = "conv1" PROVE FALSE
      OBVIOUS
    <3>1. k > 1
      BY <1>7
    <3>2. sc[k] = [sc[k - 1] EXCEPT !.op = "conv2"]
      BY <3>1, ConvAt
    <3>3. PICK j \in 1..Len(sc) : j = k - 1
      BY <1>7, <3>1, RoundAt
    <3>4. sc[j] \in Rounds
      BY RoundAt
    <3>5. sc[k].op = "conv2"
      BY <3>2, <3>3, <3>4 DEF Rounds
    <3> QED BY <1>1, <1>9, <3>5
  <2>2. GoodShares(s, env)
    BY <1>2, <1>7, <2>1, Zenon DEF GoodAt
  <2>3. e = Meaning(env, r)
    BY <1>4, <1>9
  <2>4. CASE r.op = "conv1"
    <3>1. HalfWay(t, e, r)
      BY <1>1, <1>2, <1>5, <2>2, <2>3, <2>4, FirstHalf
    <3> QED BY <1>1, <1>3, <1>5, <1>7, <2>4, <3>1 DEF GoodAt
  <2>5. CASE r.op # "conv1"
    <3>1. AreShares(s) /\ \A w \in Wire : GoodWire(s, env, w)
      BY <2>2 DEF GoodShares
    <3>2. ASSUME NEW w \in Wire, w # r.o \/ r.op = "reveal"
          PROVE  AreShares(t) /\ GoodWire(t, e, w)
      <4>1. AreShares(t) /\ (\A p \in Party : t[p][w] = s[p][w]) /\ e[w] = env[w]
        BY <1>1, <1>2, <1>5, <2>3, <3>1, <3>2, OtherWires
      <4> QED BY <3>1, <4>1, SameWire
    <3>3. AreShares(t)
      <4>1. \A p \in Party : DOMAIN t[p] = DOMAIN s[p]
        BY <1>5 DEF After
      <4> QED BY <3>1, <4>1 DEF AreShares
    <3>4. r.op # "reveal" => GoodWire(t, e, r.o)
      <4>1. r.op \in Local \/ r.op \in Summed \/ r.op = "reveal"
        BY <1>1, <1>9, <2>5 DEF Rounds, Local, Summed
      <4>2. CASE r.op \in Local
        BY <1>1, <1>2, <1>5, <2>2, <2>3, <4>2, LocalRound
      <4>3. CASE r.op \in Summed
        BY <1>1, <1>2, <1>3, <1>5, <2>2, <2>3, <4>3, PlainRound
      <4> QED BY <4>1, <4>2, <4>3
    <3>5. GoodShares(t, e)
      BY <3>2, <3>3, <3>4 DEF GoodShares
    <3> QED BY <1>1, <1>3, <1>5, <2>5, <3>5 DEF GoodAt
  <2> QED BY <2>4, <2>5
<1> QED BY <1>8, <1>9

\* Generator, drawn units and the shares of all three after round r.
AfterRound(h, r) ==
    LET d == Draw(h.gen, Width[r.o], Length(r), r.vec)
    IN  [gen |-> IF Moves(r) THEN d.gen ELSE h.gen,
         spent |-> IF Moves(r) THEN h.spent \cup {d.units[i] : i \in 1..Length(r)} ELSE h.spent,
         share |-> After(h.share, r, h.gen)]

\* hist[k] is what the first k rounds of sc make of new generators and of the initial shares.
IsHistory(hist, n, sc, pl) ==
    /\ hist[0].gen = FreshGenerator /\ hist[0].spent = {}
    /\ \A k \in 1..n : hist[k] = AfterRound(hist[k - 1], sc[k])
    /\ \A k \in 0..n : GoodAt(hist[k].share, k, sc, pl)

LEMMA GrowHistory ==
    ASSUME NEW sc, NEW pl, IsProgram(sc, pl), NEW n \in Nat, n + 1 <= Len(sc),
           NEW h, IsHistory(h, n, sc, pl)
    PROVE  \E f : IsHistory(f, n + 1, sc, pl) /\ \A k \in 0..n : f[k] = h[k]
<1>0. Len(sc) \in Nat
  BY DEF IsProgram
<1>1. PICK r : r = sc[n + 1]
  OBVIOUS
<1>2. PICK f : f = [k \in 0..(n + 1) |-> IF k = n + 1 THEN AfterRound(h[n], r) ELSE h[k]]
  OBVIOUS
<1>3. f[n + 1] = AfterRound(h[n], r) /\ \A k \in 0..n : f[k] = h[k]
  BY <1>2
<1>4. \A k \in 1..(n + 1) : f[k] = AfterRound(f[k - 1], sc[k])
  <2> TAKE k \in 1..(n + 1)
  <2>1. CASE k = n + 1
    <3>1. k - 1 = n /\ f[n] = h[n]
      BY <1>3, <2>1
    <3> QED BY <1>1, <1>3, <2>1, <3>1
  <2>2. CASE k # n + 1
    <3>1. k \in 1..n /\ k \in 0..n /\ k - 1 \in 0..n
      BY <2>2
    <3>2. f[k] = h[k] /\ f[k - 1] = h[k - 1]
      BY <1>3, <3>1
    <3> QED BY <3>1, <3>2 DEF IsHistory
  <2> QED BY <2>1, <2>2
<1>5. \A k \in 0..(n + 1) : GoodAt(f[k].share, k, sc, pl)
  <2> TAKE k \in 0..(n + 1)
  <2>1. CASE k = n + 1
    <3>1. GoodAt(h[n].share, n, sc, pl)
      BY DEF IsHistory
    <3>2. PICK j \in 1..Len(sc) : j = n + 1 /\ j - 1 = n
      BY <1>0
    <3>3. GoodAt(After(h[n].share, r, h[n].gen), j, sc, pl)
      BY <1>1, <3>1, <3>2, GoodStep
    <3>4. f[k].share = After(h[n].share, r, h[n].gen)
      BY <1>3, <2>1 DEF AfterRound
    <3> QED BY <2>1, <3>2, <3>3, <3>4
  <2>2. CASE k # n + 1
    <3>1. k \in 0..n
      BY <2>2
    <3> QED BY <1>3, <3>1 DEF IsHistory
  <2> QED BY <2>1, <2>2
<1>6. f[0] = h[0]
  BY <1>3
<1> QED BY <1>3, <1>4, <1>5, <1>6 DEF IsHistory

-----------------------------------------------------------------------------
\* The channels

\* Rounds in which p sends to q: P1 and then P0 in a revealAll, to PREV in the others.
Posts(r, p, q) ==
    IF r.op = "reveal" THEN <<p, q>> \in {<<1, 0>>, <<0, 1>>, <<0, 2>>}
    ELSE r.op \notin Local /\ q = PREV(p)

\* A party has sent when it has begun a round; P0, in a revealAll, when it has finished.
Reach(r, p, a, b) == IF r.op = "reveal" /\ p = 0 THEN a ELSE b

\* What p has sent to q, by round, when it has finished a rounds and begun b.
Posted(sc, p, q, a, b) == {k \in 1..Len(sc) : Posts(sc[k], p, q) /\ k <= Reach(sc[k], p, a, b)}

\* What p sends in round k.
Datum(h, r, k, p) ==
    IF r.op # "reveal" THEN Sent(h[k - 1].share[p], p, r, h[k - 1].gen)
    ELSE IF p = 1 THEN Lacking(h[k - 1].share[1], r.a)
    ELSE Opened(h[k - 1].share[0], r.a, Lacking(h[k - 1].share[1], r.a))
Data(h, sc, p) == [k \in 1..Len(sc) |-> Datum(h, sc[k], k, p)]

\* The queue from p to q, which has finished d rounds: q was never ahead of what it needs.
Channel(Q, sc, h, p, q, a, b, d) ==
    /\ Stream(Q, Posted(sc, p, q, a, b), d, Data(h, sc, p))
    /\ \A k \in 1..Len(sc) : Posts(sc[k], p, q) /\ k <= d => k \in Posted(sc, p, q, a, b)

\* Whether p posts round k of contents r to q in going on from a finished rounds and b
\* begun to c finished rounds and k begun.
Posting(r, k, p, q, a, b, c) ==
    Posts(r, p, q) /\ Reach(r, p, a, b) < k /\ k <= Reach(r, p, c, k)

LEMMA NobodyPostsToItself ==
    ASSUME NEW r, NEW p \in Party
    PROVE  ~Posts(r, p, p)
  BY DEF Posts, Party, PREV

\* The poster goes on to round k.
LEMMA PostedGrows ==
    ASSUME NEW sc, NEW n \in Nat, n = Len(sc), NEW p \in Party, NEW q \in Party,
           NEW a \in Nat, NEW b \in Nat, NEW c \in Nat, NEW k \in 1..n, k = a + 1,
           b \in {a, k}, c \in {a, k}
    PROVE  /\ Posting(sc[k], k, p, q, a, b, c) =>
                 Posted(sc, p, q, c, k) = Posted(sc, p, q, a, b) \cup {k}
           /\ ~Posting(sc[k], k, p, q, a, b, c) => Posted(sc, p, q, c, k) = Posted(sc, p, q, a, b)
<1> DEFINE P == Posted(sc, p, q, a, b)
           P2 == Posted(sc, p, q, c, k)
<1>1. \A j \in 1..n : /\ j \in P <=> Posts(sc[j], p, q) /\ j <= Reach(sc[j], p, a, b)
                      /\ j \in P2 <=> Posts(sc[j], p, q) /\ j <= Reach(sc[j], p, c, k)
  BY DEF Posted
<1>2. P \subseteq 1..n /\ P2 \subseteq 1..n
  BY DEF Posted
<1>3. \A j \in 1..n : /\ Reach(sc[j], p, a, b) \in {a, k} /\ Reach(sc[j], p, c, k) \in {a, k}
  BY DEF Reach
<1> HIDE DEF P, P2
<1>4. \A j \in 1..n : j # k => (j \in P <=> j \in P2)
  <2> TAKE j \in 1..n
  <2> HAVE j # k
  <2>1. PICK x \in {a, k} : x = Reach(sc[j], p, a, b)
    BY <1>3
  <2>2. PICK y \in {a, k} : y = Reach(sc[j], p, c, k)
    BY <1>3
  <2>3. (j <= x <=> j <= a) /\ (j <= y <=> j <= a)
    OBVIOUS
  <2> QED BY <1>1, <2>1, <2>2, <2>3
<1>5. ASSUME Posting(sc[k], k, p, q, a, b, c) PROVE P2 = P \cup {k}
  <2>1. k \in P2
    BY <1>1, <1>5 DEF Posting
  <2>2. k \notin P
    <3>1. PICK x \in {a, k} : x = Reach(sc[k], p, a, b)
      BY <1>3
    <3>2. ~(k <= x)
      BY <1>5, <3>1 DEF Posting
    <3> QED BY <1>1, <3>1, <3>2
  <2>3. \A j \in 1..n : j \in P2 <=> j \in P \cup {k}
    <3> TAKE j \in 1..n
    <3>1. CASE j = k
      BY <2>1, <3>1
    <3> QED BY <1>4, <3>1
  <2> QED BY <1>2, <1>4, <2>2, <2>3
<1>6. ASSUME ~Posting(sc[k], k, p, q, a, b, c),
             Reach(sc[k], p, a, b) <= Reach(sc[k], p, c, k)
      PROVE  P2 = P
  <2>1. PICK x \in {a, k} : x = Reach(sc[k], p, a, b)
    BY <1>3
  <2>2. PICK y \in {a, k} : y = Reach(sc[k], p, c, k)
    BY <1>3
  <2>3. x <= y /\ ~(Posts(sc[k], p, q) /\ x < k /\ k <= y)
    BY <1>6, <2>1, <2>2 DEF Posting
  <2>4. Posts(sc[k], p, q) => (k <= x <=> k <= y)
    BY <2>3
  <2>5. k \in P <=> k \in P2
    BY <1>1, <2>1, <2>2, <2>4
  <2>6. \A j \in 1..n : j \in P <=> j \in P2
    <3> TAKE j \in 1..n
    <3>1. CASE j = k
      BY <2>5, <3>1
    <3> QED BY <1>4, <3>1
  <2> QED BY <1>2, <2>6
<1>7. Reach(sc[k], p, a, b) <= Reach(sc[k], p, c, k)
  BY DEF Reach
<1> QED BY <1>5, <1>6, <1>7 DEF P, P2

\* A channel when its sender goes on to round k, its receiver does, or the program grows.
LEMMA ChannelPost ==
    ASSUME NEW sc, NEW n \in Nat, n = Len(sc), NEW p \in Party, NEW q \in Party, NEW h,
           NEW a \in Nat, NEW b \in Nat, NEW c \in Nat, NEW d \in Nat, NEW k \in 1..n, k = a + 1,
           b \in {a, k}, c \in {a, k}, NEW Q, Channel(Q, sc, h, p, q, a, b, d),
           Posting(sc[k], k, p, q, a, b, c)
    PROVE  Channel(Append(Q, Datum(h, sc[k], k, p)), sc, h, p, q, c, k, d)
<1>1. PICK P : P = Posted(sc, p, q, a, b)
  OBVIOUS
<1>2. PICK P2 : P2 = Posted(sc, p, q, c, k)
  OBVIOUS
<1>3. PICK D : D = Data(h, sc, p)
  OBVIOUS
<1>4. P \subseteq Nat /\ Stream(Q, P, d, D)
      /\ \A j \in 1..n : Posts(sc[j], p, q) /\ j <= d => j \in P
  BY <1>1, <1>3 DEF Channel, Posted
<1>5. P2 = P \cup {k}
  BY <1>1, <1>2, PostedGrows
<1>6. ASSUME NEW j \in P PROVE j < k
  <2>1. j \in 1..n /\ j <= Reach(sc[j], p, a, b) /\ Reach(sc[j], p, a, b) \in {a, b}
    BY <1>1 DEF Posted, Reach
  <2>2. j # k
    BY <2>1 DEF Reach, Posting
  <2> QED BY <2>1, <2>2
<1>7. k > d
  <2>1. k \notin P
    BY <1>4, <1>6
  <2> QED BY <1>4, <2>1 DEF Posting
<1>8. D[k] = Datum(h, sc[k], k, p)
  BY <1>3 DEF Data
<1>9. Stream(Append(Q, D[k]), P2, d, D)
  <2>1. P \subseteq Nat /\ Stream(Q, P, d, D) /\ k \in Nat /\ \A j \in P : j < k
    BY <1>4, <1>6
  <2>2. Stream(Append(Q, D[k]), P \cup {k}, d, D)
    BY <1>7, <2>1, StreamAppend, Zenon
  <2> QED BY <1>5, <2>2, Zenon
<1>10. \A j \in 1..n : Posts(sc[j], p, q) /\ j <= d => j \in P2
  BY <1>4, <1>5
<1> QED BY <1>2, <1>3, <1>8, <1>9, <1>10 DEF Channel

LEMMA ChannelIdle ==
    ASSUME NEW sc, NEW n \in Nat, n = Len(sc), NEW p \in Party, NEW q \in Party, NEW h,
           NEW a \in Nat, NEW b \in Nat, NEW c \in Nat, NEW d \in Nat, NEW k \in 1..n, k = a + 1,
           b \in {a, k}, c \in {a, k}, NEW Q, Channel(Q, sc, h, p, q, a, b, d),
           ~Posting(sc[k], k, p, q, a, b, c)
    PROVE  Channel(Q, sc, h, p, q, c, k, d)
<1>1. Posted(sc, p, q, c, k) = Posted(sc, p, q, a, b)
  BY PostedGrows
<1> QED BY <1>1 DEF Channel

LEMMA ChannelTake ==
    ASSUME NEW sc, NEW n \in Nat, n = Len(sc), NEW p \in Party, NEW q \in Party, NEW h,
           NEW a \in Nat, NEW b \in Nat, b \in {a, a + 1}, NEW d \in Nat, NEW k \in 1..n, k = d + 1,
           Posts(sc[k], p, q), NEW Q, Q # <<>>, Channel(Q, sc, h, p, q, a, b, d)
    PROVE  Head(Q) = Datum(h, sc[k], k, p) /\ Channel(Tail(Q), sc, h, p, q, a, b, k)
<1>1. PICK P : P = Posted(sc, p, q, a, b)
  OBVIOUS
<1>2. PICK D : D = Data(h, sc, p)
  OBVIOUS
<1>3. P \subseteq Nat /\ Stream(Q, P, d, D)
      /\ \A j \in 1..n : Posts(sc[j], p, q) /\ j <= d => j \in P
  BY <1>1, <1>2 DEF Channel, Posted
<1>4. k \in P
  <2>1. PICK j \in P : j > d
    BY <1>3, StreamNonEmpty
  <2>2. j \in Nat /\ j >= k
    BY <1>3, <2>1
  <2>3. PICK x \in {a, b} : x = Reach(sc[j], p, a, b)
    BY DEF Reach
  <2>4. j <= x
    BY <1>1, <2>1, <2>3 DEF Posted
  <2>5. PICK y \in {a, b} : y = Reach(sc[k], p, a, b)
    BY DEF Reach
  <2>6. CASE j = k
    BY <2>1, <2>6
  <2>7. CASE j # k
    <3>1. k <= y
      BY <2>2, <2>4, <2>7
    <3> QED BY <1>1, <2>5, <3>1 DEF Posted
  <2> QED BY <2>6, <2>7
<1>5. Head(Q) = D[k] /\ Stream(Tail(Q), P, k, D)
  <2>1. P \subseteq Nat /\ Stream(Q, P, d, D)
    BY <1>3
  <2>2. Head(Q) = D[d + 1] /\ Stream(Tail(Q), P, d + 1, D)
    <3>1. d + 1 \in P
      BY <1>4
    <3> QED BY <2>1, <3>1, StreamTake
  <2> QED BY <2>2
<1>6. D[k] = Datum(h, sc[k], k, p)
  BY <1>2 DEF Data
<1>7. \A j \in 1..n : Posts(sc[j], p, q) /\ j <= k => j \in P
  BY <1>3, <1>4
<1> QED BY <1>1, <1>2, <1>5, <1>6, <1>7 DEF Channel

LEMMA ChannelSkip ==
    ASSUME NEW sc, NEW n \in Nat, n = Len(sc), NEW p \in Party, NEW q \in Party, NEW h,
           NEW a \in Nat, NEW b \in Nat, NEW d \in Nat, NEW k \in 1..n, k = d + 1,
           ~Posts(sc[k], p, q), NEW Q, Channel(Q, sc, h, p, q, a, b, d)
    PROVE  Channel(Q, sc, h, p, q, a, b, k)
<1>1. PICK P : P = Posted(sc, p, q, a, b)
  OBVIOUS
<1>2. PICK D : D = Data(h, sc, p)
  OBVIOUS
<1>3. P \subseteq Nat /\ Stream(Q, P, d, D) /\ k \notin P
      /\ \A j \in 1..n : Posts(sc[j], p, q) /\ j <= d => j \in P
  BY <1>1, <1>2 DEF Channel, Posted
<1>4. Stream(Q, P, k, D)
  BY <1>3, StreamSkip
<1>5. \A j \in 1..n : Posts(sc[j], p, q) /\ j <= k => j \in P
  BY <1>3
<1> QED BY <1>1, <1>2, <1>4, <1>5 DEF Channel

LEMMA ChannelLonger ==
    ASSUME NEW sc, NEW n \in Nat, n = Len(sc), NEW sc2, NEW n2 \in Nat, n2 = Len(sc2), n <= n2,
           \A k \in 1..n : sc2[k] = sc[k],
           NEW h, NEW h2, \A k \in 0..n : h2[k] = h[k],
           NEW p \in Party, NEW q \in Party, NEW a \in 0..n, NEW b \in 0..n, NEW d \in 0..n,
           NEW Q, Channel(Q, sc, h, p, q, a, b, d)
    PROVE  Channel(Q, sc2, h2, p, q, a, b, d)
<1>1. PICK P : P = Posted(sc, p, q, a, b)
  OBVIOUS
<1>2. Posted(sc2, p, q, a, b) = P
  <2>1. \A k \in 1..n2 : k <= Reach(sc2[k], p, a, b) => k \in 1..n
    BY DEF Reach
  <2>2. \A k \in 1..n : k \in 1..n2
    OBVIOUS
  <2> QED BY <1>1, <2>1, <2>2 DEF Posted
<1>3. \A k \in P : Data(h2, sc2, p)[k] = Data(h, sc, p)[k]
  <2> TAKE k \in P
  <2>1. k \in 1..n /\ k \in 1..n2 /\ k - 1 \in 0..n
    BY <1>1 DEF Posted
  <2>2. h2[k - 1] = h[k - 1] /\ sc2[k] = sc[k]
    BY <2>1
  <2>3. Datum(h2, sc2[k], k, p) = Datum(h, sc[k], k, p)
    BY <2>2 DEF Datum
  <2> QED BY <2>1, <2>3 DEF Data
<1>4. Stream(Q, P, d, Data(h2, sc2, p))
  BY <1>1, <1>3, StreamSame DEF Channel
<1>5. \A k \in 1..n2 : Posts(sc2[k], p, q) /\ k <= d => k \in P
  <2>1. \A k \in 1..n2 : k <= d => k \in 1..n
    OBVIOUS
  <2> QED BY <1>1, <2>1 DEF Channel
<1> QED BY <1>2, <1>4, <1>5 DEF Channel

-----------------------------------------------------------------------------
\* The parties follow the history

\* All are where the history says, which covers the whole program.
GensFollow(h) == \A p \in Party : gen[p] = h[Begun(p)].gen /\ spent[p] = h[Begun(p)].spent
SharesFollow(h) == DOMAIN share = Party /\ \A p \in Party : share[p] = h[at[p]].share[p]
SentFollows(h) ==
    /\ DOMAIN mine = Party
    /\ \A p \in waiting : Round(p).op \notin Local
    /\ \A p \in waiting : Round(p).op # "reveal" =>
          mine[p] = Sent(h[at[p]].share[p], p, Round(p), h[at[p]].gen)
Revealed == DOMAIN out = Party /\ RevealIsPlain

ChannelsOK(h) ==
    /\ DOMAIN chan = Party \X Party
    /\ \A p, q \in Party : Channel(chan[<<p, q>>], script, h, p, q, at[p], Begun(p), at[q])

\* What a step of party p in round k does to the channels.
ChannelStep(h, p, k) ==
    /\ k \in 1..Len(script) /\ k = at[p] + 1 /\ UNCHANGED <<script, plain>>
    /\ Begun(p) \in {at[p], k} /\ Begun(p)' = k /\ at'[p] \in {at[p], k}
    /\ \A q \in Party \ {p} : at'[q] = at[q] /\ Begun(q)' = Begun(q)
    /\ DOMAIN chan' = Party \X Party
    /\ \A q \in Party \ {p} :
          /\ chan'[<<p, q>>] = IF Posting(script[k], k, p, q, at[p], Begun(p), at'[p])
                               THEN Append(chan[<<p, q>>], Datum(h, script[k], k, p))
                               ELSE chan[<<p, q>>]
          /\ IF at'[p] = k /\ Posts(script[k], q, p)
             THEN chan[<<q, p>>] # <<>> /\ chan'[<<q, p>>] = Tail(chan[<<q, p>>])
             ELSE chan'[<<q, p>>] = chan[<<q, p>>]
          /\ \A s \in Party \ {p} : chan'[<<q, s>>] = chan[<<q, s>>]
    /\ chan'[<<p, p>>] = chan[<<p, p>>]

LEMMA StepKeepsChannels ==
    ASSUME ProgramOK, NEW h, ChannelsOK(h), NEW p \in Party, NEW k, ChannelStep(h, p, k)
    PROVE  ChannelsOK(h)'
<1>1. PICK n \in Nat : n = Len(script)
  BY DEF ProgramOK, IsProgram
<1>2. k \in 1..n
  BY <1>1 DEF ChannelStep
<1>3. \A x \in Party : at[x] \in Nat /\ Begun(x) \in Nat
  BY DEF ProgramOK, Begun
<1>4. \A x \in Party : Begun(x) \in {at[x], at[x] + 1}
  BY <1>3 DEF Begun
<1>5. PICK sc : sc = script /\ sc = script'
  BY DEF ChannelStep
<1>6. ASSUME NEW x \in Party, NEW y \in Party
      PROVE  Channel(chan'[<<x, y>>], sc, h, x, y, at'[x], Begun(x)', at'[y])
  <2>1. PICK a \in Nat, b \in Nat, d \in Nat : a = at[x] /\ b = Begun(x) /\ d = at[y]
    BY <1>3
  <2>2. PICK Q : Q = chan[<<x, y>>]
    OBVIOUS
  <2>3. Channel(Q, sc, h, x, y, a, b, d) /\ b \in {a, a + 1}
    BY <1>4, <1>5, <2>1, <2>2 DEF ChannelsOK
  <2>4. CASE x = p /\ y # p
    <3>1. PICK c \in Nat : c = at'[x] /\ c \in {a, k}
      BY <1>2, <2>1, <2>4 DEF ChannelStep
    <3>2. k = a + 1 /\ b \in {a, k} /\ Begun(x)' = k /\ at'[y] = d
      BY <2>1, <2>4 DEF ChannelStep
    <3>3. CASE Posting(sc[k], k, x, y, a, b, c)
      <4>1. chan'[<<x, y>>] = Append(Q, Datum(h, sc[k], k, x))
        BY <1>5, <2>1, <2>2, <2>4, <3>1, <3>3 DEF ChannelStep
      <4>2. Channel(Append(Q, Datum(h, sc[k], k, x)), sc, h, x, y, c, k, d)
        BY <1>1, <1>2, <1>5, <2>3, <3>1, <3>2, <3>3, ChannelPost
      <4> QED BY <3>1, <3>2, <4>1, <4>2
    <3>4. CASE ~Posting(sc[k], k, x, y, a, b, c)
      <4>1. chan'[<<x, y>>] = Q
        BY <1>5, <2>1, <2>2, <2>4, <3>1, <3>4 DEF ChannelStep
      <4>2. Channel(Q, sc, h, x, y, c, k, d)
        BY <1>1, <1>2, <1>5, <2>3, <3>1, <3>2, <3>4, ChannelIdle
      <4> QED BY <3>1, <3>2, <4>1, <4>2
    <3> QED BY <3>3, <3>4
  <2>5. CASE x # p /\ y = p
    <3>1. k = d + 1 /\ at'[x] = a /\ Begun(x)' = b /\ at'[y] \in {d, k}
      BY <2>1, <2>5 DEF ChannelStep
    <3>2. CASE at'[y] = d
      <4>1. at'[p] # k /\ chan'[<<x, y>>] = Q
        <5>1. at'[p] # k
          BY <2>5, <3>1, <3>2
        <5> QED BY <2>2, <2>5, <5>1 DEF ChannelStep
      <4> QED BY <2>3, <3>1, <3>2, <4>1
    <3>3. CASE at'[y] = k /\ Posts(sc[k], x, y)
      <4>1. Q # <<>> /\ chan'[<<x, y>>] = Tail(Q)
        BY <1>5, <2>2, <2>5, <3>3 DEF ChannelStep
      <4>2. Channel(Tail(Q), sc, h, x, y, a, b, k)
        BY <1>1, <1>2, <1>5, <2>3, <3>1, <3>3, <4>1, ChannelTake
      <4> QED BY <3>1, <3>3, <4>1, <4>2
    <3>4. CASE at'[y] = k /\ ~Posts(sc[k], x, y)
      <4>1. chan'[<<x, y>>] = Q
        BY <1>5, <2>2, <2>5, <3>4 DEF ChannelStep
      <4>2. Channel(Q, sc, h, x, y, a, b, k)
        BY <1>1, <1>2, <1>5, <2>3, <3>1, <3>4, ChannelSkip
      <4> QED BY <3>1, <3>4, <4>1, <4>2
    <3> QED BY <3>1, <3>2, <3>3, <3>4
  <2>6. CASE x # p /\ y # p
    BY <2>1, <2>2, <2>3, <2>6 DEF ChannelStep
  <2>7. CASE x = p /\ y = p
    <3>1. PICK c \in Nat : c = at'[x] /\ c \in {a, k}
      BY <1>2, <2>1, <2>7 DEF ChannelStep
    <3>2. k = a + 1 /\ b \in {a, k} /\ Begun(x)' = k /\ chan'[<<x, y>>] = Q /\ d = a /\ at'[y] = c
      BY <2>1, <2>2, <2>7, <3>1 DEF ChannelStep
    <3>3. ~Posts(sc[k], x, y) /\ ~Posting(sc[k], k, x, y, a, b, c)
      BY <2>7, NobodyPostsToItself DEF Posting
    <3>5. Channel(Q, sc, h, x, y, c, k, d)
      BY <1>1, <1>2, <1>5, <2>3, <3>1, <3>2, <3>3, ChannelIdle
    <3>6. Channel(Q, sc, h, x, y, c, k, k)
      BY <1>1, <1>2, <1>5, <3>2, <3>3, <3>5, ChannelSkip
    <3> QED BY <3>1, <3>2, <3>5, <3>6
  <2> QED BY <2>4, <2>5, <2>6, <2>7
<1>7. DOMAIN chan' = Party \X Party
  BY DEF ChannelStep
<1> QED BY <1>5, <1>6, <1>7 DEF ChannelsOK

\* A party in its round, and what the history says of it.
LEMMA InRound ==
    ASSUME ProgramOK, NEW h, IsHistory(h, Len(script), script, plain), SharesFollow(h), GensFollow(h),
           NEW p \in Party, p \in waiting \/ Ready(p), NEW k, k = at[p] + 1
    PROVE  /\ k \in 1..Len(script) /\ k \in Nat /\ k - 1 = at[p] /\ at[p] \in Nat
           /\ Round(p) = script[k] /\ script[k] \in Rounds /\ Legal(script[k])
           /\ share[p] = h[at[p]].share[p] /\ AreShares(h[at[p]].share)
           /\ p \notin waiting => gen[p] = h[at[p]].gen /\ Begun(p) = at[p]
           /\ p \in waiting => Begun(p) = k
           /\ h[k].gen = (IF Moves(script[k])
                          THEN Draw(h[at[p]].gen, Width[script[k].o], Length(script[k]), script[k].vec).gen
                          ELSE h[at[p]].gen)
           /\ h[k].share = After(h[at[p]].share, script[k], h[at[p]].gen)
<1>1. at[p] \in Nat /\ k \in DOMAIN script /\ Round(p) = script[k]
  BY RoundOfParty DEF ProgramOK
<1>2. Len(script) \in Nat /\ DOMAIN script = 1..Len(script)
  BY DEF ProgramOK, IsProgram
<1>3. k \in 1..Len(script) /\ k \in Nat /\ k - 1 = at[p] /\ at[p] \in 0..Len(script)
  BY <1>1, <1>2
<1>4. script[k] \in Rounds /\ Legal(script[k])
  BY <1>1, LengthType
<1>5. h[k] = AfterRound(h[at[p]], script[k])
  BY <1>3 DEF IsHistory
<1>6. AreShares(h[at[p]].share)
  <2>1. GoodAt(h[at[p]].share, at[p], script, plain)
    BY <1>3 DEF IsHistory
  <2> QED BY <2>1 DEF GoodAt, HalfWay, GoodShares
<1>7. p \notin waiting => Begun(p) = at[p]
  BY <1>1 DEF Begun
<1>8. p \in waiting => Begun(p) = k
  BY DEF Begun
<1>9. share[p] = h[at[p]].share[p] /\ (p \notin waiting => gen[p] = h[at[p]].gen)
  BY <1>7 DEF SharesFollow, GensFollow
<1>10. /\ h[k].gen = (IF Moves(script[k])
                      THEN Draw(h[at[p]].gen, Width[script[k].o], Length(script[k]), script[k].vec).gen
                      ELSE h[at[p]].gen)
       /\ h[k].share = After(h[at[p]].share, script[k], h[at[p]].gen)
  <2>1. PICK r : r = script[k]
    OBVIOUS
  <2>2. PICK g : g = h[at[p]]
    OBVIOUS
  <2>3. PICK d : d = Draw(g.gen, Width[r.o], Length(r), r.vec)
    OBVIOUS
  <2>4. h[k] = AfterRound(g, r)
    BY <1>5, <2>1, <2>2
  <2>5. h[k].gen = (IF Moves(r) THEN d.gen ELSE g.gen) /\ h[k].share = After(g.share, r, g.gen)
    BY <2>3, <2>4 DEF AfterRound
  <2> QED BY <2>1, <2>2, <2>3, <2>5
<1> QED BY <1>1, <1>3, <1>4, <1>6, <1>7, <1>8, <1>9, <1>10

\* Only p moves, to x finished rounds; its share and what it has sent are the history's.
FollowStep(h, p, x) ==
    /\ UNCHANGED <<script, plain>> /\ at' = [at EXCEPT ![p] = x]
    /\ waiting' \subseteq Party /\ DOMAIN share' = Party /\ DOMAIN mine' = Party /\ DOMAIN out' = Party
    /\ \A q \in Party \ {p} : /\ q \in waiting' <=> q \in waiting
                              /\ share'[q] = share[q] /\ mine'[q] = mine[q] /\ out'[q] = out[q]
    /\ share'[p] = h[x].share[p]
    /\ p \in waiting' => script[x + 1].op \notin Local
    /\ p \in waiting' /\ script[x + 1].op # "reveal" =>
          mine'[p] = Sent(h[x].share[p], p, script[x + 1], h[x].gen)
    /\ p \notin waiting' /\ x > 0 /\ script[x].op = "reveal" => out'[p] = plain[x][script[x].a]

LEMMA StepFollows ==
    ASSUME ProgramOK, NEW h, SharesFollow(h), SentFollows(h), Revealed, NEW p \in Party,
           NEW x, FollowStep(h, p, x)
    PROVE  SharesFollow(h)' /\ SentFollows(h)' /\ Revealed'
<1>1. at'[p] = x /\ \A q \in Party \ {p} : at'[q] = at[q]
  BY DEF ProgramOK, FollowStep
<1>2. SharesFollow(h)'
  BY <1>1 DEF SharesFollow, FollowStep
<1>3. SentFollows(h)'
  <2>1. ASSUME NEW q \in waiting', Round(q)'.op # "reveal"
        PROVE  mine'[q] = Sent(h[at'[q]].share[q], q, Round(q)', h[at'[q]].gen)
    <3>1. Round(q)' = script[at'[q] + 1]
      BY DEF Round, FollowStep
    <3>2. CASE q = p
      BY <1>1, <2>1, <3>1, <3>2 DEF FollowStep
    <3>3. CASE q # p
      <4>1. q \in Party \ {p} /\ q \in waiting
        BY <3>3 DEF FollowStep
      <4>2. Round(q)' = Round(q) /\ at'[q] = at[q] /\ mine'[q] = mine[q]
        BY <1>1, <3>1, <4>1 DEF Round, FollowStep
      <4> QED BY <2>1, <4>1, <4>2 DEF SentFollows
    <3> QED BY <3>2, <3>3
  <2>2. ASSUME NEW q \in waiting' PROVE Round(q)'.op \notin Local
    <3>1. Round(q)' = script[at'[q] + 1]
      BY DEF Round, FollowStep
    <3>2. CASE q = p
      BY <1>1, <2>2, <3>1, <3>2 DEF FollowStep
    <3>3. CASE q # p
      <4>1. q \in Party \ {p} /\ q \in waiting
        BY <2>2, <3>3 DEF FollowStep
      <4>2. Round(q)' = Round(q)
        BY <1>1, <3>1, <4>1 DEF Round, FollowStep
      <4> QED BY <4>1, <4>2 DEF SentFollows
    <3> QED BY <3>2, <3>3
  <2> QED BY <2>1, <2>2 DEF SentFollows, FollowStep
<1>4. Revealed'
  <2>1. ASSUME NEW q \in Party, q \notin waiting', at'[q] > 0, script[at'[q]].op = "reveal"
        PROVE  out'[q] = plain[at'[q]][script[at'[q]].a]
    <3>1. CASE q = p
      BY <1>1, <2>1, <3>1 DEF FollowStep
    <3>2. CASE q # p
      <4>1. q \in Party \ {p} /\ q \notin waiting /\ at'[q] = at[q] /\ out'[q] = out[q]
        BY <1>1, <2>1, <3>2 DEF FollowStep
      <4> QED BY <2>1, <4>1 DEF Revealed, RevealIsPlain
    <3> QED BY <3>1, <3>2
  <2> QED BY <2>1 DEF Revealed, RevealIsPlain, FollowStep
<1> QED BY <1>2, <1>3, <1>4

\* The generators follow the history by every step.
LEMMA GeneratorsFollow ==
    ASSUME IInv, [Next]_vars, NEW h, IsHistory(h, Len(script), script, plain), GensFollow(h)
    PROVE  \A p \in Party : gen'[p] = h[Begun(p)'].gen /\ spent'[p] = h[Begun(p)'].spent
<1>1. \A p \in Party : Begun(p) \in Nat
  BY DEF IInv, ProgramOK, Begun
<1>2. CASE QuietStep
  BY <1>2 DEF GensFollow, QuietStep
<1>3. ASSUME NEW p \in Party, DrawStep(p)
      PROVE  \A q \in Party : gen'[q] = h[Begun(q)'].gen /\ spent'[q] = h[Begun(q)'].spent
  <2>1. PICK k \in Nat : k = Begun(p)
    BY <1>1
  <2>2. k = at[p] /\ k + 1 \in 1..Len(script) /\ Round(p) = script[k + 1] /\ Begun(p)' = k + 1
    <3>1. Ready(p) /\ Begun(p)' = Begun(p) + 1 /\ at[p] \in Nat /\ p \notin waiting
      BY <1>3 DEF DrawStep, Ready, IInv, ProgramOK
    <3>2. Begun(p) = at[p]
      BY <3>1 DEF Begun
    <3>3. at[p] + 1 \in DOMAIN script /\ Round(p) = script[at[p] + 1]
      BY <3>1, RoundOfParty DEF IInv
    <3>4. DOMAIN script = 1..Len(script)
      BY DEF IInv, ProgramOK, IsProgram
    <3> QED BY <2>1, <3>1, <3>2, <3>3, <3>4
  <2>3. PICK r : r = Round(p)
    OBVIOUS
  <2>4. PICK d : d = DrawOf(p, r) /\ d = Draw(h[k].gen, Width[r.o], Length(r), r.vec)
    BY <2>1 DEF DrawOf, GensFollow
  <2>5. h[k + 1] = AfterRound(h[k], r)
    <3>1. (k + 1) - 1 = k
      OBVIOUS
    <3> QED BY <2>2, <2>3, <3>1 DEF IsHistory
  <2>6. /\ h[k + 1].gen = (IF Moves(r) THEN d.gen ELSE h[k].gen)
        /\ h[k + 1].spent = (IF Moves(r) THEN h[k].spent \cup {d.units[i] : i \in 1..Length(r)}
                             ELSE h[k].spent)
    BY <2>4, <2>5 DEF AfterRound
  <2>7. gen[p] = h[k].gen /\ spent[p] = h[k].spent
    BY <2>1 DEF GensFollow
  <2>8. gen'[p] = h[k + 1].gen /\ spent'[p] = h[k + 1].spent
    <3>1. CASE Moves(r)
      <4>1. gen'[p] = d.gen /\ spent'[p] = spent[p] \cup {d.units[i] : i \in 1..Length(r)}
        BY <1>3, <2>3, <2>4, <3>1 DEF DrawStep, IInv, Remembered
      <4> QED BY <2>6, <2>7, <3>1, <4>1
    <3>2. CASE ~Moves(r)
      BY <1>3, <2>3, <2>6, <2>7, <3>2 DEF DrawStep
    <3> QED BY <3>1, <3>2
  <2>9. \A q \in Party \ {p} : Begun(q)' = Begun(q) /\ gen'[q] = gen[q] /\ spent'[q] = spent[q]
    BY <1>3 DEF DrawStep, IInv, Remembered
  <2> QED BY <2>2, <2>8, <2>9 DEF GensFollow
<1> QED BY <1>2, <1>3, StepOfProgram DEF IInv

\* What is kept, and what every step keeps.
Going(h) ==
    /\ IsHistory(h, Len(script), script, plain)
    /\ GensFollow(h) /\ SharesFollow(h) /\ SentFollows(h) /\ ChannelsOK(h) /\ Revealed

LEMMA DoLocalGoes ==
    ASSUME IInv, NEW h, Going(h), NEW p \in Party, DoLocal(p)
    PROVE  ChannelsOK(h)' /\ SharesFollow(h)' /\ SentFollows(h)' /\ Revealed'
<1>1. PICK k : k = at[p] + 1
  OBVIOUS
<1>2. PICK r \in Rounds : r = Round(p)
  BY RoundOfParty, LengthType DEF DoLocal, IInv
<1>3. PICK s : s = h[at[p]].share
  OBVIOUS
<1>4. /\ Ready(p) /\ r.op \in Local /\ at' = [at EXCEPT ![p] = k]
      /\ share' = [share EXCEPT ![p][r.o] =
                      [this |-> Combined(r, share[p][r.a].this, share[p][r.b].this),
                       nxt |-> Combined(r, share[p][r.a].nxt, share[p][r.b].nxt)]]
      /\ UNCHANGED <<script, plain, waiting, mine, out, gen, spent, chan>>
  BY <1>1, <1>2 DEF DoLocal
<1>5. /\ k \in 1..Len(script) /\ k \in Nat /\ r = script[k] /\ share[p] = s[p]
      /\ h[k].share = After(s, r, h[at[p]].gen) /\ Begun(p) = at[p] /\ at[p] \in Nat /\ p \notin waiting
  BY <1>1, <1>2, <1>3, <1>4, InRound DEF IInv, Going, Ready
<1>6. share'[p] = h[k].share[p]
  <2>1. h[k].share[p] = [s[p] EXCEPT ![r.o] =
                          [this |-> Combined(r, s[p][r.a].this, s[p][r.b].this),
                           nxt |-> Combined(r, s[p][r.a].nxt, s[p][r.b].nxt)]]
    <3>1. r.op # "reveal"
      BY <1>4 DEF Local
    <3> QED BY <1>4, <1>5, <3>1 DEF After
  <2>2. DOMAIN share = Party
    BY DEF Going, SharesFollow
  <2>3. share'[p] = [share[p] EXCEPT ![r.o] =
                      [this |-> Combined(r, share[p][r.a].this, share[p][r.b].this),
                       nxt |-> Combined(r, share[p][r.a].nxt, share[p][r.b].nxt)]]
    BY <1>4, <2>2
  <2> QED BY <1>5, <2>1, <2>3
<1>7. ChannelStep(h, p, k)
  <2>1. \A q \in Party : ~Posts(r, p, q) /\ ~Posts(r, q, p)
    BY <1>4 DEF Posts, Local
  <2>2. at'[p] = k /\ \A q \in Party \ {p} : at'[q] = at[q]
    BY <1>4 DEF IInv, ProgramOK
  <2>3. Begun(p)' = k /\ \A q \in Party \ {p} : Begun(q)' = Begun(q)
    BY <1>4, <1>5, <2>2 DEF Begun
  <2>4. DOMAIN chan' = Party \X Party
    BY <1>4 DEF Going, ChannelsOK
  <2> QED BY <1>1, <1>4, <1>5, <2>1, <2>2, <2>3, <2>4 DEF ChannelStep, Posting
<1>8. SharesFollow(h)' /\ SentFollows(h)' /\ Revealed'
  <2>1. p \notin waiting' /\ r.op # "reveal" /\ waiting' \subseteq Party
    BY <1>4, <1>5 DEF Local, IInv, ProgramOK
  <2>2. /\ DOMAIN share' = Party /\ DOMAIN mine' = Party /\ DOMAIN out' = Party
        /\ \A q \in Party \ {p} : share'[q] = share[q]
    BY <1>4 DEF Going, SharesFollow, SentFollows, Revealed
  <2>3. FollowStep(h, p, k)
    BY <1>4, <1>5, <1>6, <2>1, <2>2 DEF FollowStep
  <2> QED BY <2>3, StepFollows DEF IInv, Going
<1> QED BY <1>7, <1>8, StepKeepsChannels DEF IInv, Going

LEMMA BeginGoes ==
    ASSUME IInv, NEW h, Going(h), NEW p \in Party, Begin(p)
    PROVE  ChannelsOK(h)' /\ SharesFollow(h)' /\ SentFollows(h)' /\ Revealed'
<1>1. PICK k : k = at[p] + 1
  OBVIOUS
<1>2. PICK r \in Rounds : r = Round(p)
  BY RoundOfParty, LengthType DEF Begin, IInv
<1>3. PICK s : s = h[at[p]].share
  OBVIOUS
<1>4. PICK m : m = Sent(share[p], p, r, gen[p])
  OBVIOUS
<1>5. /\ Ready(p) /\ r.op \notin Local \cup {"reveal"} /\ mine' = [mine EXCEPT ![p] = m]
      /\ chan' = Post(chan, p, PREV(p), m) /\ waiting' = waiting \cup {p}
      /\ UNCHANGED <<script, plain, at, share, out>>
  BY <1>2, <1>4 DEF Begin
<1>6. /\ k \in 1..Len(script) /\ k \in Nat /\ r = script[k] /\ share[p] = s[p] /\ k - 1 = at[p]
      /\ gen[p] = h[at[p]].gen /\ Begun(p) = at[p] /\ at[p] \in Nat /\ p \notin waiting
  BY <1>1, <1>2, <1>3, <1>5, InRound DEF IInv, Going, Ready
<1>7. m = Sent(s[p], p, r, h[at[p]].gen)
  BY <1>4, <1>6
<1>8. m = Datum(h, r, k, p)
  BY <1>3, <1>5, <1>6, <1>7 DEF Datum
<1>9. ChannelStep(h, p, k)
  <2>1. \A q \in Party : Posting(r, k, p, q, at[p], Begun(p), at[p]) <=> q = PREV(p)
    BY <1>5, <1>6 DEF Posts, Posting, Reach
  <2>2. at'[p] = at[p] /\ at'[p] # k /\ \A q \in Party : at'[q] = at[q]
    BY <1>5, <1>6
  <2>3. Begun(p)' = k /\ \A q \in Party \ {p} : Begun(q)' = Begun(q)
    BY <1>1, <1>5 DEF Begun
  <2>4. DOMAIN chan' = Party \X Party /\ PREV(p) \in Party /\ PREV(p) # p
        /\ chan'[<<p, PREV(p)>>] = Append(chan[<<p, PREV(p)>>], m)
        /\ \A q, t \in Party : <<q, t>> # <<p, PREV(p)>> => chan'[<<q, t>>] = chan[<<q, t>>]
    <3>1. PREV(p) \in Party /\ PREV(p) # p
      BY DEF PREV, Party
    <3> QED BY <1>5, <3>1 DEF Going, ChannelsOK, Post
  <2>5. \A q \in Party \ {p} :
          /\ chan'[<<p, q>>] = IF Posting(script[k], k, p, q, at[p], Begun(p), at'[p])
                               THEN Append(chan[<<p, q>>], Datum(h, script[k], k, p))
                               ELSE chan[<<p, q>>]
          /\ chan'[<<q, p>>] = chan[<<q, p>>]
          /\ \A t \in Party \ {p} : chan'[<<q, t>>] = chan[<<q, t>>]
    <3> TAKE q \in Party \ {p}
    <3>1. CASE q = PREV(p)
      BY <1>6, <1>8, <2>1, <2>2, <2>4, <3>1
    <3>2. CASE q # PREV(p)
      BY <1>6, <2>1, <2>2, <2>4, <3>2
    <3>3. chan'[<<q, p>>] = chan[<<q, p>>] /\ \A t \in Party \ {p} : chan'[<<q, t>>] = chan[<<q, t>>]
      BY <2>4
    <3> QED BY <3>1, <3>2, <3>3
  <2>6. chan'[<<p, p>>] = chan[<<p, p>>]
    BY <2>4
  <2> QED BY <1>1, <1>5, <1>6, <2>2, <2>3, <2>4, <2>5, <2>6 DEF ChannelStep
<1>10. SharesFollow(h)' /\ SentFollows(h)' /\ Revealed'
  <2>1. p \in waiting' /\ waiting' \subseteq Party /\ at' = [at EXCEPT ![p] = at[p]]
    BY <1>5 DEF IInv, ProgramOK
  <2>2. /\ DOMAIN share' = Party /\ DOMAIN mine' = Party /\ DOMAIN out' = Party
        /\ \A q \in Party \ {p} : mine'[q] = mine[q] /\ mine'[p] = m
    BY <1>5 DEF Going, SharesFollow, SentFollows, Revealed
  <2>3. \A q \in Party \ {p} : q \in waiting' <=> q \in waiting
    BY <1>5
  <2>4. PICK x : x = at[p] /\ x + 1 = k
    BY <1>1
  <2>5. share'[p] = h[x].share[p] /\ mine'[p] = Sent(h[x].share[p], p, script[x + 1], h[x].gen)
    BY <1>3, <1>5, <1>6, <1>7, <2>2, <2>4
  <2>6. FollowStep(h, p, x)
    BY <1>5, <1>6, <2>1, <2>2, <2>3, <2>4, <2>5 DEF FollowStep
  <2> QED BY <2>6, StepFollows DEF IInv, Going
<1> QED BY <1>9, <1>10, StepKeepsChannels DEF IInv, Going

\* What a party finds is what the round it is in posts.
LEMMA HeadIsDatum ==
    ASSUME IInv, NEW h, Going(h), NEW p \in Party, NEW q \in Party, NEW k \in 1..Len(script),
           k = at[p] + 1, Posts(script[k], q, p), chan[<<q, p>>] # <<>>
    PROVE  Head(chan[<<q, p>>]) = Datum(h, script[k], k, q)
<1>1. PICK n \in Nat : n = Len(script)
  BY DEF IInv, ProgramOK, IsProgram
<1>2. PICK a \in Nat, b \in Nat, d \in Nat : a = at[q] /\ b = Begun(q) /\ d = at[p] /\ b \in {a, a + 1}
  BY DEF IInv, ProgramOK, Begun
<1>3. PICK Q : Q = chan[<<q, p>>]
  OBVIOUS
<1>4. Channel(Q, script, h, q, p, a, b, d)
  BY <1>2, <1>3 DEF Going, ChannelsOK
<1>5. PICK sc : sc = script
  OBVIOUS
<1>6. n = Len(sc) /\ k \in 1..n /\ k = d + 1 /\ b \in {a, a + 1}
  BY <1>1, <1>2, <1>5
<1>7. Posts(sc[k], q, p) /\ Q # <<>> /\ Channel(Q, sc, h, q, p, a, b, d)
  BY <1>3, <1>4, <1>5
<1>8. Head(Q) = Datum(h, sc[k], k, q) /\ Channel(Tail(Q), sc, h, q, p, a, b, k)
  BY <1>6, <1>7, ChannelTake
<1> QED BY <1>3, <1>5, <1>8

LEMMA FinishGoes ==
    ASSUME IInv, NEW h, Going(h), NEW p \in Party, Finish(p)
    PROVE  ChannelsOK(h)' /\ SharesFollow(h)' /\ SentFollows(h)' /\ Revealed'
<1>1. PICK k : k = at[p] + 1
  OBVIOUS
<1>2. PICK r \in Rounds : r = Round(p)
  BY RoundOfParty, LengthType DEF Finish, IInv
<1>3. PICK s : s = h[at[p]].share
  OBVIOUS
<1>4. PICK g : g = h[at[p]].gen
  OBVIOUS
<1>5. PICK q \in Party : q = NEXT(p) /\ q # p /\ p = PREV(q) /\ \A t \in Party : p = PREV(t) => t = q
  BY DEF NEXT, PREV, Party
<1>6. PICK got : got = Head(chan[<<q, p>>])
  OBVIOUS
<1>7. /\ p \in waiting /\ r.op # "reveal" /\ chan[<<q, p>>] # <<>>
      /\ share' = [share EXCEPT ![p][r.o] = KeepOf(share[p], p, r, mine[p], got)]
      /\ chan' = Taken(chan, p, q) /\ at' = [at EXCEPT ![p] = k] /\ waiting' = waiting \ {p}
      /\ UNCHANGED <<script, plain, gen, spent, mine, out>>
  BY <1>1, <1>2, <1>5, <1>6 DEF Finish, Arrived, EndRound
<1>8. /\ k \in 1..Len(script) /\ k \in Nat /\ r = script[k] /\ share[p] = s[p] /\ k - 1 = at[p]
      /\ h[k].share = After(s, r, g) /\ Begun(p) = k /\ at[p] \in Nat
  BY <1>1, <1>2, <1>3, <1>4, <1>7, InRound DEF IInv, Going
<1>9. r.op \notin Local
  BY <1>2, <1>7 DEF Going, SentFollows
<1>10. \A t \in Party : Posts(r, t, p) <=> t = q
  BY <1>5, <1>7, <1>9 DEF Posts
<1>11. got = Sent(s[q], q, r, g)
  <2>1. got = Datum(h, r, k, q)
    BY <1>1, <1>6, <1>7, <1>8, <1>10, HeadIsDatum
  <2> QED BY <1>3, <1>4, <1>7, <1>8, <2>1 DEF Datum
<1>12. mine[p] = Sent(s[p], p, r, g)
  BY <1>2, <1>3, <1>4, <1>7 DEF Going, SentFollows
<1>13. share'[p] = h[k].share[p]
  <2>1. PICK x : x = KeepOf(s[p], p, r, Sent(s[p], p, r, g), Sent(s[q], q, r, g))
    OBVIOUS
  <2>2. h[k].share[p] = [s[p] EXCEPT ![r.o] = x]
    BY <1>5, <1>7, <1>8, <1>9, <2>1 DEF After
  <2>3. share' = [share EXCEPT ![p][r.o] = x]
    BY <1>7, <1>8, <1>11, <1>12, <2>1
  <2>4. share'[p] = [share[p] EXCEPT ![r.o] = x]
    BY <2>3 DEF Going, SharesFollow
  <2> QED BY <1>8, <2>2, <2>4
<1>14. at'[p] = k /\ \A t \in Party \ {p} : at'[t] = at[t]
  BY <1>7 DEF IInv, ProgramOK
<1>15. ChannelStep(h, p, k)
  <2>1. \A t \in Party : ~Posting(r, k, p, t, at[p], Begun(p), at'[p])
    BY <1>7, <1>8 DEF Posting, Reach
  <2>2. Begun(p)' = k /\ \A t \in Party \ {p} : Begun(t)' = Begun(t)
    BY <1>7, <1>8, <1>14 DEF Begun
  <2>3. DOMAIN chan' = Party \X Party
        /\ chan'[<<q, p>>] = Tail(chan[<<q, p>>])
        /\ \A x, t \in Party : <<x, t>> # <<q, p>> => chan'[<<x, t>>] = chan[<<x, t>>]
    BY <1>7 DEF Going, ChannelsOK, Taken
  <2>4. \A t \in Party \ {p} :
          /\ chan'[<<p, t>>] = chan[<<p, t>>]
          /\ IF Posts(r, t, p)
             THEN chan[<<t, p>>] # <<>> /\ chan'[<<t, p>>] = Tail(chan[<<t, p>>])
             ELSE chan'[<<t, p>>] = chan[<<t, p>>]
          /\ \A x \in Party \ {p} : chan'[<<t, x>>] = chan[<<t, x>>]
    <3> TAKE t \in Party \ {p}
    <3>1. CASE t = q
      BY <1>7, <1>10, <2>3, <3>1
    <3>2. CASE t # q
      BY <1>10, <2>3, <3>2
    <3> QED BY <3>1, <3>2
  <2>5. chan'[<<p, p>>] = chan[<<p, p>>]
    BY <1>5, <2>3
  <2> QED BY <1>1, <1>7, <1>8, <1>14, <2>1, <2>2, <2>3, <2>4, <2>5 DEF ChannelStep
<1>16. SharesFollow(h)' /\ SentFollows(h)' /\ Revealed'
  <2>1. p \notin waiting' /\ waiting' \subseteq Party
    BY <1>7 DEF IInv, ProgramOK
  <2>2. /\ DOMAIN share' = Party /\ DOMAIN mine' = Party /\ DOMAIN out' = Party
        /\ \A t \in Party \ {p} : share'[t] = share[t]
    BY <1>7 DEF Going, SharesFollow, SentFollows, Revealed
  <2>3. \A t \in Party \ {p} : t \in waiting' <=> t \in waiting
    BY <1>7
  <2>4. FollowStep(h, p, k)
    BY <1>7, <1>8, <1>13, <2>1, <2>2, <2>3 DEF FollowStep
  <2> QED BY <2>4, StepFollows DEF IInv, Going
<1> QED BY <1>15, <1>16, StepKeepsChannels DEF IInv, Going

\* Good shares open to the value.
LEMMA GoodSharesOpen ==
    ASSUME NEW s, NEW env, IsEnv(env), GoodShares(s, env), NEW w \in Wire
    PROVE  /\ Mod([i \in 1..Size[w] |-> s[0][w].this[i] + s[1][w].this[i] + s[2][w].this[i]], Width[w])
              = env[w]
           /\ Opened(s[0], w, Lacking(s[1], w)) = env[w]
           /\ \A p \in Party : s[p][w].nxt = s[NEXT(p)][w].this
<1>1. PICK m \in Nat \ {0} : m = M(w) /\ m = 2^Width[w]
  BY Modulus DEF M
<1>2. PICK n \in Nat : n = Size[w]
  BY Modulus
<1>3. Replicated(s, w) /\ \A i \in 1..n : Cong(SumOf(s, w, i), env[w][i], m)
  BY <1>1, <1>2 DEF GoodShares, GoodWire
<1>4. ASSUME NEW i \in 1..n
      PROVE  /\ SumOf(s, w, i) % m = env[w][i]
             /\ s[0][w].this[i] + s[0][w].nxt[i] + s[1][w].nxt[i] = SumOf(s, w, i)
  <2>1. PICK x0 \in Int, x1 \in Int, x2 \in Int :
            /\ x0 = s[0][w].this[i] /\ x1 = s[1][w].this[i] /\ x2 = s[2][w].this[i]
            /\ s[0][w].nxt[i] = x1 /\ s[1][w].nxt[i] = x2
    BY <1>2, <1>3, ElementType
  <2>2. PICK x \in Int : x = x0 + x1 + x2
    OBVIOUS
  <2>3. SumOf(s, w, i) = x /\ s[0][w].this[i] + s[0][w].nxt[i] + s[1][w].nxt[i] = x
    BY <2>1, <2>2 DEF SumOf
  <2>4. PICK e \in Int : e = env[w][i] /\ e \in 0..(m - 1)
    BY <1>1, <1>2, EnvType
  <2>5. Cong(x, e, m)
    BY <1>3, <2>3, <2>4
  <2>6. x % m = e
    BY <2>4, <2>5, ModOfCong
  <2> QED BY <2>3, <2>4, <2>6
<1>5. env[w] \in [1..n -> Ring(w)]
  BY <1>2 DEF IsEnv, Vector
<1>6. Mod([i \in 1..n |-> s[0][w].this[i] + s[1][w].this[i] + s[2][w].this[i]], Width[w]) = env[w]
  <2> DEFINE f == [i \in 1..n |-> s[0][w].this[i] + s[1][w].this[i] + s[2][w].this[i]]
  <2>1. DOMAIN f = 1..n /\ \A i \in 1..n : f[i] = SumOf(s, w, i)
    BY DEF SumOf
  <2> HIDE DEF f
  <2>2. Mod(f, Width[w]) = [i \in 1..n |-> f[i] % m]
    BY <1>1, <2>1 DEF Mod
  <2>3. \A i \in 1..n : f[i] % m = env[w][i]
    BY <1>4, <2>1
  <2>4. Mod(f, Width[w]) = env[w]
    BY <1>5, <2>2, <2>3
  <2> QED BY <2>4 DEF f
<1>7. Opened(s[0], w, Lacking(s[1], w)) = env[w]
  <2> DEFINE f == [i \in 1..n |-> s[0][w].this[i] + s[0][w].nxt[i] + s[1][w].nxt[i]]
  <2>1. DOMAIN f = 1..n /\ \A i \in 1..n : f[i] = SumOf(s, w, i)
    BY <1>4
  <2>2. Opened(s[0], w, Lacking(s[1], w)) = Mod(f, Width[w])
    BY <1>2 DEF Opened, Lacking
  <2> HIDE DEF f
  <2>3. Mod(f, Width[w]) = [i \in 1..n |-> f[i] % m]
    BY <1>1, <2>1 DEF Mod
  <2>4. \A i \in 1..n : f[i] % m = env[w][i]
    BY <1>4, <2>1
  <2> QED BY <1>5, <2>2, <2>3, <2>4
<1> QED BY <1>2, <1>3, <1>6, <1>7 DEF Replicated

\* What is revealed in a round is what the wire meant before it.
LEMMA RevealedIsPlain ==
    ASSUME IInv, NEW h, Going(h), NEW k \in 1..Len(script), script[k].op = "reveal"
    PROVE  Opened(h[k - 1].share[0], script[k].a, Lacking(h[k - 1].share[1], script[k].a))
           = plain[k][script[k].a]
<1>1. IsProgram(script, plain)
  BY DEF IInv, ProgramOK
<1>2. script[k] \in Rounds /\ IsEnv(plain[k]) /\ Len(script) \in Nat
  BY <1>1, RoundAt
<1>3. script[k].a \in Wire
  BY <1>2 DEF Rounds
<1>4. PICK j \in 0..Len(script) : j = k - 1 /\ j + 1 = k
  BY <1>2
<1>5. GoodAt(h[j].share, j, script, plain)
  BY <1>4 DEF Going, IsHistory
<1>6. ~(j > 0 /\ script[j].op = "conv1")
  <2> SUFFICES ASSUME j > 0, script[j].op = "conv1" PROVE FALSE
    OBVIOUS
  <2>1. k > 1 /\ j \in 1..Len(script)
    BY <1>2, <1>4
  <2>2. script[k] = [script[j] EXCEPT !.op = "conv2"]
    BY <1>1, <1>4, <2>1, ConvAt
  <2>3. script[j] \in Rounds
    BY <1>1, <2>1, RoundAt
  <2>4. script[k].op = "conv2"
    BY <2>2, <2>3 DEF Rounds
  <2> QED BY <2>4
<1>7. GoodShares(h[j].share, plain[k])
  BY <1>4, <1>5, <1>6 DEF GoodAt
<1>8. Opened(h[j].share[0], script[k].a, Lacking(h[j].share[1], script[k].a)) = plain[k][script[k].a]
  BY <1>2, <1>3, <1>7, GoodSharesOpen
<1> QED BY <1>4, <1>8

LEMMA BeginRevealGoes ==
    ASSUME IInv, NEW h, Going(h), NEW p \in Party, BeginReveal(p)
    PROVE  ChannelsOK(h)' /\ SharesFollow(h)' /\ SentFollows(h)' /\ Revealed'
<1>1. PICK k : k = at[p] + 1
  OBVIOUS
<1>2. PICK r \in Rounds : r = Round(p)
  BY RoundOfParty, LengthType DEF BeginReveal, IInv
<1>3. PICK s : s = h[at[p]].share
  OBVIOUS
<1>4. PICK m : m = Lacking(share[1], r.a)
  OBVIOUS
<1>5. /\ Ready(p) /\ r.op = "reveal" /\ waiting' = waiting \cup {p}
      /\ chan' = (IF p = 1 THEN Post(chan, 1, 0, m) ELSE chan)
      /\ UNCHANGED <<script, plain, at, mine, share, out, gen, spent>>
  BY <1>2, <1>4 DEF BeginReveal
<1>6. /\ k \in 1..Len(script) /\ k \in Nat /\ r = script[k] /\ share[p] = s[p] /\ k - 1 = at[p]
      /\ Begun(p) = at[p] /\ at[p] \in Nat /\ p \notin waiting
  BY <1>1, <1>2, <1>3, <1>5, InRound DEF IInv, Going, Ready
<1>7. p = 1 => m = Datum(h, r, k, p)
  BY <1>3, <1>4, <1>5, <1>6 DEF Datum, Lacking
<1>8. at'[p] = at[p] /\ at'[p] # k /\ \A q \in Party : at'[q] = at[q]
  BY <1>5, <1>6
<1>9. ChannelStep(h, p, k)
  <2>1. 0 \in Party /\ 1 \in Party /\ 2 \in Party
    BY DEF Party
  <2>2. \A q \in Party \ {p} : Posting(r, k, p, q, at[p], Begun(p), at[p]) <=> p = 1 /\ q = 0
    BY <1>5, <1>6 DEF Posts, Posting, Reach, Party
  <2>3. Begun(p)' = k /\ \A q \in Party \ {p} : Begun(q)' = Begun(q)
    BY <1>1, <1>5 DEF Begun
  <2>4. DOMAIN chan' = Party \X Party
        /\ (p = 1 => chan'[<<1, 0>>] = Append(chan[<<1, 0>>], m))
        /\ \A q, t \in Party : ~(p = 1 /\ q = 1 /\ t = 0) => chan'[<<q, t>>] = chan[<<q, t>>]
    <3>1. DOMAIN chan = Party \X Party
      BY DEF Going, ChannelsOK
    <3>2. CASE p = 1
      BY <1>5, <2>1, <3>1, <3>2 DEF Post
    <3>3. CASE p # 1
      BY <1>5, <3>1, <3>3
    <3> QED BY <3>2, <3>3
  <2>5. \A q \in Party \ {p} :
          /\ chan'[<<p, q>>] = IF Posting(script[k], k, p, q, at[p], Begun(p), at'[p])
                               THEN Append(chan[<<p, q>>], Datum(h, script[k], k, p))
                               ELSE chan[<<p, q>>]
          /\ chan'[<<q, p>>] = chan[<<q, p>>]
          /\ \A t \in Party \ {p} : chan'[<<q, t>>] = chan[<<q, t>>]
    <3> TAKE q \in Party \ {p}
    <3>1. CASE p = 1 /\ q = 0
      BY <1>6, <1>7, <1>8, <2>2, <2>4, <3>1
    <3>2. CASE ~(p = 1 /\ q = 0)
      BY <1>6, <1>8, <2>2, <2>4, <3>2
    <3>3. chan'[<<q, p>>] = chan[<<q, p>>] /\ \A t \in Party \ {p} : chan'[<<q, t>>] = chan[<<q, t>>]
      BY <2>4
    <3> QED BY <3>1, <3>2, <3>3
  <2>6. chan'[<<p, p>>] = chan[<<p, p>>]
    BY <2>4
  <2> QED BY <1>1, <1>5, <1>6, <1>8, <2>3, <2>4, <2>5, <2>6 DEF ChannelStep
<1>10. SharesFollow(h)' /\ SentFollows(h)' /\ Revealed'
  <2>1. p \in waiting' /\ waiting' \subseteq Party /\ at' = [at EXCEPT ![p] = at[p]]
    BY <1>5 DEF IInv, ProgramOK
  <2>2. DOMAIN share' = Party /\ DOMAIN mine' = Party /\ DOMAIN out' = Party
    BY <1>5 DEF Going, SharesFollow, SentFollows, Revealed
  <2>3. \A q \in Party \ {p} : q \in waiting' <=> q \in waiting
    BY <1>5
  <2>4. PICK x : x = at[p] /\ x + 1 = k
    BY <1>1
  <2>5. share'[p] = h[x].share[p] /\ script[x + 1].op = "reveal" /\ script[x + 1].op \notin Local
    BY <1>3, <1>5, <1>6, <2>4 DEF Local
  <2>6. FollowStep(h, p, x)
    BY <1>5, <2>1, <2>2, <2>3, <2>4, <2>5 DEF FollowStep
  <2> QED BY <2>6, StepFollows DEF IInv, Going
<1> QED BY <1>9, <1>10, StepKeepsChannels DEF IInv, Going

LEMMA FinishRevealGoes ==
    ASSUME IInv, NEW h, Going(h), NEW p \in Party, FinishReveal(p)
    PROVE  ChannelsOK(h)' /\ SharesFollow(h)' /\ SentFollows(h)' /\ Revealed'
<1>0. 0 \in Party /\ 1 \in Party /\ 2 \in Party
  BY DEF Party
<1>1. PICK k : k = at[p] + 1
  OBVIOUS
<1>2. PICK r \in Rounds : r = Round(p)
  BY RoundOfParty, LengthType DEF FinishReveal, IInv
<1>3. PICK s : s = h[at[p]].share
  OBVIOUS
<1>4. PICK q \in Party : q = (IF p = 0 THEN 1 ELSE 0) /\ q # p
  BY <1>0
<1>5. PICK got : got = Head(chan[<<q, p>>])
  OBVIOUS
<1>6. PICK result : result = IF p = 0 THEN Opened(share[0], r.a, got) ELSE got
  OBVIOUS
<1>7. PICK rest : rest = Taken(chan, p, q)
  OBVIOUS
<1>8. /\ p \in waiting /\ r.op = "reveal" /\ chan[<<q, p>>] # <<>>
      /\ out' = [out EXCEPT ![p] = result]
      /\ chan' = (IF p = 0 THEN Post(Post(rest, 0, 1, result), 0, 2, result) ELSE rest)
      /\ at' = [at EXCEPT ![p] = k] /\ waiting' = waiting \ {p}
      /\ UNCHANGED <<script, plain, gen, spent, mine, share>>
  BY <1>1, <1>2, <1>4, <1>5, <1>6, <1>7 DEF FinishReveal, Arrived, EndRound
<1>9. /\ k \in 1..Len(script) /\ k \in Nat /\ r = script[k] /\ share[p] = s[p] /\ k - 1 = at[p]
      /\ h[k].share = After(s, r, h[at[p]].gen) /\ Begun(p) = k /\ at[p] \in Nat
  BY <1>1, <1>2, <1>3, <1>8, InRound DEF IInv, Going
<1>10. \A t \in Party : Posts(r, t, p) <=> t = q
  BY <1>4, <1>8 DEF Posts, Party
<1>11. got = Datum(h, r, k, q)
  BY <1>1, <1>5, <1>8, <1>9, <1>10, HeadIsDatum
<1>12. result = Opened(s[0], r.a, Lacking(s[1], r.a)) /\ result = Datum(h, r, k, 0)
  <2>1. Datum(h, r, k, 0) = Opened(s[0], r.a, Lacking(s[1], r.a))
        /\ Datum(h, r, k, 1) = Lacking(s[1], r.a)
    BY <1>3, <1>8, <1>9 DEF Datum
  <2>2. CASE p = 0
    BY <1>4, <1>6, <1>9, <1>11, <2>1, <2>2
  <2>3. CASE p # 0
    BY <1>4, <1>6, <1>11, <2>1, <2>3
  <2> QED BY <2>2, <2>3
<1>13. result = plain[k][r.a]
  <2>1. Opened(h[k - 1].share[0], r.a, Lacking(h[k - 1].share[1], r.a)) = plain[k][r.a]
    BY <1>8, <1>9, RevealedIsPlain
  <2> QED BY <1>3, <1>9, <1>12, <2>1
<1>14. at'[p] = k /\ \A t \in Party \ {p} : at'[t] = at[t]
  BY <1>8 DEF IInv, ProgramOK
<1>15. ChannelStep(h, p, k)
  <2>1. \A t \in Party \ {p} : Posting(r, k, p, t, at[p], Begun(p), at'[p]) <=> p = 0
    BY <1>8, <1>9, <1>14 DEF Posting, Reach, Posts, Party
  <2>2. Begun(p)' = k /\ \A t \in Party \ {p} : Begun(t)' = Begun(t)
    BY <1>8, <1>9, <1>14 DEF Begun
  <2>3. DOMAIN rest = Party \X Party
        /\ rest[<<q, p>>] = Tail(chan[<<q, p>>])
        /\ \A x, t \in Party : <<x, t>> # <<q, p>> => rest[<<x, t>>] = chan[<<x, t>>]
    BY <1>7 DEF Going, ChannelsOK, Taken
  <2>4. /\ DOMAIN chan' = Party \X Party
        /\ chan'[<<q, p>>] = Tail(chan[<<q, p>>])
        /\ \A t \in Party \ {p} :
              chan'[<<p, t>>] = IF p = 0 THEN Append(chan[<<p, t>>], result) ELSE chan[<<p, t>>]
        /\ \A x, t \in Party : x # p /\ <<x, t>> # <<q, p>> => chan'[<<x, t>>] = chan[<<x, t>>]
        /\ chan'[<<p, p>>] = chan[<<p, p>>]
    <3>1. CASE p # 0
      BY <1>4, <1>8, <2>3, <3>1
    <3>2. CASE p = 0
      <4>1. q = 1 /\ chan' = Post(Post(rest, 0, 1, result), 0, 2, result)
        BY <1>4, <1>8, <3>2
      <4>2. PICK c1 : c1 = Post(rest, 0, 1, result)
        OBVIOUS
      <4>3. DOMAIN c1 = Party \X Party /\ c1[<<0, 1>>] = Append(rest[<<0, 1>>], result)
            /\ \A x, t \in Party : <<x, t>> # <<0, 1>> => c1[<<x, t>>] = rest[<<x, t>>]
        BY <1>0, <2>3, <4>2 DEF Post
      <4>4. DOMAIN chan' = Party \X Party /\ chan'[<<0, 2>>] = Append(c1[<<0, 2>>], result)
            /\ \A x, t \in Party : <<x, t>> # <<0, 2>> => chan'[<<x, t>>] = c1[<<x, t>>]
        BY <1>0, <4>1, <4>2, <4>3 DEF Post
      <4>5. /\ rest[<<0, 1>>] = chan[<<0, 1>>] /\ rest[<<0, 2>>] = chan[<<0, 2>>]
            /\ rest[<<0, 0>>] = chan[<<0, 0>>] /\ rest[<<1, 0>>] = Tail(chan[<<1, 0>>])
        BY <1>0, <2>3, <3>2, <4>1
      <4>6. chan'[<<0, 1>>] = Append(chan[<<0, 1>>], result)
        BY <1>0, <4>3, <4>4, <4>5
      <4>7. chan'[<<0, 2>>] = Append(chan[<<0, 2>>], result)
        BY <1>0, <4>3, <4>4, <4>5
      <4>8. chan'[<<0, 0>>] = chan[<<0, 0>>] /\ chan'[<<1, 0>>] = Tail(chan[<<1, 0>>])
        BY <1>0, <4>3, <4>4, <4>5
      <4>9. \A x, t \in Party : x # 0 /\ <<x, t>> # <<1, 0>> => chan'[<<x, t>>] = chan[<<x, t>>]
        BY <2>3, <3>2, <4>1, <4>3, <4>4
      <4>10. \A t \in Party \ {p} : t = 1 \/ t = 2
        BY <3>2 DEF Party
      <4> QED BY <3>2, <4>1, <4>4, <4>6, <4>7, <4>8, <4>9, <4>10
    <3> QED BY <3>1, <3>2
  <2>5. \A t \in Party \ {p} :
          /\ chan'[<<p, t>>] = IF Posting(r, k, p, t, at[p], Begun(p), at'[p])
                               THEN Append(chan[<<p, t>>], Datum(h, r, k, p))
                               ELSE chan[<<p, t>>]
          /\ IF Posts(r, t, p)
             THEN chan[<<t, p>>] # <<>> /\ chan'[<<t, p>>] = Tail(chan[<<t, p>>])
             ELSE chan'[<<t, p>>] = chan[<<t, p>>]
          /\ \A x \in Party \ {p} : chan'[<<t, x>>] = chan[<<t, x>>]
    <3> TAKE t \in Party \ {p}
    <3>1. chan'[<<p, t>>] = IF Posting(r, k, p, t, at[p], Begun(p), at'[p])
                            THEN Append(chan[<<p, t>>], Datum(h, r, k, p)) ELSE chan[<<p, t>>]
      <4>1. CASE p = 0
        BY <1>12, <2>1, <2>4, <4>1
      <4>2. CASE p # 0
        BY <2>1, <2>4, <4>2
      <4> QED BY <4>1, <4>2
    <3>2. CASE t = q
      BY <1>8, <1>10, <2>4, <3>1, <3>2
    <3>3. CASE t # q
      BY <1>10, <2>4, <3>1, <3>3
    <3> QED BY <3>2, <3>3
  <2> QED BY <1>1, <1>8, <1>9, <1>14, <2>2, <2>4, <2>5 DEF ChannelStep
<1>16. SharesFollow(h)' /\ SentFollows(h)' /\ Revealed'
  <2>1. p \notin waiting' /\ waiting' \subseteq Party
    BY <1>8 DEF IInv, ProgramOK
  <2>2. /\ DOMAIN share' = Party /\ DOMAIN mine' = Party /\ DOMAIN out' = Party
        /\ out'[p] = result /\ \A t \in Party \ {p} : out'[t] = out[t]
    BY <1>8 DEF Going, SharesFollow, SentFollows, Revealed
  <2>3. \A t \in Party \ {p} : t \in waiting' <=> t \in waiting
    BY <1>8
  <2>4. share'[p] = h[k].share[p]
    BY <1>8, <1>9 DEF After
  <2>5. FollowStep(h, p, k)
    BY <1>8, <1>9, <1>13, <2>1, <2>2, <2>3, <2>4 DEF FollowStep
  <2> QED BY <2>5, StepFollows DEF IInv, Going
<1> QED BY <1>15, <1>16, StepKeepsChannels DEF IInv, Going

\* The program grows: so does the history, and nothing that was there changes.
LEMMA ExtendGoes ==
    ASSUME IInv, IInv', NEW h, Going(h), Extend
    PROVE  \E f : Going(f)'
<1>1. PICK call \in Calls : Choose(call)
  BY DEF Extend
<1>2. UNCHANGED <<at, waiting, mine, share, out, gen, spent, chan>>
  BY DEF Extend
<1>3. PICK n \in Nat : n = Len(script)
  BY <1>1, ChosenParts DEF IInv
<1>4. PICK c \in 1..2 : c = Len(call)
  BY CallType
<1>5. /\ Len(script') = n + c
      /\ \A k \in 1..n : script'[k] = script[k]
      /\ \A k \in 1..(n + 1) : plain'[k] = plain[k]
  BY <1>1, <1>3, <1>4, ChosenParts DEF IInv
<1>6. PICK sc : sc = script'
  OBVIOUS
<1>7. PICK pl : pl = plain'
  OBVIOUS
<1>8. IsProgram(sc, pl) /\ Len(sc) = n + c
  BY <1>5, <1>6, <1>7 DEF IInv, ProgramOK
<1>9. IsHistory(h, n, sc, pl)
  <2>1. \A k \in 1..n : h[k] = AfterRound(h[k - 1], sc[k])
    BY <1>3, <1>5, <1>6 DEF Going, IsHistory
  <2>2. ASSUME NEW k \in 0..n PROVE GoodAt(h[k].share, k, sc, pl)
    <3>1. GoodAt(h[k].share, k, script, plain)
      BY <1>3 DEF Going, IsHistory
    <3>2. k + 1 \in 1..(n + 1) /\ (k > 0 => k \in 1..n)
      OBVIOUS
    <3>3. pl[k + 1] = plain[k + 1] /\ (k > 0 => sc[k] = script[k])
      BY <1>5, <1>6, <1>7, <3>2
    <3>4. CASE k > 0
      BY <3>1, <3>3, <3>4 DEF GoodAt
    <3>5. CASE ~(k > 0)
      BY <3>1, <3>3, <3>5 DEF GoodAt
    <3> QED BY <3>4, <3>5
  <2>3. h[0].gen = FreshGenerator /\ h[0].spent = {}
    BY DEF Going, IsHistory
  <2> QED BY <2>1, <2>2, <2>3 DEF IsHistory
<1>10. \E f : IsHistory(f, n + c, sc, pl) /\ \A k \in 0..n : f[k] = h[k]
  <2>1. PICK f : IsHistory(f, n + 1, sc, pl) /\ \A k \in 0..n : f[k] = h[k]
    BY <1>8, <1>9, GrowHistory
  <2>2. CASE c = 1
    BY <2>1, <2>2
  <2>3. CASE c = 2
    <3>1. PICK n1 \in Nat : n1 = n + 1 /\ n1 + 1 = n + c /\ n1 + 1 <= Len(sc)
      BY <1>8, <2>3
    <3>2. PICK f2 : IsHistory(f2, n1 + 1, sc, pl) /\ \A k \in 0..n1 : f2[k] = f[k]
      BY <1>8, <2>1, <3>1, GrowHistory
    <3>3. \A k \in 0..n : k \in 0..n1
      BY <3>1
    <3> QED BY <2>1, <3>1, <3>2, <3>3
  <2> QED BY <2>2, <2>3
<1>11. PICK f : IsHistory(f, n + c, sc, pl) /\ \A k \in 0..n : f[k] = h[k]
  BY <1>10
<1>12. \A p \in Party : /\ at[p] \in 0..n /\ Begun(p) \in 0..n /\ Begun(p)' = Begun(p)
                        /\ p \in waiting => at[p] + 1 \in 1..n
  BY <1>2, <1>3 DEF IInv, ProgramOK, Begun
<1>13. GensFollow(f)'
  BY <1>2, <1>11, <1>12 DEF Going, GensFollow
<1>14. SharesFollow(f)'
  BY <1>2, <1>11, <1>12 DEF Going, SharesFollow
<1>15. SentFollows(f)'
  <2>1. \A p \in waiting : p \in Party /\ Round(p)' = Round(p) /\ f[at[p]] = h[at[p]]
    BY <1>2, <1>5, <1>11, <1>12 DEF Round, IInv, ProgramOK
  <2> QED BY <1>2, <2>1 DEF Going, SentFollows
<1>16. Revealed'
  <2>1. ASSUME NEW p \in Party, p \notin waiting', at'[p] > 0, script'[at'[p]].op = "reveal"
        PROVE  out'[p] = plain'[at'[p]][script'[at'[p]].a]
    <3>1. at[p] \in 1..n /\ at[p] \in 1..(n + 1) /\ at' = at
      BY <1>2, <1>12, <2>1
    <3>2. script'[at[p]] = script[at[p]] /\ plain'[at[p]] = plain[at[p]]
      BY <1>5, <3>1
    <3> QED BY <1>2, <2>1, <3>1, <3>2 DEF Going, Revealed, RevealIsPlain
  <2> QED BY <1>2, <2>1 DEF Going, Revealed, RevealIsPlain
<1>17. ChannelsOK(f)'
  <2>1. ASSUME NEW p \in Party, NEW q \in Party
        PROVE  Channel(chan'[<<p, q>>], sc, f, p, q, at'[p], Begun(p)', at'[q])
    <3>1. PICK a \in 0..n, b \in 0..n, d \in 0..n :
              /\ a = at[p] /\ b = Begun(p) /\ d = at[q]
              /\ a = at'[p] /\ b = Begun(p)' /\ d = at'[q]
      BY <1>2, <1>12
    <3>2. PICK Q : Q = chan[<<p, q>>] /\ Q = chan'[<<p, q>>]
      BY <1>2
    <3>3. PICK old : old = script
      OBVIOUS
    <3>4. Channel(Q, old, h, p, q, a, b, d)
      BY <3>1, <3>2, <3>3 DEF Going, ChannelsOK
    <3>5. PICK n2 \in Nat : n2 = Len(sc) /\ n <= n2
      BY <1>8
    <3>6. n = Len(old) /\ \A k \in 1..n : sc[k] = old[k]
      BY <1>3, <1>5, <1>6, <3>3
    <3>7. Channel(Q, sc, f, p, q, a, b, d)
      BY <1>11, <3>4, <3>5, <3>6, ChannelLonger
    <3> QED BY <3>1, <3>2, <3>7
  <2> QED BY <1>2, <1>6, <2>1 DEF Going, ChannelsOK
<1>18. IsHistory(f, Len(script'), script', plain')
  BY <1>5, <1>6, <1>7, <1>11
<1> QED BY <1>13, <1>14, <1>15, <1>16, <1>17, <1>18 DEF Going

HaveHistory == \E h : Going(h)

LEMMA NextHistory == IInv /\ HaveHistory /\ [Next]_vars => HaveHistory'
<1> SUFFICES ASSUME IInv, [Next]_vars, NEW h, Going(h) PROVE \E f : Going(f)'
  BY DEF HaveHistory
<1>1. IInv'
  BY NextIInv
<1>2. CASE Extend
  BY <1>1, <1>2, ExtendGoes
<1>3. CASE UNCHANGED vars
  <2>1. \A p \in Party : Begun(p)' = Begun(p) /\ Round(p)' = Round(p)
    BY <1>3 DEF vars, Begun, Round
  <2>2. waiting \subseteq Party
    BY DEF IInv, ProgramOK
  <2>3. Going(h)'
    BY <1>3, <2>1, <2>2 DEF vars, Going, GensFollow, SharesFollow, SentFollows, ChannelsOK, Revealed, RevealIsPlain
  <2> QED BY <2>3
<1>4. ASSUME NEW p \in Party, DoLocal(p) \/ Begin(p) \/ Finish(p) \/ BeginReveal(p) \/ FinishReveal(p)
      PROVE  Going(h)'
  <2>1. ChannelsOK(h)' /\ SharesFollow(h)' /\ SentFollows(h)' /\ Revealed'
    BY <1>4, DoLocalGoes, BeginGoes, FinishGoes, BeginRevealGoes, FinishRevealGoes
  <2>2. GensFollow(h)'
    BY GeneratorsFollow DEF Going, GensFollow
  <2>3. UNCHANGED <<script, plain>>
    BY <1>4 DEF DoLocal, Begin, Finish, BeginReveal, FinishReveal, EndRound
  <2> QED BY <2>1, <2>2, <2>3 DEF Going
<1> QED BY <1>2, <1>3, <1>4 DEF Next

LEMMA InitHistory == Init => HaveHistory
<1> SUFFICES ASSUME Init PROVE \E h : Going(h)
  BY DEF HaveHistory
<1>1. PICK env \in InitialPlain :
          plain = <<env>> /\ share = [p \in Party |-> [w \in Wire |-> SharesOf(env, w, p)]]
  BY DEF Init
<1>2. IsEnv(env)
  BY ProgramAssumption DEF IsEnv
<1>3. \A p \in Party : NEXT(p) \in Party
  BY DEF NEXT, Party
<1>4. ASSUME NEW w \in Wire PROVE GoodWire(share, env, w)
  <2>1. PICK m \in Nat \ {0} : m = M(w) /\ m = 2^Width[w] /\ Ring(w) = 0..(m - 1)
    BY Modulus DEF M, Ring
  <2>2. PICK n \in Nat : n = Size[w]
    BY Modulus
  <2>3. PICK x0 \in Int, x1 \in Int : x0 = InitialMask[0] /\ x1 = InitialMask[1]
    BY ProgramAssumption
  <2>4. PICK t : t = [q \in Party |-> [i \in 1..n |->
                        (IF q = 2 THEN env[w][i] - x0 - x1 ELSE InitialMask[q]) % m]]
    OBVIOUS
  <2>5. \A p \in Party : share[p][w].this = t[p] /\ share[p][w].nxt = t[NEXT(p)]
    <3>1. ASSUME NEW p \in Party PROVE SharesOf(env, w, p).this = t[p] /\ SharesOf(env, w, p).nxt = t[NEXT(p)]
      BY <1>3, <2>1, <2>2, <2>3, <2>4 DEF SharesOf
    <3> QED BY <1>1, <3>1
  <2>6. ASSUME NEW i \in 1..n
        PROVE  /\ t[0][i] = x0 % m /\ t[1][i] = x1 % m /\ env[w][i] \in Int
               /\ t[2][i] = (env[w][i] - x0 - x1) % m
    <3>1. env[w][i] \in Int
      BY <1>2, <2>2, EnvType
    <3>2. 0 \in Party /\ 1 \in Party /\ 2 \in Party
      BY DEF Party
    <3> QED BY <2>3, <2>4, <3>1, <3>2
  <2>7. ASSUME NEW i \in 1..n
        PROVE  /\ t[0][i] \in 0..(m - 1) /\ t[1][i] \in 0..(m - 1) /\ t[2][i] \in 0..(m - 1)
               /\ Cong(t[0][i] + t[1][i] + t[2][i], env[w][i], m)
    <3>0. PICK e \in Int : e = env[w][i]
      BY <2>6
    <3>1. PICK x2 \in Int : x2 = e - x0 - x1 /\ x0 + x1 + x2 = e
      OBVIOUS
    <3>2. Cong((x0 % m) + (x1 % m) + (x2 % m), x0 + x1 + x2, m)
      BY CongThreeMods
    <3>3. x0 % m \in 0..(m - 1) /\ x1 % m \in 0..(m - 1) /\ x2 % m \in 0..(m - 1)
      BY ModIsCong
    <3>4. t[0][i] = x0 % m /\ t[1][i] = x1 % m /\ t[2][i] = x2 % m
      BY <2>6, <3>0, <3>1
    <3>5. Cong((x0 % m) + (x1 % m) + (x2 % m), e, m)
      BY <3>1, <3>2
    <3> QED BY <3>0, <3>3, <3>4, <3>5
  <2>8. \A p \in Party : t[p] \in Vector(w)
    <3>1. ASSUME NEW p \in Party PROVE t[p] \in [1..n -> 0..(m - 1)]
      <4>1. \A i \in 1..n : t[p][i] \in 0..(m - 1)
        BY <2>7 DEF Party
      <4> QED BY <2>4, <4>1
    <3> QED BY <2>1, <2>2, <3>1 DEF Vector
  <2>9. Replicated(share, w)
    BY <1>3, <2>5, <2>8 DEF Replicated
  <2>10. \A i \in 1..n : Cong(SumOf(share, w, i), env[w][i], m)
    <3>1. 0 \in Party /\ 1 \in Party /\ 2 \in Party
      BY DEF Party
    <3> QED BY <2>5, <2>7, <3>1 DEF SumOf
  <2> QED BY <2>1, <2>2, <2>9, <2>10 DEF GoodWire
<1>5. GoodShares(share, env)
  BY <1>1, <1>4 DEF GoodShares, AreShares
<1>6. PICK sh : sh = share
  OBVIOUS
<1>7. PICK h : h = [k \in {0} |-> [gen |-> FreshGenerator, spent |-> {}, share |-> sh]]
  OBVIOUS
<1>8. h[0].gen = FreshGenerator /\ h[0].spent = {} /\ h[0].share = share
  BY <1>6, <1>7
<1>9. /\ script = <<>> /\ at = [p \in Party |-> 0] /\ waiting = {} /\ gen = [p \in Party |-> FreshGenerator]
      /\ spent = [p \in Party |-> {}] /\ mine = [p \in Party |-> <<>>] /\ out = [p \in Party |-> <<>>]
      /\ chan = [l \in Party \X Party |-> <<>>]
  BY DEF Init
<1>10. Len(script) = 0 /\ plain[1] = env
  BY <1>1, <1>9
<1>11. IsHistory(h, Len(script), script, plain)
  <2>1. GoodAt(h[0].share, 0, script, plain)
    BY <1>5, <1>8, <1>10 DEF GoodAt
  <2>2. \A k \in 0..0 : k = 0
    OBVIOUS
  <2> QED BY <1>8, <1>10, <2>1, <2>2 DEF IsHistory
<1>12. \A p \in Party : at[p] = 0 /\ Begun(p) = 0
  BY <1>9 DEF Begun
<1>13. GensFollow(h)
  BY <1>8, <1>9, <1>12 DEF GensFollow
<1>14. SharesFollow(h)
  BY <1>1, <1>8, <1>12 DEF SharesFollow
<1>15. SentFollows(h) /\ Revealed
  BY <1>9, <1>12 DEF SentFollows, Revealed, RevealIsPlain
<1>16. ChannelsOK(h)
  <2>1. ASSUME NEW p \in Party, NEW q \in Party
        PROVE  Channel(chan[<<p, q>>], script, h, p, q, at[p], Begun(p), at[q])
    <3>1. PICK P : P = Posted(script, p, q, at[p], Begun(p))
      OBVIOUS
    <3>2. P = {} /\ 1..Len(script) = {}
      BY <1>10, <3>1 DEF Posted
    <3>3. Stream(<<>>, P, at[q], Data(h, script, p))
      BY <3>2, EmptyStream
    <3>4. chan[<<p, q>>] = <<>>
      BY <1>9
    <3> QED BY <3>1, <3>2, <3>3, <3>4 DEF Channel
  <2>2. DOMAIN chan = Party \X Party
    BY <1>9
  <2> QED BY <2>1, <2>2 DEF ChannelsOK
<1> QED BY <1>11, <1>13, <1>14, <1>15, <1>16 DEF Going

-----------------------------------------------------------------------------
\* The results

\* Parties that have begun the same rounds have generators in the same state and have
\* drawn the same units, whatever the calls and however far apart the parties ran.
THEOREM GeneratorsInStep == Spec => []InStep
<1>1. HaveHistory => InStep
  BY DEF HaveHistory, Going, GensFollow, InStep
<1> QED BY <1>1, InitIInv, NextIInv, InitHistory, NextHistory, PTL DEF Spec

\* When the parties have finished the same calls, the three shares of every wire are
\* consistently replicated and add up to what plain arithmetic makes of it.
THEOREM SharesAlwaysOpen == Spec => []SharesOpen
<1>1. ASSUME IInv, HaveHistory PROVE SharesOpen
  <2> SUFFICES ASSUME NEW k \in 0..Len(script), Together(k), NEW w \in Wire
               PROVE  /\ \A p \in Party : share[p][w].nxt = share[NEXT(p)][w].this
                      /\ Mod([i \in 1..Size[w] |->
                                share[0][w].this[i] + share[1][w].this[i] + share[2][w].this[i]], Width[w])
                         = plain[k + 1][w]
    BY DEF SharesOpen
  <2>1. PICK h : Going(h)
    BY <1>1 DEF HaveHistory
  <2>2. PICK s : s = h[k].share
    OBVIOUS
  <2>3. PICK env : env = plain[k + 1]
    OBVIOUS
  <2>4. \A p \in Party : share[p] = s[p]
    BY <2>1, <2>2 DEF Together, Going, SharesFollow
  <2>5. GoodAt(s, k, script, plain)
    BY <2>1, <2>2 DEF Going, IsHistory
  <2>6. ~(k > 0 /\ script[k].op = "conv1")
    BY DEF Together
  <2>7. GoodShares(s, env)
    BY <2>3, <2>5, <2>6 DEF GoodAt
  <2>8. IsEnv(env)
    <3>1. Len(script) \in Nat /\ DOMAIN plain = 1..(Len(script) + 1)
      BY <1>1 DEF IInv, ProgramOK, IsProgram
    <3>2. k + 1 \in DOMAIN plain
      BY <3>1
    <3> QED BY <1>1, <2>3, <3>2 DEF IInv, ProgramOK, IsProgram
  <2>9. /\ Mod([i \in 1..Size[w] |-> s[0][w].this[i] + s[1][w].this[i] + s[2][w].this[i]], Width[w])
           = env[w]
        /\ \A p \in Party : s[p][w].nxt = s[NEXT(p)][w].this
    BY <2>7, <2>8, GoodSharesOpen
  <2>10. share[0] = s[0] /\ share[1] = s[1] /\ share[2] = s[2]
    BY <2>4 DEF Party
  <2>11. \A p \in Party : share[p][w].nxt = share[NEXT(p)][w].this
    BY <2>4, <2>9, NextType
  <2> QED BY <2>3, <2>9, <2>10, <2>11
<1> QED BY <1>1, InitIInv, NextIInv, InitHistory, NextHistory, PTL DEF Spec

\* What a party gets from revealAll is the plaintext, though the three ran apart: no
\* message of another round is taken for the one it waits for.
THEOREM RevealIsAlwaysPlain == Spec => []RevealIsPlain
<1>1. HaveHistory => RevealIsPlain
  BY DEF HaveHistory, Going, Revealed
<1> QED BY <1>1, InitIInv, NextIInv, InitHistory, NextHistory, PTL DEF Spec

=============================================================================
