---------------------------- MODULE NumberLemmas ----------------------------
(***************************************************************************)
(* Facts about numbers that several proofs need: \div and % with a divisor *)
(* that is not a number, which the solver finds only in small steps, sums  *)
(* over sets of numbers, and the greatest and least elements of a finite   *)
(* set, which stand in for induction.                                      *)
(***************************************************************************)
EXTENDS Integers, FiniteSetTheorems, WellFoundedInduction, TLAPS

\* Quotient and remainder.
LEMMA Division ==
    ASSUME NEW n \in Nat, NEW m \in Nat \ {0}
    PROVE  /\ n \div m \in Nat /\ n % m \in Nat
           /\ n = m * (n \div m) + (n % m)
           /\ n % m < m
  BY Z3

\* Products grow with a factor.
LEMMA TimesMonotonic ==
    ASSUME NEW m \in Nat, NEW a \in Nat, NEW b \in Nat, a <= b
    PROVE  m * a <= m * b
<1>1. m * (b - a) >= 0
  BY Z3
<1>2. m * (b - a) = m * b - m * a
  BY Z3
<1> QED BY <1>1, <1>2, Z3

\* A quotient is the greatest number whose product fits.
LEMMA Quotient ==
    ASSUME NEW n \in Nat, NEW m \in Nat \ {0}, NEW q \in Nat
    PROVE  /\ m * q <= n => q <= n \div m
           /\ n < m * q => n \div m < q
<1> DEFINE d == n \div m
<1>1. d \in Nat /\ n % m \in Nat /\ n = m * d + (n % m) /\ n % m < m /\ m * d \in Nat /\ m * q \in Nat
  BY Division, Z3
<1>2. m * (d + 1) = m * d + m
  BY <1>1, Z3
<1> HIDE DEF d
<1>3. ASSUME q > d PROVE n < m * q
  BY <1>1, <1>2, <1>3, TimesMonotonic, m * (d + 1) <= m * q
<1>4. ASSUME q <= d PROVE m * q <= n
  <2>1. m * q <= m * d
    BY <1>1, <1>4, TimesMonotonic
  <2> QED BY <1>1, <2>1
<1> QED BY <1>1, <1>3, <1>4 DEF d

\* A number is determined by quotient and remainder.
LEMMA SameQuotient ==
    ASSUME NEW i \in Nat, NEW j \in Nat, NEW m \in Nat \ {0},
           i \div m = j \div m, i % m = j % m
    PROVE  i = j
  BY Division

-----------------------------------------------------------------------------
\* A finite set has an element of greatest value.
LEMMA FiniteMax ==
    ASSUME NEW W, IsFiniteSet(W), W # {}, NEW g \in [W -> Nat]
    PROVE  \E x \in W : \A y \in W : g[y] <= g[x]
<1> DEFINE Above(x) == {y \in W : g[x] <= g[y]}
           T == {Above(x) : x \in W}
<1>1. T \subseteq FiniteSubsetsOf(W) /\ T # {}
  <2>1. \A x \in W : Above(x) \in SUBSET W /\ IsFiniteSet(Above(x))
    BY FS_Subset
  <2> HIDE DEF Above
  <2> QED BY <2>1 DEF FiniteSubsetsOf
<1>2. PICK s \in T : \A t \in T : <<t, s>> \notin StrictSubsetOrdering(W)
  <2>1. IsWellFoundedOn(StrictSubsetOrdering(W), FiniteSubsetsOf(W))
    BY FS_StrictSubsetOrderingWellFounded
  <2> HIDE DEF T
  <2> QED BY <1>1, <2>1, WFMin
<1>3. PICK x \in W : s = Above(x)
  OBVIOUS
<1>4. ASSUME NEW y \in W, g[x] < g[y] PROVE FALSE
  <2>1. Above(y) \subseteq Above(x) /\ x \in Above(x) /\ x \notin Above(y)
    BY <1>4
  <2>2. <<Above(y), Above(x)>> \in StrictSubsetOrdering(W)
    BY <2>1 DEF StrictSubsetOrdering
  <2> QED BY <1>2, <1>3, <2>2
<1>5. \A y \in W : g[y] <= g[x]
  BY <1>4
<1> QED BY <1>5

\* The greatest and the least number of a set with a bound.
LEMMA Extremes ==
    ASSUME NEW n \in Nat, NEW S \in SUBSET (0..n), S # {}
    PROVE  /\ \E x \in S : \A y \in S : y <= x
           /\ \E x \in S : \A y \in S : x <= y
<1>1. IsFiniteSet(S)
  <2>1. IsFiniteSet(0..n)
    BY FS_Interval, 0 \in Int, n \in Int
  <2> QED BY <2>1, FS_Subset
<1>2. \E x \in S : \A y \in S : [k \in S |-> k][y] <= [k \in S |-> k][x]
  <2>1. [k \in S |-> k] \in [S -> Nat]
    OBVIOUS
  <2> QED BY <1>1, <2>1, FiniteMax
<1>3. \E x \in S : \A y \in S : [k \in S |-> n - k][y] <= [k \in S |-> n - k][x]
  <2>1. [k \in S |-> n - k] \in [S -> Nat]
    OBVIOUS
  <2> QED BY <1>1, <2>1, FiniteMax
<1>4. \E x \in S : \A y \in S : y <= x
  BY <1>2
<1>5. \E x \in S : \A y \in S : x <= y
  <2>1. PICK x \in S : \A y \in S : [k \in S |-> n - k][y] <= [k \in S |-> n - k][x]
    BY <1>3
  <2>2. \A y \in S : n - y <= n - x /\ x \in Nat /\ y \in Nat
    BY <2>1
  <2> QED BY <2>2
<1> QED BY <1>4, <1>5

-----------------------------------------------------------------------------
\* Congruence.

\* a and b differ by a multiple of m.
Cong(a, b, m) == \E k \in Int : a = b + k * m

LEMMA ModIsCong ==
    ASSUME NEW a \in Int, NEW m \in Nat \ {0}
    PROVE  a % m \in 0..(m - 1) /\ Cong(a % m, a, m) /\ Cong(a, a % m, m)
<1>1. a % m \in 0..(m - 1) /\ a \div m \in Int /\ a = m * (a \div m) + (a % m)
  BY Z3
<1> DEFINE q == a \div m
           r == a % m
<1>2. a = r + q * m /\ r = a + (0 - q) * m /\ 0 - q \in Int
  BY <1>1, Z3
<1> QED BY <1>1, <1>2 DEF Cong

LEMMA CongSum ==
    ASSUME NEW a \in Int, NEW b \in Int, NEW c \in Int, NEW d \in Int, NEW m \in Nat \ {0},
           Cong(a, b, m), Cong(c, d, m)
    PROVE  Cong(a + c, b + d, m) /\ Cong(a - c, b - d, m)
<1>1. PICK k \in Int : a = b + k * m
  BY DEF Cong
<1>2. PICK l \in Int : c = d + l * m
  BY DEF Cong
<1>3. k + l \in Int /\ k - l \in Int /\ a + c = (b + d) + (k + l) * m /\ a - c = (b - d) + (k - l) * m
  BY <1>1, <1>2, Z3
<1> QED BY <1>3 DEF Cong

LEMMA CongProduct ==
    ASSUME NEW a \in Int, NEW b \in Int, NEW c \in Int, NEW d \in Int, NEW m \in Nat \ {0},
           Cong(a, b, m), Cong(c, d, m)
    PROVE  Cong(a * c, b * d, m)
<1>1. PICK k \in Int : a = b + k * m
  BY DEF Cong
<1>2. PICK l \in Int : c = d + l * m
  BY DEF Cong
<1>3. b * l + k * d + k * l * m \in Int /\ a * c = b * d + (b * l + k * d + k * l * m) * m
  BY <1>1, <1>2, Z3
<1> QED BY <1>3 DEF Cong

LEMMA CongTrans ==
    ASSUME NEW a \in Int, NEW b \in Int, NEW c \in Int, NEW m \in Nat \ {0},
           Cong(a, b, m), Cong(b, c, m)
    PROVE  Cong(a, c, m)
<1>1. PICK k \in Int : a = b + k * m
  BY DEF Cong
<1>2. PICK l \in Int : b = c + l * m
  BY DEF Cong
<1>3. k + l \in Int /\ a = c + (k + l) * m
  BY <1>1, <1>2, Z3
<1> QED BY <1>3 DEF Cong

LEMMA CongSym ==
    ASSUME NEW a \in Int, NEW b \in Int, NEW m \in Nat \ {0}, Cong(a, b, m)
    PROVE  Cong(b, a, m)
<1>1. PICK k \in Int : a = b + k * m
  BY DEF Cong
<1>2. 0 - k \in Int /\ b = a + (0 - k) * m
  BY <1>1, Z3
<1> QED BY <1>2 DEF Cong

LEMMA CongSelf ==
    ASSUME NEW a \in Int, NEW m \in Nat \ {0}
    PROVE  Cong(a, a, m)
<1>1. a = a + 0 * m
  BY Z3
<1> QED BY <1>1 DEF Cong

\* Of the numbers below m, no two are congruent.
LEMMA CongSmall ==
    ASSUME NEW m \in Nat \ {0}, NEW a \in 0..(m - 1), NEW b \in 0..(m - 1), Cong(a, b, m)
    PROVE  a = b
<1>1. PICK k \in Int : a = b + k * m
  BY DEF Cong
<1>2. k * m \in Int /\ k * m < m /\ k * m > 0 - m
  BY <1>1
<1>3. CASE k >= 1
  <2>1. k * m >= m
    BY <1>3, Z3
  <2> QED BY <1>2, <2>1
<1>4. CASE k <= -1
  <2>1. k * m <= 0 - m
    BY <1>4, Z3
  <2> QED BY <1>2, <2>1
<1>5. CASE k = 0
  BY <1>1, <1>5, Z3
<1> QED BY <1>3, <1>4, <1>5

LEMMA ModOfCong ==
    ASSUME NEW a \in Int, NEW m \in Nat \ {0}, NEW b \in 0..(m - 1), Cong(a, b, m)
    PROVE  a % m = b
<1>1. a % m \in 0..(m - 1) /\ Cong(a % m, a, m)
  BY ModIsCong
<1>2. Cong(a % m, b, m)
  BY <1>1, CongTrans
<1> QED BY <1>1, <1>2, CongSmall

LEMMA CongMod ==
    ASSUME NEW a \in Int, NEW b \in Int, NEW m \in Nat \ {0}, Cong(a, b, m)
    PROVE  Cong(a, b % m, m)
<1>1. b % m \in Int /\ Cong(b, b % m, m)
  BY ModIsCong
<1> QED BY <1>1, CongTrans

\* Remainders of results are those of the results on the remainders.
LEMMA SameMod ==
    ASSUME NEW a \in Int, NEW b \in Int, NEW m \in Nat \ {0}, Cong(a, b, m)
    PROVE  a % m = b % m
<1>1. b % m \in 0..(m - 1) /\ Cong(a, b % m, m)
  BY ModIsCong, CongMod
<1> QED BY <1>1, ModOfCong

LEMMA ModSmall ==
    ASSUME NEW m \in Nat \ {0}, NEW a \in 0..(m - 1)
    PROVE  a % m = a
  BY ModOfCong, CongSelf, a \in Int

LEMMA ModMod ==
    ASSUME NEW a \in Int, NEW m \in Nat \ {0}
    PROVE  (a % m) % m = a % m
  BY ModIsCong, ModSmall

LEMMA ModOfResults ==
    ASSUME NEW a \in Int, NEW b \in Int, NEW m \in Nat \ {0}
    PROVE  /\ ((a + b) % m) % m = ((a % m) + (b % m)) % m
           /\ ((a - b) % m) % m = ((a % m) - (b % m)) % m
           /\ ((a * b) % m) % m = ((a % m) * (b % m)) % m
<1>0. PICK x \in Int : x = a % m /\ Cong(a, x, m)
  BY ModIsCong
<1>1. PICK y \in Int : y = b % m /\ Cong(b, y, m)
  BY ModIsCong
<1>2. Cong(a + b, x + y, m) /\ Cong(a - b, x - y, m) /\ Cong(a * b, x * y, m)
  BY <1>0, <1>1, CongSum, CongProduct
<1>3. PICK s \in Int, d \in Int, t \in Int, e \in Int : s = a + b /\ d = a - b /\ t = x + y /\ e = x - y
  OBVIOUS
<1>30. a * b \in Int /\ x * y \in Int
  BY Z3
<1>31. PICK p \in Int : p = a * b
  BY <1>30, Zenon
<1>32. PICK q \in Int : q = x * y
  BY <1>30, Zenon
<1>4. s % m = t % m /\ d % m = e % m /\ p % m = q % m
  BY <1>2, <1>3, <1>31, <1>32, SameMod
<1>5. (s % m) % m = t % m /\ (d % m) % m = e % m /\ (p % m) % m = q % m
  BY <1>4, ModMod
<1> QED BY <1>0, <1>1, <1>3, <1>31, <1>32, <1>5, Zenon

LEMMA CongThreeSums ==
    ASSUME NEW a \in Int, NEW b \in Int, NEW c \in Int, NEW d \in Int,
           NEW u \in Int, NEW v \in Int, NEW w \in Int, NEW x \in Int, NEW m \in Nat \ {0},
           Cong(a + b + c, d, m), Cong(u + v + w, x, m)
    PROVE  Cong((a + u) + (b + v) + (c + w), d + x, m)
<1>1. a + b + c \in Int /\ u + v + w \in Int
  OBVIOUS
<1>2. Cong((a + b + c) + (u + v + w), d + x, m)
  BY <1>1, CongSum
<1>3. (a + b + c) + (u + v + w) = (a + u) + (b + v) + (c + w)
  OBVIOUS
<1> QED BY <1>2, <1>3

LEMMA CongThreeMods ==
    ASSUME NEW x \in Int, NEW y \in Int, NEW z \in Int, NEW m \in Nat \ {0}
    PROVE  Cong((x % m) + (y % m) + (z % m), x + y + z, m)
<1>1. PICK a \in Int : a = x % m /\ Cong(a, x, m)
  BY ModIsCong
<1>2. PICK b \in Int : b = y % m /\ Cong(b, y, m)
  BY ModIsCong
<1>3. PICK c \in Int : c = z % m /\ Cong(c, z, m)
  BY ModIsCong
<1>4. a + b \in Int /\ x + y \in Int /\ Cong(a + b, x + y, m)
  BY <1>1, <1>2, CongSum
<1>5. Cong((a + b) + c, (x + y) + z, m)
  BY <1>3, <1>4, CongSum
<1> QED BY <1>1, <1>2, <1>3, <1>5, Zenon

LEMMA CongMasked ==
    ASSUME NEW a \in Int, NEW b \in Int, NEW c \in Int,
           NEW u \in Int, NEW v \in Int, NEW w \in Int, NEW m \in Nat \ {0},
           Cong(u + v + w, 0, m)
    PROVE  Cong(((a + u) % m) + ((b + v) % m) + ((c + w) % m), a + b + c, m)
<1>1. PICK x \in Int, y \in Int, z \in Int : x = a + u /\ y = b + v /\ z = c + w
  OBVIOUS
<1>2. Cong((x % m) + (y % m) + (z % m), x + y + z, m)
  BY CongThreeMods
<1>3. a + b + c \in Int /\ Cong(a + b + c, a + b + c, m)
  BY CongSelf, a + b + c \in Int
<1>4. Cong(x + y + z, (a + b + c) + 0, m)
  BY <1>1, <1>3, CongThreeSums, SMTT(40)
<1>5. x % m \in Int /\ y % m \in Int /\ z % m \in Int
  BY ModIsCong
<1>6. (x % m) + (y % m) + (z % m) \in Int /\ x + y + z \in Int /\ (a + b + c) + 0 = a + b + c
  BY <1>5
<1>7. Cong((x % m) + (y % m) + (z % m), a + b + c, m)
  BY <1>2, <1>3, <1>4, <1>6, CongTrans
<1> QED BY <1>1, <1>7, Zenon

\* The moduli of the rings.
LEMMA PowersOfTwoAre ==
    ASSUME NEW x \in 1..8
    PROVE  2^x \in {2, 4, 8, 16, 32, 64, 128, 256} /\ (x = 1 => 2^x = 2)
<1>1. CASE x = 1
  <2>1. 2^x = 2
    BY <1>1
  <2> QED BY <1>1, <2>1
<1>2. CASE x = 2
  <2>1. 2^x = 4
    BY <1>2
  <2> QED BY <1>2, <2>1
<1>3. CASE x = 3
  <2>1. 2^x = 8
    BY <1>3
  <2> QED BY <1>3, <2>1
<1>4. CASE x = 4
  <2>1. 2^x = 16
    BY <1>4
  <2> QED BY <1>4, <2>1
<1>5. CASE x = 5
  <2>1. 2^x = 32
    BY <1>5
  <2> QED BY <1>5, <2>1
<1>6. CASE x = 6
  <2>1. 2^x = 64
    BY <1>6
  <2> QED BY <1>6, <2>1
<1>7. CASE x = 7
  <2>1. 2^x = 128
    BY <1>7
  <2> QED BY <1>7, <2>1
<1>8. CASE x = 8
  <2>1. 2^x = 256
    BY <1>8
  <2> QED BY <1>8, <2>1
<1> QED BY <1>1, <1>2, <1>3, <1>4, <1>5, <1>6, <1>7, <1>8

LEMMA PowersOfTwo ==
    ASSUME NEW x \in 1..8
    PROVE  2^x \in Nat \ {0} /\ (x = 1 => 2^x = 2)
<1>1. {2, 4, 8, 16, 32, 64, 128, 256} \subseteq Nat \ {0}
  OBVIOUS
<1>2. 2^x \in {2, 4, 8, 16, 32, 64, 128, 256} /\ (x = 1 => 2^x = 2)
  BY PowersOfTwoAre
<1> QED BY <1>1, <1>2, ZenonT(60)

-----------------------------------------------------------------------------
\* Sums of the values of a function, taken one element after the other.

\* The sums of f over the subsets of 0..n with at most k elements.
Sums(g, f, n, k) ==
    g = [s \in {t \in SUBSET (0..n) : Cardinality(t) <= k} |->
            IF s = {} THEN 0 ELSE f[CHOOSE x \in s : TRUE] + g[s \ {CHOOSE x \in s : TRUE}]]

LEMMA SmallerSet ==
    ASSUME NEW n \in Nat, NEW s \in SUBSET (0..n)
    PROVE  /\ IsFiniteSet(s) /\ Cardinality(s) \in 0..(n + 1) /\ (Cardinality(s) = 0 <=> s = {})
           /\ s # {} => /\ (CHOOSE x \in s : TRUE) \in s
                        /\ Cardinality(s \ {CHOOSE x \in s : TRUE}) = Cardinality(s) - 1
<1>1. IsFiniteSet(0..n) /\ Cardinality(0..n) = n + 1
  BY FS_Interval
<1>2. IsFiniteSet(s) /\ Cardinality(s) <= n + 1
  BY <1>1, FS_Subset
<1>3. Cardinality(s) \in Nat /\ (Cardinality(s) = 0 <=> s = {})
  BY <1>2, FS_CardinalityType, FS_EmptySet
<1>4. ASSUME s # {}
      PROVE  (CHOOSE x \in s : TRUE) \in s /\ Cardinality(s \ {CHOOSE x \in s : TRUE}) = Cardinality(s) - 1
  <2>1. PICK y : y = CHOOSE x \in s : TRUE
    OBVIOUS
  <2>2. y \in s
    BY <1>4, <2>1
  <2>3. Cardinality(s \ {y}) = Cardinality(s) - 1
    BY <1>2, <2>2, FS_RemoveElement
  <2> QED BY <2>1, <2>2, <2>3
<1> QED BY <1>2, <1>3, <1>4

LEMMA SumsExist ==
    ASSUME NEW n \in Nat, NEW f, NEW k \in 0..(n + 1)
    PROVE  \E g : Sums(g, f, n, k)
<1> SUFFICES ASSUME \E j \in 0..(n + 1) : ~ \E g : Sums(g, f, n, j) PROVE FALSE
  OBVIOUS
<1> DEFINE T == {j \in 0..(n + 1) : ~ \E g : Sums(g, f, n, j)}
<1>0. n + 1 \in Nat /\ T \in SUBSET (0..(n + 1)) /\ T # {}
  OBVIOUS
<1>1. PICK j \in T : \A i \in T : j <= i
  <2> HIDE DEF T
  <2> QED BY <1>0, Extremes
<1>2. j \in 0..(n + 1) /\ ~ \E g : Sums(g, f, n, j)
  OBVIOUS
<1> HIDE DEF T
<1>3. CASE j = 0
  <2>1. PICK g : g = [s \in {t \in SUBSET (0..n) : Cardinality(t) <= j} |-> 0]
    OBVIOUS
  <2>2. ASSUME NEW s \in SUBSET (0..n), Cardinality(s) <= j PROVE s = {}
    <3>1. Cardinality(s) \in 0..(n + 1) /\ (Cardinality(s) = 0 <=> s = {})
      BY SmallerSet
    <3> QED BY <1>3, <2>2, <3>1
  <2>3. Sums(g, f, n, j)
    BY <2>1, <2>2 DEF Sums
  <2> QED BY <1>2, <2>3
<1>4. CASE j # 0
  <2>1. j - 1 \in 0..(n + 1) /\ ~(j <= j - 1)
    BY <1>2, <1>4
  <2>2. PICK g : Sums(g, f, n, j - 1)
    BY <1>1, <2>1 DEF T
  <2> DEFINE h == [s \in {t \in SUBSET (0..n) : Cardinality(t) <= j} |->
                      IF s = {} THEN 0 ELSE f[CHOOSE x \in s : TRUE] + g[s \ {CHOOSE x \in s : TRUE}]]
  <2>3. ASSUME NEW s \in SUBSET (0..n), Cardinality(s) <= j, s # {}
        PROVE  h[s \ {CHOOSE x \in s : TRUE}] = g[s \ {CHOOSE x \in s : TRUE}]
    <3>1. PICK r : r = s \ {CHOOSE x \in s : TRUE}
      OBVIOUS
    <3>2. r \in SUBSET (0..n) /\ Cardinality(r) <= j - 1 /\ Cardinality(r) <= j
      BY <1>2, <2>3, <3>1, SmallerSet
    <3>3. h[r] = g[r]
      BY <2>2, <3>2 DEF Sums
    <3> QED BY <3>1, <3>3
  <2>4. h = [s \in {t \in SUBSET (0..n) : Cardinality(t) <= j} |->
                IF s = {} THEN 0 ELSE f[CHOOSE x \in s : TRUE] + h[s \ {CHOOSE x \in s : TRUE}]]
    <3>1. PICK e : e = h
      OBVIOUS
    <3>2. \A s \in {t \in SUBSET (0..n) : Cardinality(t) <= j} :
              s # {} => e[s \ {CHOOSE x \in s : TRUE}] = g[s \ {CHOOSE x \in s : TRUE}]
      BY <2>3, <3>1
    <3> DEFINE P == {t \in SUBSET (0..n) : Cardinality(t) <= j}
               F(s) == IF s = {} THEN 0 ELSE f[CHOOSE x \in s : TRUE] + g[s \ {CHOOSE x \in s : TRUE}]
               G(s) == IF s = {} THEN 0 ELSE f[CHOOSE x \in s : TRUE] + e[s \ {CHOOSE x \in s : TRUE}]
    <3>3. \A s \in P : F(s) = G(s)
      BY <3>2
    <3>4. e = [s \in P |-> F(s)]
      BY <3>1
    <3> HIDE DEF P, F, G
    <3>5. e = [s \in P |-> G(s)]
      BY <3>3, <3>4
    <3> QED BY <3>1, <3>5 DEF P, G
  <2>5. Sums(h, f, n, j)
    BY <2>4 DEF Sums
  <2> QED BY <1>2, <2>5
<1> QED BY <1>3, <1>4

\* The sums of f over all subsets of S, one element after the other.
IsSum(g, f, S) ==
    g = [s \in SUBSET S |->
            IF s = {} THEN 0 ELSE f[CHOOSE x \in s : TRUE] + g[s \ {CHOOSE x \in s : TRUE}]]

LEMMA SumExists ==
    ASSUME NEW n \in Nat, NEW f
    PROVE  \E g : IsSum(g, f, 0..n)
<1>1. PICK g : Sums(g, f, n, n + 1)
  BY SumsExist
<1>2. ASSUME NEW t \in SUBSET (0..n) PROVE Cardinality(t) <= n + 1
  <2>1. Cardinality(t) \in 0..(n + 1)
    BY SmallerSet
  <2> QED BY <2>1
<1>4. {t \in SUBSET (0..n) : Cardinality(t) <= n + 1} = SUBSET (0..n)
  BY <1>2
<1>3. IsSum(g, f, 0..n)
  BY <1>1, <1>4 DEF IsSum, Sums
<1> QED BY <1>3

LEMMA SumsWithin ==
    ASSUME NEW n \in Nat, NEW S \in SUBSET (0..n), NEW f
    PROVE  \E g : IsSum(g, f, S)
<1>1. PICK h : IsSum(h, f, 0..n)
  BY SumExists
<1> DEFINE F(g, s) == IF s = {} THEN 0 ELSE f[CHOOSE x \in s : TRUE] + g[s \ {CHOOSE x \in s : TRUE}]
           g == [s \in SUBSET S |-> h[s]]
<1>2. ASSUME NEW s \in SUBSET S PROVE h[s] = F(g, s)
  <2>1. h[s] = F(h, s)
    BY <1>1 DEF IsSum
  <2>2. s # {} => h[s \ {CHOOSE x \in s : TRUE}] = g[s \ {CHOOSE x \in s : TRUE}]
    OBVIOUS
  <2> HIDE DEF g
  <2> QED BY <2>1, <2>2
<1>3. g = [s \in SUBSET S |-> F(g, s)]
  <2>1. PICK e : e = g
    OBVIOUS
  <2>2. \A s \in SUBSET S : h[s] = F(e, s)
    BY <1>2, <2>1
  <2>3. e = [s \in SUBSET S |-> h[s]]
    BY <2>1
  <2> HIDE DEF F, g
  <2>4. e = [s \in SUBSET S |-> F(e, s)]
    BY <2>2, <2>3
  <2> QED BY <2>1, <2>4
<1> HIDE DEF g
<1>4. IsSum(g, f, S)
  BY <1>3 DEF IsSum
<1> QED BY <1>4


LEMMA SumOfIntegers ==
    ASSUME NEW n \in Nat, NEW S \in SUBSET (0..n), NEW f, \A b \in S : f[b] \in Int, NEW g, IsSum(g, f, S)
    PROVE  g[S] \in Int
<1> DEFINE T == {j \in 0..(n + 1) : \E s \in SUBSET S : Cardinality(s) = j /\ g[s] \notin Int}
<1>0. n + 1 \in Nat /\ T \in SUBSET (0..(n + 1))
  OBVIOUS
<1>1. ASSUME T # {} PROVE FALSE
  <2>1. PICK j \in T : \A i \in T : j <= i
    <3> HIDE DEF T
    <3> QED BY <1>0, <1>1, Extremes
  <2>2. PICK s \in SUBSET S : Cardinality(s) = j /\ g[s] \notin Int
    BY <2>1
  <2> HIDE DEF T
  <2>3. s # {}
    BY <2>2 DEF IsSum
  <2>4. PICK x : x = CHOOSE y \in s : TRUE
    OBVIOUS
  <2>5. x \in s /\ Cardinality(s \ {x}) = j - 1 /\ j \in 0..(n + 1) /\ j # 0
    BY <2>2, <2>3, <2>4, SmallerSet
  <2>6. g[s] = f[x] + g[s \ {x}]
    BY <2>3, <2>4 DEF IsSum
  <2>7. g[s \ {x}] \in Int
    BY <2>1, <2>5, s \ {x} \in SUBSET S, j - 1 \in 0..(n + 1), ~(j <= j - 1) DEF T
  <2> QED BY <2>2, <2>5, <2>6, <2>7
<1>2. Cardinality(S) \in 0..(n + 1)
  BY SmallerSet
<1> QED BY <1>1, <1>2

LEMMA SumsOfIntegers ==
    ASSUME NEW n \in Nat, NEW S \in SUBSET (0..n), NEW f, \A b \in S : f[b] \in Int, NEW g, IsSum(g, f, S),
           NEW s \in SUBSET S
    PROVE  g[s] \in Int
<1> DEFINE h == [t \in SUBSET s |-> g[t]]
           F(e, t) == IF t = {} THEN 0 ELSE f[CHOOSE x \in t : TRUE] + e[t \ {CHOOSE x \in t : TRUE}]
<1>1. \A t \in SUBSET s : g[t] = F(g, t)
  BY DEF IsSum
<1>2. \A t \in SUBSET s : h[t] = g[t]
  OBVIOUS
<1>3. \A t \in SUBSET s : t \ {CHOOSE x \in t : TRUE} \in SUBSET s
  OBVIOUS
<1>4. \A t \in SUBSET s : g[t] = F(h, t)
  <2> HIDE DEF h
  <2> QED BY <1>1, <1>2, <1>3
<1>5. PICK e : e = h
  OBVIOUS
<1>6. e = [t \in SUBSET s |-> g[t]] /\ \A t \in SUBSET s : g[t] = F(e, t)
  BY <1>4, <1>5
<1> HIDE DEF F
<1>7. e = [t \in SUBSET s |-> F(e, t)]
  BY <1>6
<1>8. IsSum(e, f, s)
  BY <1>7 DEF F, IsSum
<1>9. e[s] \in Int
  BY <1>8, SumOfIntegers
<1> QED BY <1>6, <1>9

\* The sum over a set is the same whichever element is taken first.
AnyFirst(g, f, S) == \A s \in SUBSET S : \A x \in s : g[s] = f[x] + g[s \ {x}]

LEMMA AnyOrder ==
    ASSUME NEW n \in Nat, NEW S \in SUBSET (0..n), NEW f, \A b \in S : f[b] \in Int, NEW g, IsSum(g, f, S)
    PROVE  AnyFirst(g, f, S)
<1> SUFFICES \A s \in SUBSET S : \A x \in s : g[s] = f[x] + g[s \ {x}]
  BY DEF AnyFirst
<1> DEFINE T == {j \in 0..(n + 1) :
                    \E s \in SUBSET S : Cardinality(s) = j /\ \E x \in s : g[s] # f[x] + g[s \ {x}]}
<1>0. n + 1 \in Nat /\ T \in SUBSET (0..(n + 1))
  OBVIOUS
<1>1. ASSUME T # {} PROVE FALSE
  <2>1. PICK j \in T : \A i \in T : j <= i
    <3> HIDE DEF T
    <3> QED BY <1>0, <1>1, Extremes
  <2>20. PICK s \in SUBSET S : Cardinality(s) = j /\ \E x \in s : g[s] # f[x] + g[s \ {x}]
    BY <2>1
  <2>2. PICK x \in s : Cardinality(s) = j /\ g[s] # f[x] + g[s \ {x}]
    BY <2>20
  <2>3. j \in 0..(n + 1)
    BY <2>1
  <2>4. ASSUME NEW t \in SUBSET S, Cardinality(t) = j - 1, j # 0, NEW y \in t
        PROVE  g[t] = f[y] + g[t \ {y}]
    <3>1. j - 1 \in 0..(n + 1) /\ ~(j <= j - 1)
      BY <2>3, <2>4
    <3> QED BY <2>1, <2>4, <3>1
  <2> HIDE DEF T
  <2>5. PICK c : c = CHOOSE y \in s : TRUE
    OBVIOUS
  <2>6. c \in s /\ Cardinality(s \ {c}) = j - 1 /\ j # 0
    BY <2>2, <2>5, SmallerSet
  <2>7. Cardinality(s \ {x}) = j - 1
    BY <2>2, SmallerSet, FS_RemoveElement
  <2>8. g[s] = f[c] + g[s \ {c}]
    BY <2>5 DEF IsSum
  <2>9. c # x
    BY <2>2, <2>8
  <2>10. g[s \ {c}] = f[x] + g[(s \ {c}) \ {x}]
    BY <2>4, <2>6, <2>9, s \ {c} \in SUBSET S, x \in s \ {c}
  <2>11. g[s \ {x}] = f[c] + g[(s \ {x}) \ {c}]
    BY <2>4, <2>6, <2>7, <2>9, s \ {x} \in SUBSET S, c \in s \ {x}
  <2>12. PICK r \in SUBSET S : r = (s \ {c}) \ {x} /\ r = (s \ {x}) \ {c}
    OBVIOUS
  <2>13. g[r] \in Int /\ f[c] \in Int /\ f[x] \in Int
    BY <2>6, SumsOfIntegers
  <2>14. g[s] = f[x] + g[s \ {x}]
    <3>1. g[s \ {c}] = f[x] + g[r] /\ g[s \ {x}] = f[c] + g[r]
      BY <2>10, <2>11, <2>12
    <3> QED BY <2>8, <2>13, <3>1
  <2> QED BY <2>2, <2>14
<1>2. \A s \in SUBSET S : Cardinality(s) \in 0..(n + 1)
  BY SmallerSet
<1> QED BY <1>1, <1>2

\* Congruent values have congruent sums; the values outside of N do not count.
LEMMA CongSums ==
    ASSUME NEW n \in Nat, NEW S \in SUBSET (0..n), NEW N \in SUBSET S, NEW m \in Nat \ {0},
           NEW f, \A k \in S : f[k] \in Int, NEW h, \A k \in N : h[k] \in Int,
           \A k \in N : Cong(f[k], h[k], m), \A k \in S \ N : f[k] = 0,
           NEW g, IsSum(g, f, S), NEW e, IsSum(e, h, N)
    PROVE  g[S] \in Int /\ e[N] \in Int /\ Cong(g[S], e[N], m)
<1> DEFINE T == {j \in 0..(n + 1) : \E s \in SUBSET S : Cardinality(s) = j /\ ~Cong(g[s], e[s \cap N], m)}
<1>0. n + 1 \in Nat /\ T \in SUBSET (0..(n + 1)) /\ N \in SUBSET (0..n)
  OBVIOUS
<1>00. \A s \in SUBSET S : g[s] \in Int /\ e[s \cap N] \in Int
  BY <1>0, SumsOfIntegers
<1>01. \A t \in SUBSET S : \A y \in t : g[t] = f[y] + g[t \ {y}]
  <2>1. AnyFirst(g, f, S)
    <3> HIDE DEF T
    <3> QED BY AnyOrder
  <2> QED BY <2>1, Zenon DEF AnyFirst
<1>02. \A t \in SUBSET N : \A y \in t : e[t] = h[y] + e[t \ {y}]
  <2>1. AnyFirst(e, h, N)
    <3> HIDE DEF T
    <3> QED BY <1>0, AnyOrder
  <2> QED BY <2>1, Zenon DEF AnyFirst
<1>1. ASSUME T # {} PROVE FALSE
  <2>1. PICK j \in T : \A i \in T : j <= i
    <3> HIDE DEF T
    <3> QED BY <1>0, <1>1, Extremes
  <2>2. PICK s \in SUBSET S : Cardinality(s) = j /\ ~Cong(g[s], e[s \cap N], m)
    BY <2>1
  <2>3. s # {}
    <3> SUFFICES ASSUME s = {} PROVE FALSE
      OBVIOUS
    <3>1. g[s] = 0 /\ e[s \cap N] = 0
      BY DEF IsSum
    <3> QED BY <2>2, <3>1, CongSelf, 0 \in Int
  <2>4. PICK x : x = CHOOSE y \in s : TRUE
    OBVIOUS
  <2>5. x \in s /\ Cardinality(s \ {x}) = j - 1 /\ j \in 0..(n + 1) /\ j # 0
    BY <2>1, <2>2, <2>3, <2>4, SmallerSet
  <2>70. PICK r \in SUBSET S : r = s \ {x}
    OBVIOUS
  <2>7. Cong(g[r], e[r \cap N], m)
    <3>1. j - 1 \in 0..(n + 1) /\ ~(j <= j - 1)
      BY <2>5
    <3>2. j - 1 \notin T
      BY <2>1, <3>1
    <3> QED BY <2>5, <2>70, <3>1, <3>2
  <2> HIDE DEF T
  <2>6. g[s] = f[x] + g[r]
    <3>1. g[s] = f[x] + g[s \ {x}]
      BY <1>01, <2>5, Zenon
    <3> QED BY <2>70, <3>1, Zenon
  <2>8. CASE x \in N
    <3>1. r \cap N = (s \cap N) \ {x} /\ x \in s \cap N /\ s \cap N \in SUBSET N
      BY <2>5, <2>8, <2>70
    <3>2. e[s \cap N] = h[x] + e[(s \cap N) \ {x}]
      BY <1>02, <3>1, Zenon
    <3>3. PICK u \in Int : u = g[r]
      BY <1>00
    <3>4. PICK v \in Int : v = e[r \cap N]
      BY <1>00
    <3>5. Cong(f[x] + u, h[x] + v, m)
      BY <2>5, <2>7, <2>8, <3>3, <3>4, CongSum
    <3>6. g[s] = f[x] + u /\ e[s \cap N] = h[x] + v
      BY <2>6, <3>1, <3>2, <3>3, <3>4, Zenon
    <3> QED BY <2>2, <3>5, <3>6, Zenon
  <2>9. CASE x \notin N
    <3>1. r \cap N = s \cap N /\ f[x] = 0
      BY <2>5, <2>9, <2>70
    <3>2. g[s] = g[r]
      <4>1. PICK u \in Int : u = g[r]
        BY <1>00
      <4>2. 0 + u = u
        OBVIOUS
      <4> QED BY <2>6, <3>1, <4>1, <4>2, Zenon
    <3> QED BY <2>2, <2>7, <3>1, <3>2, Zenon
  <2> QED BY <2>8, <2>9
<1>2. Cardinality(S) \in 0..(n + 1) /\ S \cap N = N /\ S \in SUBSET S
  BY SmallerSet
<1>3. Cong(g[S], e[S \cap N], m)
  BY <1>1, <1>2
<1> QED BY <1>00, <1>2, <1>3

-----------------------------------------------------------------------------
\* Steps from 0 to n.

LEMMA UpTo ==
    ASSUME NEW n \in Nat, NEW S, 0 \in S, \A i \in 0..n : i # n /\ i \in S => i + 1 \in S
    PROVE  \A i \in 0..n : i \in S
<1> DEFINE T == (0..n) \ S
<1> SUFFICES ASSUME T # {} PROVE FALSE
  OBVIOUS
<1>1. PICK x \in T : \A y \in T : x <= y
  <2>1. T \in SUBSET (0..n)
    OBVIOUS
  <2> HIDE DEF T
  <2> QED BY <2>1, Extremes
<1>2. x \in 0..n /\ x \notin S /\ x # 0
  BY <1>1
<1>3. x - 1 \in 0..n /\ x - 1 # n /\ ~(x <= x - 1) /\ (x - 1) + 1 = x
  BY <1>2
<1>4. x - 1 \in S
  BY <1>1, <1>3
<1> QED BY <1>2, <1>3, <1>4

\* Each value of f is made from the one before.
IsChain(f, n, v, g) == f[0] = v /\ \A i \in 1..n : f[i] = g[i][f[i - 1]]

LEMMA Recursion ==
    ASSUME NEW n \in Nat, NEW V, NEW v \in V, NEW g \in [1..n -> [V -> V]]
    PROVE  \E f \in [0..n -> V] : IsChain(f, n, v, g)
<1> DEFINE S == {k \in 0..n : \E f \in [0..k -> V] : IsChain(f, k, v, g)}
<1>1. 0 \in S
  <2>1. PICK f : f = [i \in 0..0 |-> v]
    OBVIOUS
  <2>2. f \in [0..0 -> V] /\ IsChain(f, 0, v, g)
    BY <2>1 DEF IsChain
  <2>3. 0 \in 0..n
    OBVIOUS
  <2> QED BY <2>2, <2>3
<1>2. ASSUME NEW k \in 0..n, k # n, k \in S PROVE k + 1 \in S
  <2>1. PICK f \in [0..k -> V] : f[0] = v /\ \A i \in 1..k : f[i] = g[i][f[i - 1]]
    BY <1>2 DEF IsChain
  <2> DEFINE h == [i \in 0..(k + 1) |-> IF i <= k THEN f[i] ELSE g[k + 1][f[k]]]
  <2>2. k \in Nat /\ k + 1 \in 1..n /\ k \in 0..k /\ k + 1 \in 0..n
    BY <1>2
  <2>3. g[k + 1][f[k]] \in V
    BY <2>1, <2>2
  <2>4. h \in [0..(k + 1) -> V]
    BY <2>1, <2>2, <2>3
  <2>5. h[0] = v
    BY <2>1, <2>2
  <2>6. ASSUME NEW i \in 1..(k + 1) PROVE h[i] = g[i][h[i - 1]]
    <3>1. CASE i = k + 1
      <4>1. h[i] = g[k + 1][f[k]] /\ h[k] = f[k] /\ i - 1 = k
        BY <2>2, <3>1
      <4> QED BY <3>1, <4>1
    <3>2. CASE i # k + 1
      <4>1. i \in 1..k /\ i - 1 \in 0..k /\ i \in 0..(k + 1) /\ i - 1 \in 0..(k + 1) /\ i <= k /\ i - 1 <= k
        BY <2>2, <3>2
      <4>2. h[i] = f[i] /\ h[i - 1] = f[i - 1]
        BY <4>1
      <4> HIDE DEF h
      <4> QED BY <2>1, <4>1, <4>2
    <3> QED BY <3>1, <3>2
  <2> HIDE DEF h
  <2>7. IsChain(h, k + 1, v, g)
    BY <2>5, <2>6 DEF IsChain
  <2> QED BY <2>2, <2>4, <2>7
<1> HIDE DEF S
<1>3. \A i \in 0..n : i \in S
  BY <1>1, <1>2, UpTo
<1>4. n \in S
  BY <1>3
<1> QED BY <1>4 DEF S

-----------------------------------------------------------------------------
\* Quotients by m and by 2 * m.

LEMMA QuotientIs ==
    ASSUME NEW n \in Nat, NEW m \in Nat \ {0}, NEW q \in Nat, m * q <= n, n < m * q + m
    PROVE  n \div m = q
<1>1. m * (q + 1) = m * q + m
  BY Z3
<1>2. n \div m \in Nat /\ q <= n \div m
  BY Division, Quotient
<1>3. n \div m < q + 1
  BY <1>1, Quotient, q + 1 \in Nat
<1> QED BY <1>2, <1>3

LEMMA DivTwo ==
    ASSUME NEW x \in Nat, NEW p \in Nat \ {0}
    PROVE  x \div (2 * p) = (x \div p) \div 2
<1>1. PICK q \in Nat, s \in Nat : q = x \div p /\ x = p * q + s /\ s < p
  BY Division
<1>2. PICK r \in Nat, b \in 0..1 : r = q \div 2 /\ q = 2 * r + b
  BY Division
<1>3. p * q = (2 * p) * r + p * b /\ (2 * p) * r \in Nat
  BY <1>1, <1>2, Z3
<1>4. p * b \in {0, p}
  BY <1>2
<1>5. (2 * p) * r <= x /\ x < (2 * p) * r + 2 * p
  BY <1>1, <1>3, <1>4
<1>6. x \div (2 * p) = r
  BY <1>5, QuotientIs, 2 * p \in Nat \ {0}
<1> QED BY <1>1, <1>2, <1>6

LEMMA MultipleDiv ==
    ASSUME NEW id \in Nat, NEW p \in Nat \ {0}, NEW j \in Nat, j < p
    PROVE  id * p + j \in Nat /\ (id * p + j) \div p = id
<1>1. id * p = p * id /\ p * id \in Nat
  BY Z3
<1> QED BY <1>1, QuotientIs

=============================================================================
