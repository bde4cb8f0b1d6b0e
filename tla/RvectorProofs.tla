--------------------------- MODULE RvectorProofs ---------------------------
(***************************************************************************)
(* Proofs about Rvector, for every width, word size, set of sizes, content *)
(* of memory and number of calls.                                          *)
(*                                                                         *)
(* IInv: storage has the cells its size asks for, and the padding of bit   *)
(* vectors is zero.  CInv adds what cells, buffers and the file hold: the  *)
(* packing kernels stay inside their arguments.  From CInv follows, one    *)
(* operation at a time, that every call that returns computes in the ring. *)
(* FileInv: the file is a prefix of what the save that last opened it      *)
(* writes, so that a load that returns brings back that save's vector.     *)
(***************************************************************************)
EXTENDS Rvector, NumberLemmas, SequenceTheorems, TLAPS

\* Storage d of a vector of size n: the right number of cells, zeroes after the last
\* element.
Stored(n, d) ==
    /\ n \in Nat /\ DOMAIN d = 0..(Cells(ell, n) - 1)
    /\ \A k \in DOMAIN d : k >= n => d[k] = 0

Objects ==
    /\ vec = [v \in Vec |-> [n |-> Size(v), data |-> Data(v)]]
    /\ \A v \in Vec : Stored(Size(v), Data(v))

\* The buffer of an RvectorPack.
Buffer ==
    /\ aux = [ell |-> aux.ell, n |-> aux.n, bytes |-> aux.bytes] /\ aux.n \in Nat
    /\ DOMAIN aux.bytes = 0..(BytesFor(aux.ell, aux.n) - 1)

IInv == ell \in Ells /\ Objects /\ Buffer

-----------------------------------------------------------------------------
\* Sizes

LEMMA CellsFacts ==
    ASSUME NEW e \in 1..8, NEW n \in Nat
    PROVE  /\ Cells(e, n) \in Nat /\ n <= Cells(e, n)
           /\ e # 1 => Cells(e, n) = n
           /\ e = 1 => /\ Cells(e, n) - WordBits <= n
                       /\ n % WordBits = 0 => Cells(e, n) = n
<1> DEFINE W == WordBits
           q == (n + W - 1) \div W
<1>1. W \in Nat \ {0} /\ n + W - 1 \in Nat
  BY WordAssumption
<1>2. q \in Nat /\ W * q <= n + W - 1 /\ n + W - 1 < W * q + W /\ W * q \in Nat
  BY <1>1, Division
<1>3. q * W = W * q
  BY <1>1, <1>2, Z3
<1>4. ASSUME n % W = 0 PROVE W * q = n
  <2> DEFINE t == n \div W
  <2>1. t \in Nat /\ n = W * t
    BY <1>1, <1>4, Division
  <2>2. t <= q
    BY <1>1, <2>1, Quotient
  <2>3. W * (t + 1) = W * t + W
    BY <1>1, <2>1, Z3
  <2>4. q < t + 1
    BY <1>1, <2>1, <2>3, Quotient, t + 1 \in Nat, n + W - 1 < W * (t + 1)
  <2>5. q = t
    BY <1>2, <2>1, <2>2, <2>4
  <2> QED BY <2>1, <2>5
<1>5. CASE e = 1
  <2>1. Cells(e, n) = W * q
    BY <1>3, <1>5 DEF Cells, WordsFor
  <2> HIDE DEF q
  <2> QED BY <1>1, <1>2, <1>4, <1>5, <2>1
<1>6. CASE e # 1
  BY <1>6 DEF Cells, WordsFor
<1> QED BY <1>5, <1>6

LEMMA Widths == ell \in Ells => ell \in 1..8 /\ SizesOf[ell] \subseteq Nat
  BY EllAssumption

\* What the constructors and the masking leave in storage.
LEMMA FreshIsStored ==
    ASSUME ell \in Ells, NEW n \in Nat, NEW m
    PROVE  Stored(n, Fresh(n, m))
<1> DEFINE d == Fresh(n, m)
<1>1. DOMAIN d = 0..(Cells(ell, n) - 1)
  BY DEF Fresh
<1>2. Cells(ell, n) \in Nat /\ WordBits \in Nat
  BY Widths, CellsFacts, WordAssumption
<1>3. ASSUME NEW k \in DOMAIN d, k >= n PROVE d[k] = 0
  <2>1. k \in Nat /\ k < Cells(ell, n)
    BY <1>1, <1>2
  <2>2. ell = 1 /\ n % WordBits # 0 /\ k >= Cells(ell, n) - WordBits
    <3> DEFINE c == Cells(ell, n)
    <3>1. /\ ell # 1 => c = n
          /\ ell = 1 => c - WordBits <= n /\ (n % WordBits = 0 => c = n)
      BY Widths, CellsFacts
    <3> HIDE DEF c
    <3>2. n \in Int /\ c \in Int /\ WordBits \in Int /\ k < c /\ k \in Int /\ k >= n
      BY <1>2, <1>3, <2>1 DEF c
    <3> QED BY <3>1, <3>2 DEF c
  <2> QED BY <1>1, <1>3, <2>2 DEF Fresh
<1> QED BY <1>1, <1>3 DEF Stored

LEMMA MaskedIsStored ==
    ASSUME NEW n \in Nat, NEW d, DOMAIN d = 0..(Cells(ell, n) - 1), ell \in Ells
    PROVE  Stored(n, MaskPartialLastWord(d, n))
<1>1. Cells(ell, n) \in Nat
  BY Widths, CellsFacts
<1> QED BY <1>1 DEF Stored, MaskPartialLastWord

LEMMA CanonicalIsStored ==
    ASSUME NEW n \in Nat, NEW d, DOMAIN d = 0..(Cells(ell, n) - 1), ell \in Ells
    PROVE  Stored(n, Canonical(d, n))
  BY MaskedIsStored DEF Canonical

-----------------------------------------------------------------------------
\* Objects after a call

LEMMA WriteKeeps ==
    ASSUME IInv, UNCHANGED ell, NEW o \in Vec, NEW d, Stored(Size(o), d), Write(o, d)
    PROVE  Objects'
<1>1. vec' = [vec EXCEPT ![o].data = d]
  BY DEF Write
<1>2. \A v \in Vec : vec'[v] = IF v = o THEN [n |-> Size(o), data |-> d] ELSE vec[v]
  BY <1>1 DEF IInv, Objects
<1>3. DOMAIN vec' = Vec /\ vec' = [v \in Vec |-> vec'[v]]
  BY <1>1 DEF IInv, Objects
<1>4. \A v \in Vec : vec'[v] = [n |-> vec'[v].n, data |-> vec'[v].data]
  BY <1>2 DEF IInv, Objects, Size, Data
<1>5. \A v \in Vec : Stored(vec'[v].n, vec'[v].data)
  BY <1>2 DEF IInv, Objects, Size, Data
<1> QED BY <1>3, <1>4, <1>5 DEF Objects, Stored, Size, Data

\* New objects instead of those of a set of names.
LEMMA ObjectsFrom ==
    ASSUME UNCHANGED ell, vec' = [v \in Vec |-> vec'[v]],
           \A v \in Vec : \E n, d : vec'[v] = [n |-> n, data |-> d] /\ Stored(n, d)
    PROVE  Objects'
<1>1. \A v \in Vec : vec'[v] = [n |-> vec'[v].n, data |-> vec'[v].data] /\ Stored(vec'[v].n, vec'[v].data)
  OBVIOUS
<1> QED BY <1>1 DEF Objects, Stored, Size, Data

LEMMA SameObjects ==
    ASSUME IInv, UNCHANGED <<ell, vec>>
    PROVE  Objects'
  BY DEF IInv, Objects, Stored, Size, Data

\* A call that computes a number, or throws before it writes.
LEMMA QuietKeeps == IInv /\ UNCHANGED <<ell, vec, aux>> => IInv'
  BY SameObjects DEF IInv, Buffer

\* A call that writes what fits.
LEMMA WritingKeeps ==
    ASSUME IInv, UNCHANGED <<ell, aux>>, NEW o \in Vec, NEW d, Stored(Size(o), d), Write(o, d)
    PROVE  IInv'
  BY WriteKeeps DEF IInv, Buffer

LEMMA SizesOfObjects ==
    ASSUME IInv, NEW v \in Vec
    PROVE  Size(v) \in Nat /\ DOMAIN Data(v) = 0..(Cells(ell, Size(v)) - 1) /\ Stored(Size(v), Data(v))
           /\ ell \in Ells /\ ell \in 1..8
  BY Widths DEF IInv, Objects, Stored

LEMMA IndexType ==
    ASSUME IInv, NEW v \in Vec, NEW k \in DOMAIN Data(v)
    PROVE  k \in Int /\ Size(v) \in Int
<1>1. Size(v) \in Nat /\ DOMAIN Data(v) = 0..(Cells(ell, Size(v)) - 1) /\ Cells(ell, Size(v)) \in Nat
  BY SizesOfObjects, CellsFacts
<1> QED BY <1>1

USE DEF Checked, Call, OthersStay

LEMMA ConstructKeeps ==
    ASSUME IInv, NEW o \in Vec, NEW n \in SizesOf[ell], NEW m, Construct(o, n, m)
    PROVE  IInv'
<1>1. UNCHANGED <<ell, aux>> /\ vec' = [vec EXCEPT ![o] = New(n, m)]
  BY DEF Construct
<1>2. n \in Nat /\ ell \in Ells
  BY Widths DEF IInv
<1>3. \A v \in Vec : vec'[v] = IF v = o THEN [n |-> n, data |-> Fresh(n, m)] ELSE vec[v]
  BY <1>1 DEF New, IInv, Objects
<1>4. vec' = [v \in Vec |-> vec'[v]]
  BY <1>1 DEF IInv, Objects
<1>5. \A v \in Vec : \E k, d : vec'[v] = [n |-> k, data |-> d] /\ Stored(k, d)
  BY <1>2, <1>3, FreshIsStored DEF IInv, Objects
<1> QED BY <1>1, <1>4, <1>5, ObjectsFrom DEF IInv, Buffer

LEMMA ConstructFilledKeeps ==
    ASSUME IInv, NEW o \in Vec, NEW n \in SizesOf[ell], NEW x, ConstructFilled(o, n, x)
    PROVE  IInv'
<1> DEFINE raw == [k \in 0..(Cells(ell, n) - 1) |-> x]
           d == MaskPartialLastWord(raw, n)
<1>1. n \in Nat /\ ell \in Ells
  BY Widths DEF IInv
<1>2. Stored(n, d)
  BY <1>1, MaskedIsStored
<1>3. /\ UNCHANGED <<ell, aux>>
      /\ vec' = [vec EXCEPT ![o] = [n |-> n, data |-> d]] \/ UNCHANGED vec
  BY DEF ConstructFilled
<1> HIDE DEF d
<1>4. CASE vec' = [vec EXCEPT ![o] = [n |-> n, data |-> d]]
  <2>1. \A v \in Vec : vec'[v] = IF v = o THEN [n |-> n, data |-> d] ELSE vec[v]
    BY <1>4 DEF IInv, Objects
  <2>2. vec' = [v \in Vec |-> vec'[v]]
    BY <1>4 DEF IInv, Objects
  <2>3. \A v \in Vec : \E k, e : vec'[v] = [n |-> k, data |-> e] /\ Stored(k, e)
    BY <1>2, <2>1 DEF IInv, Objects
  <2> QED BY <1>3, <2>2, <2>3, ObjectsFrom DEF IInv, Buffer
<1> QED BY <1>3, <1>4, QuietKeeps

LEMMA NothingIsStored ==
    ASSUME ell \in Ells
    PROVE  Stored(0, [k \in {} |-> 0])
<1>1. Cells(ell, 0) = 0
  <2>1. 0 % WordBits = 0
    BY WordAssumption, Z3
  <2> QED BY <2>1, Widths, CellsFacts, 0 \in Nat
<1> QED BY <1>1 DEF Stored

LEMMA CopyMoveKeeps ==
    ASSUME IInv, NEW a \in Vec, NEW o \in Vec, Copy(a, o) \/ Move(a, o)
    PROVE  IInv'
<1>1. /\ UNCHANGED <<ell, aux>>
      /\ \/ UNCHANGED vec
         \/ vec' = [vec EXCEPT ![o] = vec[a]]
         \/ vec' = [vec EXCEPT ![o] = vec[a], ![a] = Nothing]
  BY DEF Copy, Move
<1>2. Stored(0, [k \in {} |-> 0])
  BY NothingIsStored DEF IInv
<1>3. \A v \in Vec : vec'[v] = Nothing \/ \E u \in Vec : vec'[v] = vec[u]
  BY <1>1 DEF IInv, Objects
<1>4. vec' = [v \in Vec |-> vec'[v]]
  BY <1>1 DEF IInv, Objects
<1>5. \A v \in Vec : \E k, d : vec'[v] = [n |-> k, data |-> d] /\ Stored(k, d)
  BY <1>2, <1>3 DEF IInv, Objects, Nothing
<1> QED BY <1>1, <1>4, <1>5, ObjectsFrom DEF IInv, Buffer

LEMMA FillKeeps ==
    ASSUME IInv, NEW o \in Vec, NEW x, NEW m, NEW c,
           Fill(o, x) \/ RandFill(o, m) \/ FromBytes(o, m, c)
    PROVE  IInv'
<1> DEFINE F == [k \in DOMAIN Data(o) |-> x]
           G == [k \in DOMAIN Data(o) |-> m[k] % 2^ell]
           H == [k \in DOMAIN Data(o) |-> IF ell = 1 THEN m[k] % 2 ELSE m[k]]
<1>1. /\ UNCHANGED <<ell, aux>>
      /\ \/ UNCHANGED vec
         \/ Write(o, MaskPartialLastWord(F, Size(o)))
         \/ Write(o, MaskPartialLastWord(G, Size(o)))
         \/ Write(o, Canonical(H, Size(o)))
  BY DEF Fill, RandFill, FromBytes
<1>2. DOMAIN F = DOMAIN Data(o) /\ DOMAIN G = DOMAIN Data(o) /\ DOMAIN H = DOMAIN Data(o)
  OBVIOUS
<1> HIDE DEF F, G, H
<1>3. /\ Stored(Size(o), MaskPartialLastWord(F, Size(o)))
      /\ Stored(Size(o), MaskPartialLastWord(G, Size(o)))
      /\ Stored(Size(o), Canonical(H, Size(o)))
  BY <1>2, SizesOfObjects, MaskedIsStored, CanonicalIsStored
<1> QED BY <1>1, <1>3, QuietKeeps, WritingKeeps

\* Writing elements in front of the padding.
LEMMA ElementsAreStored ==
    ASSUME IInv, NEW o \in Vec, NEW d, DOMAIN d = DOMAIN Data(o),
           \A k \in DOMAIN d : k >= Size(o) => d[k] = Data(o)[k]
    PROVE  Stored(Size(o), d)
  BY SizesOfObjects DEF Stored

LEMMA SetKeeps ==
    ASSUME IInv, NEW o \in Vec, NEW i, i \in Int, NEW x, Set(o, i, x)
    PROVE  IInv'
<1> DEFINE d == [Data(o) EXCEPT ![i] = x]
<1>1. UNCHANGED <<ell, aux>> /\ (UNCHANGED vec \/ (i < Size(o) /\ Write(o, d)))
  BY DEF Set
<1>2. CASE i < Size(o)
  <2>1. DOMAIN d = DOMAIN Data(o) /\ \A k \in DOMAIN Data(o) : k # i => d[k] = Data(o)[k]
    OBVIOUS
  <2> HIDE DEF d
  <2>2. \A k \in DOMAIN d : k >= Size(o) => d[k] = Data(o)[k]
    <3> TAKE k \in DOMAIN d
    <3> HAVE k >= Size(o)
    <3>1. k \in Int /\ Size(o) \in Int
      BY <2>1, IndexType
    <3> QED BY <1>2, <2>1, <3>1
  <2> QED BY <1>1, <2>1, <2>2, ElementsAreStored, QuietKeeps, WritingKeeps
<1> QED BY <1>1, <1>2, QuietKeeps

\* The indices that batchSet and batchGet get to are in range.
LEMMA PrefixInRange ==
    ASSUME NEW idx \in IndexLists, NEW n \in Nat, NEW k \in Prefix(idx, n)
    PROVE  k \in 1..Len(idx) /\ idx[k] \in Nat /\ idx[k] < n /\ Len(idx) \in Nat
<1>1. idx \in Seq(Nat)
  BY IndexAssumption
<1>2. k \in 1..Len(idx) /\ idx[k] < n
  BY <1>1 DEF Prefix
<1> QED BY <1>1, <1>2

LEMMA BatchSetKeeps ==
    ASSUME IInv, NEW o \in Vec, NEW idx \in IndexLists, NEW x, BatchSet(o, idx, x)
    PROVE  IInv'
<1> DEFINE hit == {idx[k] : k \in Prefix(idx, Size(o))}
           d == [k \in DOMAIN Data(o) |-> IF k \in hit THEN x ELSE Data(o)[k]]
<1>1. UNCHANGED <<ell, aux>> /\ (UNCHANGED vec \/ Write(o, d))
  BY DEF BatchSet
<1>2. \A k \in hit : k \in Nat /\ k < Size(o)
  BY SizesOfObjects, PrefixInRange
<1> HIDE DEF hit
<1>3. DOMAIN d = DOMAIN Data(o) /\ \A k \in DOMAIN d : k \notin hit => d[k] = Data(o)[k]
  OBVIOUS
<1> HIDE DEF d
<1>4. \A k \in DOMAIN d : k >= Size(o) => d[k] = Data(o)[k]
  <2> TAKE k \in DOMAIN d
  <2> HAVE k >= Size(o)
  <2>1. k \in Int /\ Size(o) \in Int
    BY <1>3, IndexType
  <2>2. k \notin hit
    BY <1>2, <2>1
  <2> QED BY <1>3, <2>2
<1> QED BY <1>1, <1>3, <1>4, ElementsAreStored, QuietKeeps, WritingKeeps

LEMMA BatchGetKeeps ==
    ASSUME IInv, NEW a \in Vec, NEW o \in Vec, NEW idx \in IndexLists, BatchGet(a, idx, o)
    PROVE  IInv'
<1> DEFINE P == Prefix(idx, Size(a))
           d == [k \in DOMAIN Data(o) |->
                    IF k + 1 \in P THEN Data(a)[idx[k + 1]] % 2^ell ELSE Data(o)[k]]
<1>1. UNCHANGED <<ell, aux>> /\ (UNCHANGED vec \/ (~(Size(o) < Len(idx)) /\ Write(o, d)))
  BY DEF BatchGet
<1>2. \A j \in P : j \in 1..Len(idx) /\ Len(idx) \in Nat
  BY SizesOfObjects, PrefixInRange
<1> HIDE DEF P
<1>3. DOMAIN d = DOMAIN Data(o) /\ \A k \in DOMAIN d : k + 1 \notin P => d[k] = Data(o)[k]
  OBVIOUS
<1> HIDE DEF d
<1>4. ASSUME ~(Size(o) < Len(idx)), NEW k \in DOMAIN d, k >= Size(o) PROVE d[k] = Data(o)[k]
  <2>1. k \in Int /\ Size(o) \in Int
    BY <1>3, IndexType
  <2>2. k + 1 \notin P
    BY <1>2, <1>4, <2>1
  <2> QED BY <1>3, <2>2
<1> QED BY <1>1, <1>3, <1>4, ElementsAreStored, QuietKeeps, WritingKeeps

\* The loops of the arithmetic: cells computed from those of a, masked to the size of o.
LEMMA LoopKeeps ==
    ASSUME IInv, NEW a \in Vec, NEW o \in Vec, UNCHANGED <<ell, aux>>,
           NEW d, DOMAIN d = DOMAIN Data(a),
           UNCHANGED vec \/ (Size(a) = Size(o) /\ Write(o, MaskPartialLastWord(d, Size(o))))
    PROVE  IInv'
<1>1. CASE UNCHANGED vec
  BY <1>1, QuietKeeps
<1>2. CASE Size(a) = Size(o) /\ Write(o, MaskPartialLastWord(d, Size(o)))
  <2>1. DOMAIN d = 0..(Cells(ell, Size(o)) - 1) /\ Size(o) \in Nat /\ ell \in Ells
    BY <1>2, SizesOfObjects
  <2>2. Stored(Size(o), MaskPartialLastWord(d, Size(o)))
    BY <2>1, MaskedIsStored
  <2> QED BY <1>2, <2>2, WritingKeeps
<1> QED BY <1>1, <1>2

LEMMA ArithmeticKeeps ==
    ASSUME IInv, NEW a \in Vec, NEW b \in Vec, NEW o \in Vec,
           Add(a, b, o) \/ Sub(a, b, o) \/ Hadamard(a, b, o)
    PROVE  IInv'
<1>1. CASE Add(a, b, o)
  <2> DEFINE d == [k \in DOMAIN Data(a) |-> (Data(a)[k] + Data(b)[k]) % 2^ell]
  <2>1. /\ UNCHANGED <<ell, aux>>
        /\ UNCHANGED vec \/ (Size(a) = Size(o) /\ Write(o, MaskPartialLastWord(d, Size(o))))
    BY <1>1 DEF Add, Zip
  <2>2. DOMAIN d = DOMAIN Data(a)
    OBVIOUS
  <2> QED BY <2>1, <2>2, LoopKeeps
<1>2. CASE Sub(a, b, o)
  <2> DEFINE d == [k \in DOMAIN Data(a) |-> (Data(a)[k] - Data(b)[k]) % 2^ell]
  <2>1. /\ UNCHANGED <<ell, aux>>
        /\ UNCHANGED vec \/ (Size(a) = Size(o) /\ Write(o, MaskPartialLastWord(d, Size(o))))
    BY <1>2 DEF Sub, Zip
  <2>2. DOMAIN d = DOMAIN Data(a)
    OBVIOUS
  <2> QED BY <2>1, <2>2, LoopKeeps
<1>3. CASE Hadamard(a, b, o)
  <2> DEFINE d == [k \in DOMAIN Data(a) |-> (Data(a)[k] * Data(b)[k]) % 2^ell]
  <2>1. /\ UNCHANGED <<ell, aux>>
        /\ UNCHANGED vec \/ (Size(a) = Size(o) /\ Write(o, MaskPartialLastWord(d, Size(o))))
    BY <1>3 DEF Hadamard, Zip
  <2>2. DOMAIN d = DOMAIN Data(a)
    OBVIOUS
  <2> QED BY <2>1, <2>2, LoopKeeps
<1> QED BY <1>1, <1>2, <1>3

LEMMA ScalarArithmeticKeeps ==
    ASSUME IInv, NEW a \in Vec, NEW o \in Vec, NEW x,
           AddScalar(a, x, o) \/ SubScalar(a, x, o) \/ MulScalar(a, x, o)
    PROVE  IInv'
<1>1. CASE AddScalar(a, x, o)
  <2> DEFINE d == [k \in DOMAIN Data(a) |-> (Data(a)[k] + x) % 2^ell]
  <2>1. /\ UNCHANGED <<ell, aux>>
        /\ UNCHANGED vec \/ (Size(a) = Size(o) /\ Write(o, MaskPartialLastWord(d, Size(o))))
    BY <1>1 DEF AddScalar, Scale
  <2>2. DOMAIN d = DOMAIN Data(a)
    OBVIOUS
  <2> QED BY <2>1, <2>2, LoopKeeps
<1>2. CASE SubScalar(a, x, o)
  <2> DEFINE d == [k \in DOMAIN Data(a) |-> (Data(a)[k] - x) % 2^ell]
  <2>1. /\ UNCHANGED <<ell, aux>>
        /\ UNCHANGED vec \/ (Size(a) = Size(o) /\ Write(o, MaskPartialLastWord(d, Size(o))))
    BY <1>2 DEF SubScalar, Scale
  <2>2. DOMAIN d = DOMAIN Data(a)
    OBVIOUS
  <2> QED BY <2>1, <2>2, LoopKeeps
<1>3. CASE MulScalar(a, x, o)
  <2> DEFINE d == [k \in DOMAIN Data(a) |-> (Data(a)[k] * x) % 2^ell]
  <2>1. /\ UNCHANGED <<ell, aux>>
        /\ UNCHANGED vec \/ (Size(a) = Size(o) /\ Write(o, MaskPartialLastWord(d, Size(o))))
    BY <1>3 DEF MulScalar, Scale
  <2>2. DOMAIN d = DOMAIN Data(a)
    OBVIOUS
  <2> QED BY <2>1, <2>2, LoopKeeps
<1> QED BY <1>1, <1>2, <1>3

-----------------------------------------------------------------------------
\* Packing and files

LEMMA BytesForType ==
    ASSUME NEW e \in 1..8, NEW n \in Nat
    PROVE  e = 8 => BytesFor(e, n) = n /\ Cells(e, n) = n
  BY CellsFacts DEF BytesFor

LEMMA PackedDomain ==
    ASSUME IInv, NEW a \in Vec
    PROVE  DOMAIN Packed(ell, Data(a), Size(a)) = 0..(BytesFor(ell, Size(a)) - 1)
<1>1. CASE ell = 8
  BY <1>1, SizesOfObjects, BytesForType DEF Packed
<1>2. CASE ell # 8
  BY <1>2 DEF Packed, PackKernel
<1> QED BY <1>1, <1>2

LEMMA UnpackedDomain ==
    ASSUME IInv, NEW o \in Vec, Fits(o), NEW bytes, DOMAIN bytes = DOMAIN aux.bytes
    PROVE  Stored(Size(o), Canonical(Unpacked(ell, bytes, Size(o)), Size(o)))
<1>1. DOMAIN bytes = 0..(BytesFor(ell, Size(o)) - 1) /\ Size(o) \in Nat /\ ell \in 1..8 /\ ell \in Ells
  BY SizesOfObjects DEF IInv, Buffer, Fits
<1>2. DOMAIN Unpacked(ell, bytes, Size(o)) = 0..(Cells(ell, Size(o)) - 1)
  <2>1. CASE ell = 1
    BY <2>1 DEF Unpacked
  <2>2. CASE ell = 8
    BY <1>1, <2>2, BytesForType DEF Unpacked
  <2>3. CASE ell # 1 /\ ell # 8
    BY <1>1, <2>3, CellsFacts DEF Unpacked, UnpackKernel
  <2> QED BY <2>1, <2>2, <2>3
<1> HIDE DEF Unpacked
<1> QED BY <1>1, <1>2, CanonicalIsStored

LEMMA AuxWithIsBuffer ==
    ASSUME IInv, NEW a \in Vec, Fits(a), UNCHANGED ell, aux' = AuxWith(a)
    PROVE  Buffer'
<1> DEFINE p == Packed(ell, Data(a), Size(a))
<1>1. DOMAIN p = 0..(BytesFor(ell, Size(a)) - 1)
  BY PackedDomain
<1>2. aux' = [aux EXCEPT !.bytes = p]
  BY DEF AuxWith
<1> HIDE DEF p
<1>3. aux' = [ell |-> aux.ell, n |-> aux.n, bytes |-> p]
  BY <1>2 DEF IInv, Buffer
<1> QED BY <1>1, <1>3 DEF IInv, Buffer, Fits

LEMMA PackKeeps ==
    ASSUME IInv, NEW a \in Vec, PackRvec(a) \/ Save(a)
    PROVE  IInv'
<1>1. UNCHANGED <<ell, vec>> /\ ((Fits(a) /\ aux' = AuxWith(a)) \/ UNCHANGED aux)
  BY DEF PackRvec, Save, Call
<1>2. Objects'
  BY <1>1, SameObjects
<1> QED BY <1>1, <1>2, AuxWithIsBuffer DEF IInv, Buffer

LEMMA NewPackKeeps ==
    ASSUME IInv, NEW e \in Ells, NEW n \in SizesOf[ell], NewPack(e, n)
    PROVE  IInv'
<1>1. UNCHANGED <<ell, vec>> /\ aux' = EmptyPack(e, n) /\ n \in Nat
  BY Widths DEF NewPack, IInv
<1>2. Buffer'
  BY <1>1 DEF Buffer, EmptyPack
<1> QED BY <1>1, <1>2, SameObjects DEF IInv

LEMMA UnpackKeeps ==
    ASSUME IInv, NEW o \in Vec, UnpackRvec(o)
    PROVE  IInv'
<1>1. /\ UNCHANGED <<ell, aux>>
      /\ \/ UNCHANGED vec
         \/ Fits(o) /\ Write(o, Canonical(Unpacked(ell, aux.bytes, Size(o)), Size(o)))
  BY DEF UnpackRvec
<1> QED BY <1>1, UnpackedDomain, QuietKeeps, WritingKeeps

LEMMA LoadKeeps ==
    ASSUME IInv, NEW o \in Vec, Load(o)
    PROVE  IInv'
<1> DEFINE payload == SubSeq(file, 4, Len(file))
           bytes == [q \in DOMAIN aux.bytes |-> IF q < Len(payload) THEN payload[q + 1] ELSE aux.bytes[q]]
<1>1. /\ UNCHANGED ell
      /\ UNCHANGED aux \/ aux' = [aux EXCEPT !.bytes = bytes]
      /\ \/ UNCHANGED vec
         \/ Fits(o) /\ Write(o, Canonical(Unpacked(ell, bytes, Size(o)), Size(o)))
  BY DEF Load
<1>2. DOMAIN bytes = DOMAIN aux.bytes
  OBVIOUS
<1> HIDE DEF bytes
<1>3. Objects'
  BY <1>1, <1>2, UnpackedDomain, SameObjects, WriteKeeps
<1>4. Buffer'
  <2>1. CASE aux' = [aux EXCEPT !.bytes = bytes]
    <3>1. aux' = [ell |-> aux.ell, n |-> aux.n, bytes |-> bytes]
      BY <2>1 DEF IInv, Buffer
    <3> QED BY <1>2, <3>1 DEF IInv, Buffer
  <2> QED BY <1>1, <2>1 DEF IInv, Buffer
<1> QED BY <1>1, <1>3, <1>4 DEF IInv

LEMMA CrashKeeps ==
    ASSUME IInv, NEW a \in Vec, Crash(a)
    PROVE  IInv'
<1>1. PICK n \in SizesOf[ell], m \in Memory : vec' = [v \in Vec |-> New(n, m)] /\ aux' = EmptyPack(ell, n)
  BY DEF Crash
<1>2. UNCHANGED ell /\ aux' = EmptyPack(ell, n)
  BY <1>1 DEF Crash, Call
<1>3. n \in Nat /\ ell \in Ells
  BY Widths DEF IInv
<1>4. Buffer'
  BY <1>2, <1>3 DEF Buffer, EmptyPack
<1>5. \A v \in Vec : vec'[v] = [n |-> n, data |-> Fresh(n, m)]
  BY <1>1 DEF New
<1>6. Stored(n, Fresh(n, m))
  BY <1>3, FreshIsStored
<1>7. vec' = [v \in Vec |-> vec'[v]]
  BY <1>1
<1> QED BY <1>2, <1>3, <1>4, <1>5, <1>6, <1>7, ObjectsFrom DEF IInv

-----------------------------------------------------------------------------
\* All steps

LEMMA InitIInv == Init => IInv
<1> SUFFICES ASSUME Init PROVE IInv
  OBVIOUS
<1>1. PICK n \in SizesOf[ell] : vec \in [Vec -> {New(n, m) : m \in Memory}] /\ aux = EmptyPack(ell, n)
  BY DEF Init
<1>2. ell \in Ells /\ n \in Nat
  BY Widths DEF Init
<1>3. \A v \in Vec : \E m \in Memory : vec[v] = [n |-> n, data |-> Fresh(n, m)]
  BY <1>1 DEF New
<1>4. \A v \in Vec : vec[v] = [n |-> Size(v), data |-> Data(v)] /\ Stored(Size(v), Data(v))
  <2> TAKE v \in Vec
  <2>1. PICK m \in Memory : vec[v] = [n |-> n, data |-> Fresh(n, m)]
    BY <1>3
  <2>2. Size(v) = n /\ Data(v) = Fresh(n, m)
    BY <2>1 DEF Size, Data
  <2>3. Stored(n, Fresh(n, m))
    BY <1>2, FreshIsStored
  <2> QED BY <2>1, <2>2, <2>3
<1>5. vec = [v \in Vec |-> vec[v]]
  BY <1>1
<1> QED BY <1>1, <1>2, <1>4, <1>5 DEF IInv, Objects, Buffer, EmptyPack

LEMMA NextIInv == IInv /\ [Next]_vars => IInv'
<1> SUFFICES ASSUME IInv, [Next]_vars PROVE IInv'
  OBVIOUS
<1>1. \A i \in Index : i \in Int
  BY Widths DEF Index, IInv
<1>2. ASSUME NEW a \in Vec, NEW b \in Vec, NEW i,
             Get(a, i) \/ Dot(a, b) \/ Equal(a, b) \/ Reduce(a) \/ LoadFails(a)
      PROVE  IInv'
  BY <1>2, QuietKeeps DEF Get, Dot, Equal, Reduce, LoadFails, Call
<1>3. CASE UNCHANGED vars
  BY <1>3, QuietKeeps DEF vars
<1>4. CASE Next
  BY <1>1, <1>2, <1>4, ConstructKeeps, ConstructFilledKeeps, CopyMoveKeeps, FillKeeps, SetKeeps,
     BatchSetKeeps, BatchGetKeeps, ArithmeticKeeps, ScalarArithmeticKeeps, PackKeeps, NewPackKeeps,
     UnpackKeeps, LoadKeeps, CrashKeeps DEF Next
<1> QED BY <1>3, <1>4

\* Every operation, also one that throws or reads memory with any contents, leaves the
\* padding of bit vectors zero.
THEOREM PaddingStaysZero == Spec => []PaddingIsZero
<1>1. IInv => PaddingIsZero
  BY DEF IInv, Objects, Stored, PaddingIsZero
<1> QED BY <1>1, InitIInv, NextIInv, PTL DEF Spec

\* No operation changes the number of cells of a vector or the bytes of a buffer
\* without its size: indices below a size, and the words that the loops run over,
\* always exist.
THEOREM StorageMatchesSize ==
    Spec => [](/\ \A v \in Vec : DOMAIN Data(v) = 0..(Cells(ell, Size(v)) - 1)
               /\ DOMAIN aux.bytes = 0..(BytesFor(aux.ell, aux.n) - 1))
<1>1. IInv => /\ \A v \in Vec : DOMAIN Data(v) = 0..(Cells(ell, Size(v)) - 1)
              /\ DOMAIN aux.bytes = 0..(BytesFor(aux.ell, aux.n) - 1)
  BY DEF IInv, Objects, Stored, Buffer
<1> QED BY <1>1, InitIInv, NextIInv, PTL DEF Spec

-----------------------------------------------------------------------------
\* Sums of bits.

\* Total takes the values one after the other.
LEMMA TotalIsSum ==
    ASSUME NEW n \in Nat, NEW f, DOMAIN f \in SUBSET (0..n)
    PROVE  \E g : IsSum(g, f, DOMAIN f) /\ Total(f) = g[DOMAIN f]
<1> DEFINE S == DOMAIN f
           F(g, s) == IF s = {} THEN 0 ELSE f[CHOOSE x \in s : TRUE] + g[s \ {CHOOSE x \in s : TRUE}]
           iter == CHOOSE g : g = [s \in SUBSET S |-> F(g, s)]
<1>1. PICK h : h = [s \in SUBSET S |-> F(h, s)]
  <2>1. PICK h : IsSum(h, f, S)
    BY SumsWithin
  <2> QED BY <2>1, Zenon DEF IsSum
<1>2. iter = [s \in SUBSET S |-> F(iter, s)]
  <2> HIDE DEF F, S
  <2> QED BY <1>1, Zenon
<1>3. Total(f) = iter[S]
  BY Zenon DEF Total, MapThenSumSet, MapThenFoldSet
<1> HIDE DEF iter
<1>4. IsSum(iter, f, S)
  BY <1>2 DEF IsSum
<1> QED BY <1>3, <1>4

\* The weight of a set of bits.
Weight(s) ==
    LET bit(b, w) == IF b \in s THEN w ELSE 0
    IN  bit(0, 1) + bit(1, 2) + bit(2, 4) + bit(3, 8) + bit(4, 16) + bit(5, 32) + bit(6, 64) + bit(7, 128)

LEMMA BitWeights ==
    ASSUME NEW x \in 0..8
    PROVE  2^x \in Nat \ {0}
<1>1. CASE x = 0
  <2>1. 2^x = 1
    BY <1>1
  <2> QED BY <2>1
<1>2. CASE x # 0
  <2>1. x \in 1..8
    BY <1>2
  <2> QED BY <2>1, PowersOfTwo
<1> QED BY <1>1, <1>2

LEMMA WeightOf ==
    ASSUME NEW s \in SUBSET (0..7), NEW x \in s
    PROVE  Weight(s) = Weight(s \ {x}) + 2^x /\ Weight(s) \in Nat
<1>1. CASE x = 0
  <2>1. 2^x = 1
    BY <1>1
  <2> QED BY <1>1, <2>1 DEF Weight
<1>2. CASE x = 1
  <2>1. 2^x = 2
    BY <1>2
  <2> QED BY <1>2, <2>1 DEF Weight
<1>3. CASE x = 2
  <2>1. 2^x = 4
    BY <1>3
  <2> QED BY <1>3, <2>1 DEF Weight
<1>4. CASE x = 3
  <2>1. 2^x = 8
    BY <1>4
  <2> QED BY <1>4, <2>1 DEF Weight
<1>5. CASE x = 4
  <2>1. 2^x = 16
    BY <1>5
  <2> QED BY <1>5, <2>1 DEF Weight
<1>6. CASE x = 5
  <2>1. 2^x = 32
    BY <1>6
  <2> QED BY <1>6, <2>1 DEF Weight
<1>7. CASE x = 6
  <2>1. 2^x = 64
    BY <1>7
  <2> QED BY <1>7, <2>1 DEF Weight
<1>8. CASE x = 7
  <2>1. 2^x = 128
    BY <1>8
  <2> QED BY <1>8, <2>1 DEF Weight
<1> QED BY <1>1, <1>2, <1>3, <1>4, <1>5, <1>6, <1>7, <1>8

\* The indices of the bits that are set.
Ones(bits) == {b \in DOMAIN bits : bits[b] = 1}

LEMMA WeightOfBits ==
    ASSUME NEW n \in 0..7, NEW bits, DOMAIN bits = 0..n, \A b \in 0..n : bits[b] \in {0, 1}
    PROVE  FromBits(bits) = Weight(Ones(bits))
<1> DEFINE f == [b \in 0..n |-> bits[b] * 2^b]
<1>1. DOMAIN f = 0..n
  OBVIOUS
<1>2. \A b \in 0..n : f[b] = IF bits[b] = 1 THEN 2^b ELSE 0
  <2> TAKE b \in 0..n
  <2>1. PICK m \in Nat \ {0} : m = 2^b
    BY BitWeights, b \in 0..8
  <2>2. PICK c \in {0, 1} : c = bits[b]
    OBVIOUS
  <2>3. f[b] = c * m
    BY <2>1, <2>2
  <2>4. c * m = IF c = 1 THEN m ELSE 0
    BY <2>1, <2>2
  <2> QED BY <2>1, <2>2, <2>3, <2>4
<1>3. FromBits(bits) = Total(f)
  BY DEF FromBits
<1> HIDE DEF f
<1>4. PICK g : IsSum(g, f, 0..n) /\ Total(f) = g[0..n]
  BY <1>1, TotalIsSum, n \in Nat
<1> DEFINE Mem(s) == {b \in s : bits[b] = 1}
           Bad(s) == g[s] # Weight(Mem(s))
           T == {j \in 0..(n + 1) : \E s \in SUBSET (0..n) : Cardinality(s) = j /\ Bad(s)}
<1>0. n + 1 \in Nat /\ T \in SUBSET (0..(n + 1))
  OBVIOUS
<1>5. ASSUME T # {} PROVE FALSE
  <2>1. PICK j \in T : \A i \in T : j <= i
    <3> HIDE DEF T
    <3> QED BY <1>0, <1>5, Extremes
  <2>2. PICK s \in SUBSET (0..n) : Cardinality(s) = j /\ Bad(s)
    BY <2>1
  <2> HIDE DEF T
  <2>3. s # {}
    <3>1. g[{}] = 0 /\ Weight({}) = 0
      BY <1>4 DEF IsSum, Weight
    <3>2. ASSUME s = {} PROVE Mem(s) = {}
      BY <3>2
    <3> QED BY <2>2, <3>1, <3>2
  <2>4. PICK x : x = CHOOSE y \in s : TRUE
    OBVIOUS
  <2>5. x \in s /\ x \in 0..n /\ Cardinality(s \ {x}) = j - 1 /\ j \in 0..(n + 1) /\ j # 0
    BY <2>2, <2>3, <2>4, SmallerSet, n \in Nat
  <2>6. g[s] = f[x] + g[s \ {x}]
    BY <1>4, <2>3, <2>4 DEF IsSum
  <2>7. g[s \ {x}] = Weight(Mem(s \ {x}))
    BY <2>1, <2>5, s \ {x} \in SUBSET (0..n), j - 1 \in 0..(n + 1), ~(j <= j - 1) DEF T
  <2>8. Weight(Mem(s \ {x})) \in Int
    BY DEF Weight
  <2>9. CASE bits[x] = 1
    <3>1. x \in Mem(s) /\ Mem(s) \in SUBSET (0..7) /\ Mem(s \ {x}) = Mem(s) \ {x}
      <4>1. 0..n \subseteq 0..7
        OBVIOUS
      <4> QED BY <2>2, <2>5, <2>9, <4>1
    <3>2. Weight(Mem(s)) = Weight(Mem(s) \ {x}) + 2^x
      <4> HIDE DEF Mem
      <4> QED BY <3>1, WeightOf
    <3>3. PICK p \in Nat : p = 2^x /\ f[x] = p
      BY <1>2, <2>5, <2>9, BitWeights, x \in 0..8
    <3>4. g[s] = p + Weight(Mem(s \ {x}))
      BY <2>6, <2>7, <3>3
    <3>5. Weight(Mem(s)) = Weight(Mem(s \ {x})) + p
      BY <3>1, <3>2, <3>3, Zenon
    <3>6. g[s] # Weight(Mem(s))
      BY <2>2
    <3> HIDE DEF Mem
    <3> QED BY <2>8, <3>3, <3>4, <3>5, <3>6
  <2>10. CASE bits[x] # 1
    <3>1. Mem(s \ {x}) = Mem(s) /\ f[x] = 0
      BY <1>2, <2>5, <2>10
    <3> HIDE DEF Mem
    <3> QED BY <2>2, <2>6, <2>7, <2>8, <3>1
  <2> QED BY <2>9, <2>10
<1>6. Cardinality(0..n) \in 0..(n + 1) /\ 0..n \in SUBSET (0..n)
  BY SmallerSet, n \in Nat
<1>7. ~Bad(0..n)
  <2> HIDE DEF Bad
  <2> QED BY <1>5, <1>6
<1> QED BY <1>3, <1>4, <1>7 DEF Ones

LEMMA BitType ==
    ASSUME NEW x \in Int, NEW k \in 0..7
    PROVE  Bit(x, k) \in {0, 1}
<1>1. PICK m \in Nat \ {0} : m = 2^k
  BY BitWeights, k \in 0..8
<1>2. x \div m \in Int
  BY Z3
<1>3. (x \div m) % 2 \in {0, 1}
  BY <1>2
<1> QED BY <1>1, <1>3 DEF Bit

LEMMA WeightRange == \A s : Weight(s) \in 0..255
  BY DEF Weight

\* The bits of s, moved by k positions.
Down(s, k) == {b \in 0..7 : b + k \in s}
Up(s, k) == {b \in 0..7 : b - k \in s}

\* Bits from position k on.
LEMMA WeightDiv ==
    ASSUME NEW s \in SUBSET (0..7), NEW k \in 0..7
    PROVE  Weight(s) \div 2^k = Weight(Down(s, k))
<1> DEFINE a(b) == IF b \in s THEN 1 ELSE 0
<1>0. \A b \in 0..7 : a(b) \in {0, 1}
  OBVIOUS
<1>00. Weight(s) = a(0) + 2 * a(1) + 4 * a(2) + 8 * a(3) + 16 * a(4) + 32 * a(5) + 64 * a(6) + 128 * a(7)
  BY DEF Weight
<1>1. CASE k = 0
  <2>1. 2^k = 1
    BY <1>1
  <2>2. Weight(Down(s, 0)) = a(0) + 2 * a(1) + 4 * a(2) + 8 * a(3) + 16 * a(4) + 32 * a(5) + 64 * a(6) + 128 * a(7)
    BY DEF Weight, Down
  <2>3. (a(0) + 2 * a(1) + 4 * a(2) + 8 * a(3) + 16 * a(4) + 32 * a(5) + 64 * a(6) + 128 * a(7)) \div 1
        = a(0) + 2 * a(1) + 4 * a(2) + 8 * a(3) + 16 * a(4) + 32 * a(5) + 64 * a(6) + 128 * a(7)
    <3> HIDE DEF a
    <3> QED BY <1>0
  <2>4. Weight(s) \div 1 = Weight(Down(s, 0))
    <3> HIDE DEF a
    <3> QED BY <1>00, <2>2, <2>3
  <2> QED BY <1>1, <2>1, <2>4
<1>2. CASE k = 1
  <2>1. 2^k = 2
    BY <1>2
  <2>2. Weight(Down(s, 1)) = a(1) + 2 * a(2) + 4 * a(3) + 8 * a(4) + 16 * a(5) + 32 * a(6) + 64 * a(7)
    BY DEF Weight, Down
  <2>3. (a(0) + 2 * a(1) + 4 * a(2) + 8 * a(3) + 16 * a(4) + 32 * a(5) + 64 * a(6) + 128 * a(7)) \div 2
        = a(1) + 2 * a(2) + 4 * a(3) + 8 * a(4) + 16 * a(5) + 32 * a(6) + 64 * a(7)
    <3> HIDE DEF a
    <3> QED BY <1>0
  <2>4. Weight(s) \div 2 = Weight(Down(s, 1))
    <3> HIDE DEF a
    <3> QED BY <1>00, <2>2, <2>3
  <2> QED BY <1>2, <2>1, <2>4
<1>3. CASE k = 2
  <2>1. 2^k = 4
    BY <1>3
  <2>2. Weight(Down(s, 2)) = a(2) + 2 * a(3) + 4 * a(4) + 8 * a(5) + 16 * a(6) + 32 * a(7)
    BY DEF Weight, Down
  <2>3. (a(0) + 2 * a(1) + 4 * a(2) + 8 * a(3) + 16 * a(4) + 32 * a(5) + 64 * a(6) + 128 * a(7)) \div 4
        = a(2) + 2 * a(3) + 4 * a(4) + 8 * a(5) + 16 * a(6) + 32 * a(7)
    <3> HIDE DEF a
    <3> QED BY <1>0
  <2>4. Weight(s) \div 4 = Weight(Down(s, 2))
    <3> HIDE DEF a
    <3> QED BY <1>00, <2>2, <2>3
  <2> QED BY <1>3, <2>1, <2>4
<1>4. CASE k = 3
  <2>1. 2^k = 8
    BY <1>4
  <2>2. Weight(Down(s, 3)) = a(3) + 2 * a(4) + 4 * a(5) + 8 * a(6) + 16 * a(7)
    BY DEF Weight, Down
  <2>3. (a(0) + 2 * a(1) + 4 * a(2) + 8 * a(3) + 16 * a(4) + 32 * a(5) + 64 * a(6) + 128 * a(7)) \div 8
        = a(3) + 2 * a(4) + 4 * a(5) + 8 * a(6) + 16 * a(7)
    <3> HIDE DEF a
    <3> QED BY <1>0
  <2>4. Weight(s) \div 8 = Weight(Down(s, 3))
    <3> HIDE DEF a
    <3> QED BY <1>00, <2>2, <2>3
  <2> QED BY <1>4, <2>1, <2>4
<1>5. CASE k = 4
  <2>1. 2^k = 16
    BY <1>5
  <2>2. Weight(Down(s, 4)) = a(4) + 2 * a(5) + 4 * a(6) + 8 * a(7)
    BY DEF Weight, Down
  <2>3. (a(0) + 2 * a(1) + 4 * a(2) + 8 * a(3) + 16 * a(4) + 32 * a(5) + 64 * a(6) + 128 * a(7)) \div 16
        = a(4) + 2 * a(5) + 4 * a(6) + 8 * a(7)
    <3> HIDE DEF a
    <3> QED BY <1>0
  <2>4. Weight(s) \div 16 = Weight(Down(s, 4))
    <3> HIDE DEF a
    <3> QED BY <1>00, <2>2, <2>3
  <2> QED BY <1>5, <2>1, <2>4
<1>6. CASE k = 5
  <2>1. 2^k = 32
    BY <1>6
  <2>2. Weight(Down(s, 5)) = a(5) + 2 * a(6) + 4 * a(7)
    BY DEF Weight, Down
  <2>3. (a(0) + 2 * a(1) + 4 * a(2) + 8 * a(3) + 16 * a(4) + 32 * a(5) + 64 * a(6) + 128 * a(7)) \div 32
        = a(5) + 2 * a(6) + 4 * a(7)
    <3> HIDE DEF a
    <3> QED BY <1>0
  <2>4. Weight(s) \div 32 = Weight(Down(s, 5))
    <3> HIDE DEF a
    <3> QED BY <1>00, <2>2, <2>3
  <2> QED BY <1>6, <2>1, <2>4
<1>7. CASE k = 6
  <2>1. 2^k = 64
    BY <1>7
  <2>2. Weight(Down(s, 6)) = a(6) + 2 * a(7)
    BY DEF Weight, Down
  <2>3. (a(0) + 2 * a(1) + 4 * a(2) + 8 * a(3) + 16 * a(4) + 32 * a(5) + 64 * a(6) + 128 * a(7)) \div 64
        = a(6) + 2 * a(7)
    <3> HIDE DEF a
    <3> QED BY <1>0
  <2>4. Weight(s) \div 64 = Weight(Down(s, 6))
    <3> HIDE DEF a
    <3> QED BY <1>00, <2>2, <2>3
  <2> QED BY <1>7, <2>1, <2>4
<1>8. CASE k = 7
  <2>1. 2^k = 128
    BY <1>8
  <2>2. Weight(Down(s, 7)) = a(7)
    BY DEF Weight, Down
  <2>3. (a(0) + 2 * a(1) + 4 * a(2) + 8 * a(3) + 16 * a(4) + 32 * a(5) + 64 * a(6) + 128 * a(7)) \div 128
        = a(7)
    <3> HIDE DEF a
    <3> QED BY <1>0
  <2>4. Weight(s) \div 128 = Weight(Down(s, 7))
    <3> HIDE DEF a
    <3> QED BY <1>00, <2>2, <2>3
  <2> QED BY <1>8, <2>1, <2>4
<1> QED BY <1>1, <1>2, <1>3, <1>4, <1>5, <1>6, <1>7, <1>8
\* A number written with its bits.
LEMMA ByteAsWeight ==
    ASSUME NEW x \in Byte
    PROVE  x = Weight({b \in 0..7 : Bit(x, b) = 1})
<1>1. /\ 2^0 = 1 /\ 2^1 = 2 /\ 2^2 = 4 /\ 2^3 = 8 /\ 2^4 = 16 /\ 2^5 = 32 /\ 2^6 = 64 /\ 2^7 = 128
  OBVIOUS
<1> DEFINE S == {b \in 0..7 : Bit(x, b) = 1}
           y(b) == x \div 2^b
<1>2. x \in 0..255
  BY DEF Byte
<1>3. /\ x = y(0) /\ y(0) = 2 * y(1) + (y(0) % 2) /\ y(1) = 2 * y(2) + (y(1) % 2)
      /\ y(2) = 2 * y(3) + (y(2) % 2) /\ y(3) = 2 * y(4) + (y(3) % 2)
      /\ y(4) = 2 * y(5) + (y(4) % 2) /\ y(5) = 2 * y(6) + (y(5) % 2)
      /\ y(6) = 2 * y(7) + (y(6) % 2) /\ y(7) = y(7) % 2
  BY <1>1, <1>2
<1>4. \A b \in 0..7 : y(b) % 2 \in {0, 1} /\ (b \in S <=> y(b) % 2 = 1)
  BY <1>1, <1>2, BitType DEF Bit
<1>5. Weight(S) = (y(0) % 2) + 2 * (y(1) % 2) + 4 * (y(2) % 2) + 8 * (y(3) % 2) + 16 * (y(4) % 2)
                  + 32 * (y(5) % 2) + 64 * (y(6) % 2) + 128 * (y(7) % 2)
  <2>1. PICK c \in [0..7 -> {0, 1}] : \A b \in 0..7 : c[b] = y(b) % 2 /\ (b \in S <=> c[b] = 1)
    <3> HIDE DEF S
    <3>1. \A b \in 0..7 : [j \in 0..7 |-> y(j) % 2][b] = y(b) % 2
      OBVIOUS
    <3>2. [j \in 0..7 |-> y(j) % 2] \in [0..7 -> {0, 1}]
      BY <1>4
    <3> HIDE DEF y
    <3> QED BY <1>4, <3>1, <3>2
  <2> HIDE DEF S, y
  <2>2. Weight(S) = c[0] + 2 * c[1] + 4 * c[2] + 8 * c[3] + 16 * c[4] + 32 * c[5] + 64 * c[6] + 128 * c[7]
    BY <2>1 DEF Weight
  <2> QED BY <2>1, <2>2
<1> HIDE DEF S
<1>6. x = Weight(S)
  <2>1. /\ y(0) \in Int /\ y(1) \in Int /\ y(2) \in Int /\ y(3) \in Int
        /\ y(4) \in Int /\ y(5) \in Int /\ y(6) \in Int /\ y(7) \in Int
    BY <1>1, <1>2
  <2>2. PICK y0 \in Int, y1 \in Int, y2 \in Int, y3 \in Int, y4 \in Int, y5 \in Int, y6 \in Int, y7 \in Int :
            y0 = y(0) /\ y1 = y(1) /\ y2 = y(2) /\ y3 = y(3) /\ y4 = y(4) /\ y5 = y(5) /\ y6 = y(6) /\ y7 = y(7)
    <3> HIDE DEF y
    <3> QED BY <2>1
  <2> HIDE DEF y
  <2>3. Weight(S) = (y0 % 2) + 2 * (y1 % 2) + 4 * (y2 % 2) + 8 * (y3 % 2) + 16 * (y4 % 2)
                    + 32 * (y5 % 2) + 64 * (y6 % 2) + 128 * (y7 % 2)
    BY <1>5, <2>2
  <2>4. /\ x = y0 /\ y0 = 2 * y1 + (y0 % 2) /\ y1 = 2 * y2 + (y1 % 2)
        /\ y2 = 2 * y3 + (y2 % 2) /\ y3 = 2 * y4 + (y3 % 2)
        /\ y4 = 2 * y5 + (y4 % 2) /\ y5 = 2 * y6 + (y5 % 2)
        /\ y6 = 2 * y7 + (y6 % 2) /\ y7 = y7 % 2
    BY <1>3, <2>2
  <2> QED BY <2>3, <2>4
<1> QED BY <1>6 DEF S

\* Bits below e, whatever is above them.
LEMMA WeightMod ==
    ASSUME NEW s, NEW e \in 1..8, NEW z \in Nat
    PROVE  (Weight(s) + 256 * z) % 2^e = Weight(s \cap 0..(e - 1))
<1> DEFINE a(b) == IF b \in s THEN 1 ELSE 0
<1>0. \A b \in 0..7 : a(b) \in {0, 1}
  OBVIOUS
<1>00. Weight(s) = a(0) + 2 * a(1) + 4 * a(2) + 8 * a(3) + 16 * a(4) + 32 * a(5) + 64 * a(6) + 128 * a(7)
  BY DEF Weight
<1>1. CASE e = 1
  <2>1. 2^e = 2 /\ e - 1 = 0
    BY <1>1
  <2>2. Weight(s \cap 0..0) = a(0)
    BY DEF Weight
  <2>3. (a(0) + 2 * a(1) + 4 * a(2) + 8 * a(3) + 16 * a(4) + 32 * a(5) + 64 * a(6) + 128 * a(7) + 256 * z) % 2
        = a(0)
    <3> HIDE DEF a
    <3> QED BY <1>0
  <2>4. (Weight(s) + 256 * z) % 2 = Weight(s \cap 0..0)
    <3> HIDE DEF a
    <3> QED BY <1>00, <2>2, <2>3
  <2> QED BY <1>1, <2>1, <2>4
<1>2. CASE e = 2
  <2>1. 2^e = 4 /\ e - 1 = 1
    BY <1>2
  <2>2. Weight(s \cap 0..1) = a(0) + 2 * a(1)
    BY DEF Weight
  <2>3. (a(0) + 2 * a(1) + 4 * a(2) + 8 * a(3) + 16 * a(4) + 32 * a(5) + 64 * a(6) + 128 * a(7) + 256 * z) % 4
        = a(0) + 2 * a(1)
    <3> HIDE DEF a
    <3> QED BY <1>0
  <2>4. (Weight(s) + 256 * z) % 4 = Weight(s \cap 0..1)
    <3> HIDE DEF a
    <3> QED BY <1>00, <2>2, <2>3
  <2> QED BY <1>2, <2>1, <2>4
<1>3. CASE e = 3
  <2>1. 2^e = 8 /\ e - 1 = 2
    BY <1>3
  <2>2. Weight(s \cap 0..2) = a(0) + 2 * a(1) + 4 * a(2)
    BY DEF Weight
  <2>3. (a(0) + 2 * a(1) + 4 * a(2) + 8 * a(3) + 16 * a(4) + 32 * a(5) + 64 * a(6) + 128 * a(7) + 256 * z) % 8
        = a(0) + 2 * a(1) + 4 * a(2)
    <3> HIDE DEF a
    <3> QED BY <1>0
  <2>4. (Weight(s) + 256 * z) % 8 = Weight(s \cap 0..2)
    <3> HIDE DEF a
    <3> QED BY <1>00, <2>2, <2>3
  <2> QED BY <1>3, <2>1, <2>4
<1>4. CASE e = 4
  <2>1. 2^e = 16 /\ e - 1 = 3
    BY <1>4
  <2>2. Weight(s \cap 0..3) = a(0) + 2 * a(1) + 4 * a(2) + 8 * a(3)
    BY DEF Weight
  <2>3. (a(0) + 2 * a(1) + 4 * a(2) + 8 * a(3) + 16 * a(4) + 32 * a(5) + 64 * a(6) + 128 * a(7) + 256 * z) % 16
        = a(0) + 2 * a(1) + 4 * a(2) + 8 * a(3)
    <3> HIDE DEF a
    <3> QED BY <1>0
  <2>4. (Weight(s) + 256 * z) % 16 = Weight(s \cap 0..3)
    <3> HIDE DEF a
    <3> QED BY <1>00, <2>2, <2>3
  <2> QED BY <1>4, <2>1, <2>4
<1>5. CASE e = 5
  <2>1. 2^e = 32 /\ e - 1 = 4
    BY <1>5
  <2>2. Weight(s \cap 0..4) = a(0) + 2 * a(1) + 4 * a(2) + 8 * a(3) + 16 * a(4)
    BY DEF Weight
  <2>3. (a(0) + 2 * a(1) + 4 * a(2) + 8 * a(3) + 16 * a(4) + 32 * a(5) + 64 * a(6) + 128 * a(7) + 256 * z) % 32
        = a(0) + 2 * a(1) + 4 * a(2) + 8 * a(3) + 16 * a(4)
    <3> HIDE DEF a
    <3> QED BY <1>0
  <2>4. (Weight(s) + 256 * z) % 32 = Weight(s \cap 0..4)
    <3> HIDE DEF a
    <3> QED BY <1>00, <2>2, <2>3
  <2> QED BY <1>5, <2>1, <2>4
<1>6. CASE e = 6
  <2>1. 2^e = 64 /\ e - 1 = 5
    BY <1>6
  <2>2. Weight(s \cap 0..5) = a(0) + 2 * a(1) + 4 * a(2) + 8 * a(3) + 16 * a(4) + 32 * a(5)
    BY DEF Weight
  <2>3. (a(0) + 2 * a(1) + 4 * a(2) + 8 * a(3) + 16 * a(4) + 32 * a(5) + 64 * a(6) + 128 * a(7) + 256 * z) % 64
        = a(0) + 2 * a(1) + 4 * a(2) + 8 * a(3) + 16 * a(4) + 32 * a(5)
    <3> HIDE DEF a
    <3> QED BY <1>0
  <2>4. (Weight(s) + 256 * z) % 64 = Weight(s \cap 0..5)
    <3> HIDE DEF a
    <3> QED BY <1>00, <2>2, <2>3
  <2> QED BY <1>6, <2>1, <2>4
<1>7. CASE e = 7
  <2>1. 2^e = 128 /\ e - 1 = 6
    BY <1>7
  <2>2. Weight(s \cap 0..6) = a(0) + 2 * a(1) + 4 * a(2) + 8 * a(3) + 16 * a(4) + 32 * a(5) + 64 * a(6)
    BY DEF Weight
  <2>3. (a(0) + 2 * a(1) + 4 * a(2) + 8 * a(3) + 16 * a(4) + 32 * a(5) + 64 * a(6) + 128 * a(7) + 256 * z) % 128
        = a(0) + 2 * a(1) + 4 * a(2) + 8 * a(3) + 16 * a(4) + 32 * a(5) + 64 * a(6)
    <3> HIDE DEF a
    <3> QED BY <1>0
  <2>4. (Weight(s) + 256 * z) % 128 = Weight(s \cap 0..6)
    <3> HIDE DEF a
    <3> QED BY <1>00, <2>2, <2>3
  <2> QED BY <1>7, <2>1, <2>4
<1>8. CASE e = 8
  <2>1. 2^e = 256 /\ e - 1 = 7
    BY <1>8
  <2>2. Weight(s \cap 0..7) = a(0) + 2 * a(1) + 4 * a(2) + 8 * a(3) + 16 * a(4) + 32 * a(5) + 64 * a(6) + 128 * a(7)
    BY DEF Weight
  <2>3. (a(0) + 2 * a(1) + 4 * a(2) + 8 * a(3) + 16 * a(4) + 32 * a(5) + 64 * a(6) + 128 * a(7) + 256 * z) % 256
        = a(0) + 2 * a(1) + 4 * a(2) + 8 * a(3) + 16 * a(4) + 32 * a(5) + 64 * a(6) + 128 * a(7)
    <3> HIDE DEF a
    <3> QED BY <1>0
  <2>4. (Weight(s) + 256 * z) % 256 = Weight(s \cap 0..7)
    <3> HIDE DEF a
    <3> QED BY <1>00, <2>2, <2>3
  <2> QED BY <1>8, <2>1, <2>4
<1> QED BY <1>1, <1>2, <1>3, <1>4, <1>5, <1>6, <1>7, <1>8
\* The lowest bits, after moving them up by k.
LEMMA WeightTimes ==
    ASSUME NEW s \in SUBSET (0..7), NEW k \in 0..7
    PROVE  \A e \in 1..8 : (Weight(s) * 2^k) % 2^e = Weight(Up(s, k) \cap 0..(e - 1))
<1> DEFINE a(b) == IF b \in s THEN 1 ELSE 0
<1>0. PICK c0 \in {0, 1}, c1 \in {0, 1}, c2 \in {0, 1}, c3 \in {0, 1},
           c4 \in {0, 1}, c5 \in {0, 1}, c6 \in {0, 1}, c7 \in {0, 1} :
          /\ c0 = a(0) /\ c1 = a(1) /\ c2 = a(2) /\ c3 = a(3)
          /\ c4 = a(4) /\ c5 = a(5) /\ c6 = a(6) /\ c7 = a(7)
  <2>1. \A b : a(b) \in {0, 1}
    OBVIOUS
  <2> HIDE DEF a
  <2> QED BY <2>1
<1>01. /\ (0 \in s <=> c0 = 1) /\ (1 \in s <=> c1 = 1) /\ (2 \in s <=> c2 = 1) /\ (3 \in s <=> c3 = 1)
       /\ (4 \in s <=> c4 = 1) /\ (5 \in s <=> c5 = 1) /\ (6 \in s <=> c6 = 1) /\ (7 \in s <=> c7 = 1)
  BY <1>0
<1>00. Weight(s) = c0 + 2 * c1 + 4 * c2 + 8 * c3 + 16 * c4 + 32 * c5 + 64 * c6 + 128 * c7
  BY <1>01 DEF Weight
<1>1. CASE k = 0
  <2>1. 2^k = 1
    BY <1>1
  <2>2. Weight(Up(s, 0)) = c0 + 2 * c1 + 4 * c2 + 8 * c3 + 16 * c4 + 32 * c5 + 64 * c6 + 128 * c7
    BY <1>01 DEF Weight, Up
  <2>3. PICK z \in Nat : z = 0
    OBVIOUS
  <2>4. (c0 + 2 * c1 + 4 * c2 + 8 * c3 + 16 * c4 + 32 * c5 + 64 * c6 + 128 * c7) * 1
          = (c0 + 2 * c1 + 4 * c2 + 8 * c3 + 16 * c4 + 32 * c5 + 64 * c6 + 128 * c7) + 256 * z
    BY <2>3
  <2> HIDE DEF a
  <2>5. Weight(s) * 2^k = Weight(Up(s, k)) + 256 * z
    BY <1>00, <1>1, <2>1, <2>2, <2>4, Zenon
  <2>6. PICK m : m = Weight(Up(s, k)) + 256 * z
    OBVIOUS
  <2>7. ASSUME NEW e \in 1..8 PROVE m % 2^e = Weight(Up(s, k) \cap 0..(e - 1))
    BY <2>6, WeightMod
  <2>8. Weight(s) * 2^k = m
    BY <2>5, <2>6
  <2> QED BY <2>7, <2>8, Zenon
<1>2. CASE k = 1
  <2>1. 2^k = 2
    BY <1>2
  <2>2. Weight(Up(s, 1)) = 2 * c0 + 4 * c1 + 8 * c2 + 16 * c3 + 32 * c4 + 64 * c5 + 128 * c6
    BY <1>01 DEF Weight, Up
  <2>3. PICK z \in Nat : z = c7
    OBVIOUS
  <2>4. (c0 + 2 * c1 + 4 * c2 + 8 * c3 + 16 * c4 + 32 * c5 + 64 * c6 + 128 * c7) * 2
          = (2 * c0 + 4 * c1 + 8 * c2 + 16 * c3 + 32 * c4 + 64 * c5 + 128 * c6) + 256 * z
    BY <2>3
  <2> HIDE DEF a
  <2>5. Weight(s) * 2^k = Weight(Up(s, k)) + 256 * z
    BY <1>00, <1>2, <2>1, <2>2, <2>4, Zenon
  <2>6. PICK m : m = Weight(Up(s, k)) + 256 * z
    OBVIOUS
  <2>7. ASSUME NEW e \in 1..8 PROVE m % 2^e = Weight(Up(s, k) \cap 0..(e - 1))
    BY <2>6, WeightMod
  <2>8. Weight(s) * 2^k = m
    BY <2>5, <2>6
  <2> QED BY <2>7, <2>8, Zenon
<1>3. CASE k = 2
  <2>1. 2^k = 4
    BY <1>3
  <2>2. Weight(Up(s, 2)) = 4 * c0 + 8 * c1 + 16 * c2 + 32 * c3 + 64 * c4 + 128 * c5
    BY <1>01 DEF Weight, Up
  <2>3. PICK z \in Nat : z = c6 + 2 * c7
    OBVIOUS
  <2>4. (c0 + 2 * c1 + 4 * c2 + 8 * c3 + 16 * c4 + 32 * c5 + 64 * c6 + 128 * c7) * 4
          = (4 * c0 + 8 * c1 + 16 * c2 + 32 * c3 + 64 * c4 + 128 * c5) + 256 * z
    BY <2>3
  <2> HIDE DEF a
  <2>5. Weight(s) * 2^k = Weight(Up(s, k)) + 256 * z
    BY <1>00, <1>3, <2>1, <2>2, <2>4, Zenon
  <2>6. PICK m : m = Weight(Up(s, k)) + 256 * z
    OBVIOUS
  <2>7. ASSUME NEW e \in 1..8 PROVE m % 2^e = Weight(Up(s, k) \cap 0..(e - 1))
    BY <2>6, WeightMod
  <2>8. Weight(s) * 2^k = m
    BY <2>5, <2>6
  <2> QED BY <2>7, <2>8, Zenon
<1>4. CASE k = 3
  <2>1. 2^k = 8
    BY <1>4
  <2>2. Weight(Up(s, 3)) = 8 * c0 + 16 * c1 + 32 * c2 + 64 * c3 + 128 * c4
    BY <1>01 DEF Weight, Up
  <2>3. PICK z \in Nat : z = c5 + 2 * c6 + 4 * c7
    OBVIOUS
  <2>4. (c0 + 2 * c1 + 4 * c2 + 8 * c3 + 16 * c4 + 32 * c5 + 64 * c6 + 128 * c7) * 8
          = (8 * c0 + 16 * c1 + 32 * c2 + 64 * c3 + 128 * c4) + 256 * z
    BY <2>3
  <2> HIDE DEF a
  <2>5. Weight(s) * 2^k = Weight(Up(s, k)) + 256 * z
    BY <1>00, <1>4, <2>1, <2>2, <2>4, Zenon
  <2>6. PICK m : m = Weight(Up(s, k)) + 256 * z
    OBVIOUS
  <2>7. ASSUME NEW e \in 1..8 PROVE m % 2^e = Weight(Up(s, k) \cap 0..(e - 1))
    BY <2>6, WeightMod
  <2>8. Weight(s) * 2^k = m
    BY <2>5, <2>6
  <2> QED BY <2>7, <2>8, Zenon
<1>5. CASE k = 4
  <2>1. 2^k = 16
    BY <1>5
  <2>2. Weight(Up(s, 4)) = 16 * c0 + 32 * c1 + 64 * c2 + 128 * c3
    BY <1>01 DEF Weight, Up
  <2>3. PICK z \in Nat : z = c4 + 2 * c5 + 4 * c6 + 8 * c7
    OBVIOUS
  <2>4. (c0 + 2 * c1 + 4 * c2 + 8 * c3 + 16 * c4 + 32 * c5 + 64 * c6 + 128 * c7) * 16
          = (16 * c0 + 32 * c1 + 64 * c2 + 128 * c3) + 256 * z
    BY <2>3
  <2> HIDE DEF a
  <2>5. Weight(s) * 2^k = Weight(Up(s, k)) + 256 * z
    BY <1>00, <1>5, <2>1, <2>2, <2>4, Zenon
  <2>6. PICK m : m = Weight(Up(s, k)) + 256 * z
    OBVIOUS
  <2>7. ASSUME NEW e \in 1..8 PROVE m % 2^e = Weight(Up(s, k) \cap 0..(e - 1))
    BY <2>6, WeightMod
  <2>8. Weight(s) * 2^k = m
    BY <2>5, <2>6
  <2> QED BY <2>7, <2>8, Zenon
<1>6. CASE k = 5
  <2>1. 2^k = 32
    BY <1>6
  <2>2. Weight(Up(s, 5)) = 32 * c0 + 64 * c1 + 128 * c2
    BY <1>01 DEF Weight, Up
  <2>3. PICK z \in Nat : z = c3 + 2 * c4 + 4 * c5 + 8 * c6 + 16 * c7
    OBVIOUS
  <2>4. (c0 + 2 * c1 + 4 * c2 + 8 * c3 + 16 * c4 + 32 * c5 + 64 * c6 + 128 * c7) * 32
          = (32 * c0 + 64 * c1 + 128 * c2) + 256 * z
    BY <2>3
  <2> HIDE DEF a
  <2>5. Weight(s) * 2^k = Weight(Up(s, k)) + 256 * z
    BY <1>00, <1>6, <2>1, <2>2, <2>4, Zenon
  <2>6. PICK m : m = Weight(Up(s, k)) + 256 * z
    OBVIOUS
  <2>7. ASSUME NEW e \in 1..8 PROVE m % 2^e = Weight(Up(s, k) \cap 0..(e - 1))
    BY <2>6, WeightMod
  <2>8. Weight(s) * 2^k = m
    BY <2>5, <2>6
  <2> QED BY <2>7, <2>8, Zenon
<1>7. CASE k = 6
  <2>1. 2^k = 64
    BY <1>7
  <2>2. Weight(Up(s, 6)) = 64 * c0 + 128 * c1
    BY <1>01 DEF Weight, Up
  <2>3. PICK z \in Nat : z = c2 + 2 * c3 + 4 * c4 + 8 * c5 + 16 * c6 + 32 * c7
    OBVIOUS
  <2>4. (c0 + 2 * c1 + 4 * c2 + 8 * c3 + 16 * c4 + 32 * c5 + 64 * c6 + 128 * c7) * 64
          = (64 * c0 + 128 * c1) + 256 * z
    BY <2>3
  <2> HIDE DEF a
  <2>5. Weight(s) * 2^k = Weight(Up(s, k)) + 256 * z
    BY <1>00, <1>7, <2>1, <2>2, <2>4, Zenon
  <2>6. PICK m : m = Weight(Up(s, k)) + 256 * z
    OBVIOUS
  <2>7. ASSUME NEW e \in 1..8 PROVE m % 2^e = Weight(Up(s, k) \cap 0..(e - 1))
    BY <2>6, WeightMod
  <2>8. Weight(s) * 2^k = m
    BY <2>5, <2>6
  <2> QED BY <2>7, <2>8, Zenon
<1>8. CASE k = 7
  <2>1. 2^k = 128
    BY <1>8
  <2>2. Weight(Up(s, 7)) = 128 * c0
    BY <1>01 DEF Weight, Up
  <2>3. PICK z \in Nat : z = c1 + 2 * c2 + 4 * c3 + 8 * c4 + 16 * c5 + 32 * c6 + 64 * c7
    OBVIOUS
  <2>4. (c0 + 2 * c1 + 4 * c2 + 8 * c3 + 16 * c4 + 32 * c5 + 64 * c6 + 128 * c7) * 128
          = (128 * c0) + 256 * z
    BY <2>3
  <2> HIDE DEF a
  <2>5. Weight(s) * 2^k = Weight(Up(s, k)) + 256 * z
    BY <1>00, <1>8, <2>1, <2>2, <2>4, Zenon
  <2>6. PICK m : m = Weight(Up(s, k)) + 256 * z
    OBVIOUS
  <2>7. ASSUME NEW e \in 1..8 PROVE m % 2^e = Weight(Up(s, k) \cap 0..(e - 1))
    BY <2>6, WeightMod
  <2>8. Weight(s) * 2^k = m
    BY <2>5, <2>6
  <2> QED BY <2>7, <2>8, Zenon
<1>9. k = 0 \/ k = 1 \/ k = 2 \/ k = 3 \/ k = 4 \/ k = 5 \/ k = 6 \/ k = 7
  OBVIOUS
<1> QED BY <1>1, <1>2, <1>3, <1>4, <1>5, <1>6, <1>7, <1>8, <1>9, Zenon

LEMMA WeightSum ==
    ASSUME NEW s, NEW t, s \cap t = {}
    PROVE  Weight(s) + Weight(t) = Weight(s \cup t)
<1>1. \A b : (b \in s \cup t <=> b \in s \/ b \in t) /\ ~(b \in s /\ b \in t)
  OBVIOUS
<1> QED BY <1>1 DEF Weight

LEMMA BitOfWeight ==
    ASSUME NEW s \in SUBSET (0..7), NEW b \in 0..7
    PROVE  Bit(Weight(s), b) = 1 <=> b \in s
<1> DEFINE t == Down(s, b)
<1>1. Bit(Weight(s), b) = Weight(t) % 2
  BY WeightDiv DEF Bit
<1> HIDE DEF t
<1>2. (Weight(t) + 256 * 0) % 2^1 = Weight(t \cap 0..0)
  <2>1. ASSUME NEW e \in 1..8, NEW z \in Nat
        PROVE  (Weight(t) + 256 * z) % 2^e = Weight(t \cap 0..(e - 1))
    BY WeightMod
  <2>2. 1 \in 1..8 /\ 0 \in Nat /\ 1 - 1 = 0
    OBVIOUS
  <2>3. (Weight(t) + 256 * 0) % 2^1 = Weight(t \cap 0..(1 - 1))
    BY <2>1, <2>2, Zenon
  <2> QED BY <2>2, <2>3, Zenon
<1>3. Weight(t) + 256 * 0 = Weight(t) /\ 2^1 = 2
  BY WeightRange
<1>4. Weight(t \cap 0..0) = IF 0 \in t THEN 1 ELSE 0
  BY DEF Weight
<1>5. 0 \in t <=> b \in s
  BY DEF t, Down
<1> QED BY <1>1, <1>2, <1>3, <1>4, <1>5

\* The lowest bits of a byte.
LEMMA LowBits ==
    ASSUME NEW x \in Byte, NEW e \in 1..8
    PROVE  x % 2^e = FromBits([b \in 0..(e - 1) |-> Bit(x, b)])
<1> DEFINE s == {b \in 0..7 : Bit(x, b) = 1}
           bits == [b \in 0..(e - 1) |-> Bit(x, b)]
<1>1. x % 2^e = Weight(s \cap 0..(e - 1))
  <2>1. x = Weight(s)
    BY ByteAsWeight
  <2>4. x \in Nat
    BY DEF Byte
  <2> HIDE DEF s
  <2>2. (Weight(s) + 256 * 0) % 2^e = Weight(s \cap 0..(e - 1))
    BY WeightMod, 0 \in Nat
  <2>3. Weight(s) + 256 * 0 = x
    BY <2>1, <2>4
  <2> QED BY <2>2, <2>3
<1>2. s \cap 0..(e - 1) = Ones(bits)
  BY DEF Ones
<1>3. FromBits(bits) = Weight(Ones(bits))
  <2>1. \A b \in 0..(e - 1) : bits[b] \in {0, 1}
    BY BitType DEF Byte
  <2> HIDE DEF bits
  <2>2. DOMAIN bits = 0..(e - 1)
    BY DEF bits
  <2> QED BY <2>1, <2>2, WeightOfBits, e - 1 \in 0..7
<1> QED BY <1>1, <1>2, <1>3

-----------------------------------------------------------------------------
\* Numbers made of bits.

LEMMA FromBitsRange ==
    ASSUME NEW n \in 0..7, NEW bits, DOMAIN bits = 0..n, \A b \in 0..n : bits[b] \in {0, 1}
    PROVE  FromBits(bits) \in 0..255 /\ FromBits(bits) % 2^(n + 1) = FromBits(bits)
<1> DEFINE s == Ones(bits)
<1>1. FromBits(bits) = Weight(s)
  BY WeightOfBits
<1>0. PICK m \in 1..8 : m = n + 1 /\ m - 1 = n
  OBVIOUS
<1>2. s \cap 0..(m - 1) = s
  BY <1>0 DEF Ones
<1>3. PICK w \in 0..255 : w = Weight(s)
  BY WeightRange
<1>4. (Weight(s) + 256 * 0) % 2^m = Weight(s \cap 0..(m - 1))
  BY WeightMod, 0 \in Nat
<1>5. w + 256 * 0 = w
  OBVIOUS
<1> HIDE DEF s
<1> QED BY <1>0, <1>1, <1>2, <1>3, <1>4, <1>5, ZenonT(60)

\* Eight bits of w, those outside w counting as zero.
LEMMA ByteOfBits ==
    ASSUME NEW w, NEW q, \A k \in DOMAIN w : w[k] \in {0, 1}
    PROVE  /\ ByteOf(w, q) \in Byte
           /\ \A b \in 0..7 : 8 * q + b \in DOMAIN w => Bit(ByteOf(w, q), b) = w[8 * q + b]
<1> DEFINE bits == [b \in 0..7 |-> IF 8 * q + b \in DOMAIN w THEN w[8 * q + b] ELSE 0]
<1>1. DOMAIN bits = 0..7 /\ \A b \in 0..7 : bits[b] \in {0, 1}
  OBVIOUS
<1>2. \A b \in 0..7 : 8 * q + b \in DOMAIN w => bits[b] = w[8 * q + b]
  OBVIOUS
<1>3. ByteOf(w, q) = FromBits(bits)
  BY Zenon DEF ByteOf
<1> HIDE DEF bits
<1>4. FromBits(bits) = Weight(Ones(bits)) /\ FromBits(bits) \in 0..255
  BY <1>1, WeightOfBits, FromBitsRange, 7 \in 0..7
<1>5. ASSUME NEW b \in 0..7 PROVE Bit(FromBits(bits), b) = bits[b]
  <2>1. Ones(bits) \in SUBSET (0..7) /\ (b \in Ones(bits) <=> bits[b] = 1)
    BY <1>1 DEF Ones
  <2>2. Bit(FromBits(bits), b) \in {0, 1}
    BY <1>4, BitType, FromBits(bits) \in Int
  <2>3. Bit(FromBits(bits), b) = 1 <=> bits[b] = 1
    BY <1>4, <2>1, BitOfWeight
  <2> QED BY <1>1, <2>2, <2>3
<1> QED BY <1>2, <1>3, <1>4, <1>5 DEF Byte

-----------------------------------------------------------------------------
\* Where the bits of an element are.

\* Packing: in its byte, which is one of those of the group of the element.
Place(e, n, i, b) ==
    LET t == i * e + b
        q == t \div 8
        first == Group(e) * (q \div GroupBytes(e))
        m == IF n - first < Group(e) THEN n - first ELSE Group(e)
        p == 8 * (q % GroupBytes(e)) + (t % 8)
    IN  /\ q \in Nat /\ t % 8 \in 0..7
        /\ p \in 0..(m * e - 1) /\ first + (p \div e) = i /\ p % e = b

LEMMA PlaceInGroup ==
    ASSUME NEW e \in 2..7, NEW n \in Nat, NEW i \in 0..(n - 1), NEW b \in 0..(e - 1)
    PROVE  Place(e, n, i, b)
<1>1. CASE e = 2
  <2>1. Group(e) = 4 /\ GroupBytes(e) = 1
    BY <1>1 DEF Group, GroupBytes
  <2>2. b \in 0..1
    BY <1>1
  <2>3. PICK g \in Nat, r \in 0..3 : i = 4 * g + r
    <3>1. i \div 4 \in Nat /\ i % 4 \in 0..3 /\ i = 4 * (i \div 4) + (i % 4)
      OBVIOUS
    <3> QED BY <3>1
  <2>4. PICK u \in 0..7 : u = r * 2 + b
    BY <2>2
  <2>5. PICK c \in 0..0, d \in 0..7 : u = 8 * c + d /\ c = u \div 8 /\ d = u % 8
    OBVIOUS
  <2>6. i * 2 + b = 8 * (1 * g + c) + d
    BY <2>3, <2>4, <2>5
  <2>7. (i * 2 + b) \div 8 = 1 * g + c /\ (i * 2 + b) % 8 = d
    BY <2>6
  <2>8. (1 * g + c) \div 1 = g /\ (1 * g + c) % 1 = c
    OBVIOUS
  <2>9. u \div 2 = r /\ u % 2 = b
    BY <2>2, <2>4
  <2>10. r < (IF n - 4 * g < 4 THEN n - 4 * g ELSE 4)
    BY <2>3
  <2>11. u <= (IF n - 4 * g < 4 THEN n - 4 * g ELSE 4) * 2 - 1
    BY <2>2, <2>4, <2>10
  <2>12. 4 * (((i * 2 + b) \div 8) \div 1) = 4 * g
    BY <2>7, <2>8
  <2>13. 8 * (((i * 2 + b) \div 8) % 1) + ((i * 2 + b) % 8) = u
    BY <2>5, <2>7, <2>8
  <2>14. (i * 2 + b) \div 8 \in Nat /\ (i * 2 + b) % 8 \in 0..7
    BY <2>7
  <2>15. u \in 0..((IF n - 4 * g < 4 THEN n - 4 * g ELSE 4) * 2 - 1) /\ 4 * g + (u \div 2) = i
    BY <2>3, <2>9, <2>11
  <2> QED BY <1>1, <2>1, <2>9, <2>12, <2>13, <2>14, <2>15, Zenon DEF Place
<1>2. CASE e = 3
  <2>1. Group(e) = 8 /\ GroupBytes(e) = 3
    BY <1>2 DEF Group, GroupBytes
  <2>2. b \in 0..2
    BY <1>2
  <2>3. PICK g \in Nat, r \in 0..7 : i = 8 * g + r
    <3>1. i \div 8 \in Nat /\ i % 8 \in 0..7 /\ i = 8 * (i \div 8) + (i % 8)
      OBVIOUS
    <3> QED BY <3>1
  <2>4. PICK u \in 0..23 : u = r * 3 + b
    BY <2>2
  <2>5. PICK c \in 0..2, d \in 0..7 : u = 8 * c + d /\ c = u \div 8 /\ d = u % 8
    OBVIOUS
  <2>6. i * 3 + b = 8 * (3 * g + c) + d
    BY <2>3, <2>4, <2>5
  <2>7. (i * 3 + b) \div 8 = 3 * g + c /\ (i * 3 + b) % 8 = d
    BY <2>6
  <2>8. (3 * g + c) \div 3 = g /\ (3 * g + c) % 3 = c
    OBVIOUS
  <2>9. u \div 3 = r /\ u % 3 = b
    BY <2>2, <2>4
  <2>10. r < (IF n - 8 * g < 8 THEN n - 8 * g ELSE 8)
    BY <2>3
  <2>11. u <= (IF n - 8 * g < 8 THEN n - 8 * g ELSE 8) * 3 - 1
    BY <2>2, <2>4, <2>10
  <2>12. 8 * (((i * 3 + b) \div 8) \div 3) = 8 * g
    BY <2>7, <2>8
  <2>13. 8 * (((i * 3 + b) \div 8) % 3) + ((i * 3 + b) % 8) = u
    BY <2>5, <2>7, <2>8
  <2>14. (i * 3 + b) \div 8 \in Nat /\ (i * 3 + b) % 8 \in 0..7
    BY <2>7
  <2>15. u \in 0..((IF n - 8 * g < 8 THEN n - 8 * g ELSE 8) * 3 - 1) /\ 8 * g + (u \div 3) = i
    BY <2>3, <2>9, <2>11
  <2> QED BY <1>2, <2>1, <2>9, <2>12, <2>13, <2>14, <2>15, Zenon DEF Place
<1>3. CASE e = 4
  <2>1. Group(e) = 2 /\ GroupBytes(e) = 1
    BY <1>3 DEF Group, GroupBytes
  <2>2. b \in 0..3
    BY <1>3
  <2>3. PICK g \in Nat, r \in 0..1 : i = 2 * g + r
    <3>1. i \div 2 \in Nat /\ i % 2 \in 0..1 /\ i = 2 * (i \div 2) + (i % 2)
      OBVIOUS
    <3> QED BY <3>1
  <2>4. PICK u \in 0..7 : u = r * 4 + b
    BY <2>2
  <2>5. PICK c \in 0..0, d \in 0..7 : u = 8 * c + d /\ c = u \div 8 /\ d = u % 8
    OBVIOUS
  <2>6. i * 4 + b = 8 * (1 * g + c) + d
    BY <2>3, <2>4, <2>5
  <2>7. (i * 4 + b) \div 8 = 1 * g + c /\ (i * 4 + b) % 8 = d
    BY <2>6
  <2>8. (1 * g + c) \div 1 = g /\ (1 * g + c) % 1 = c
    OBVIOUS
  <2>9. u \div 4 = r /\ u % 4 = b
    BY <2>2, <2>4
  <2>10. r < (IF n - 2 * g < 2 THEN n - 2 * g ELSE 2)
    BY <2>3
  <2>11. u <= (IF n - 2 * g < 2 THEN n - 2 * g ELSE 2) * 4 - 1
    BY <2>2, <2>4, <2>10
  <2>12. 2 * (((i * 4 + b) \div 8) \div 1) = 2 * g
    BY <2>7, <2>8
  <2>13. 8 * (((i * 4 + b) \div 8) % 1) + ((i * 4 + b) % 8) = u
    BY <2>5, <2>7, <2>8
  <2>14. (i * 4 + b) \div 8 \in Nat /\ (i * 4 + b) % 8 \in 0..7
    BY <2>7
  <2>15. u \in 0..((IF n - 2 * g < 2 THEN n - 2 * g ELSE 2) * 4 - 1) /\ 2 * g + (u \div 4) = i
    BY <2>3, <2>9, <2>11
  <2> QED BY <1>3, <2>1, <2>9, <2>12, <2>13, <2>14, <2>15, Zenon DEF Place
<1>4. CASE e = 5
  <2>1. Group(e) = 8 /\ GroupBytes(e) = 5
    BY <1>4 DEF Group, GroupBytes
  <2>2. b \in 0..4
    BY <1>4
  <2>3. PICK g \in Nat, r \in 0..7 : i = 8 * g + r
    <3>1. i \div 8 \in Nat /\ i % 8 \in 0..7 /\ i = 8 * (i \div 8) + (i % 8)
      OBVIOUS
    <3> QED BY <3>1
  <2>4. PICK u \in 0..39 : u = r * 5 + b
    BY <2>2
  <2>5. PICK c \in 0..4, d \in 0..7 : u = 8 * c + d /\ c = u \div 8 /\ d = u % 8
    OBVIOUS
  <2>6. i * 5 + b = 8 * (5 * g + c) + d
    BY <2>3, <2>4, <2>5
  <2>7. (i * 5 + b) \div 8 = 5 * g + c /\ (i * 5 + b) % 8 = d
    BY <2>6
  <2>8. (5 * g + c) \div 5 = g /\ (5 * g + c) % 5 = c
    OBVIOUS
  <2>9. u \div 5 = r /\ u % 5 = b
    BY <2>2, <2>4
  <2>10. r < (IF n - 8 * g < 8 THEN n - 8 * g ELSE 8)
    BY <2>3
  <2>11. u <= (IF n - 8 * g < 8 THEN n - 8 * g ELSE 8) * 5 - 1
    BY <2>2, <2>4, <2>10
  <2>12. 8 * (((i * 5 + b) \div 8) \div 5) = 8 * g
    BY <2>7, <2>8
  <2>13. 8 * (((i * 5 + b) \div 8) % 5) + ((i * 5 + b) % 8) = u
    BY <2>5, <2>7, <2>8
  <2>14. (i * 5 + b) \div 8 \in Nat /\ (i * 5 + b) % 8 \in 0..7
    BY <2>7
  <2>15. u \in 0..((IF n - 8 * g < 8 THEN n - 8 * g ELSE 8) * 5 - 1) /\ 8 * g + (u \div 5) = i
    BY <2>3, <2>9, <2>11
  <2> QED BY <1>4, <2>1, <2>9, <2>12, <2>13, <2>14, <2>15, Zenon DEF Place
<1>5. CASE e = 6
  <2>1. Group(e) = 4 /\ GroupBytes(e) = 3
    BY <1>5 DEF Group, GroupBytes
  <2>2. b \in 0..5
    BY <1>5
  <2>3. PICK g \in Nat, r \in 0..3 : i = 4 * g + r
    <3>1. i \div 4 \in Nat /\ i % 4 \in 0..3 /\ i = 4 * (i \div 4) + (i % 4)
      OBVIOUS
    <3> QED BY <3>1
  <2>4. PICK u \in 0..23 : u = r * 6 + b
    BY <2>2
  <2>5. PICK c \in 0..2, d \in 0..7 : u = 8 * c + d /\ c = u \div 8 /\ d = u % 8
    OBVIOUS
  <2>6. i * 6 + b = 8 * (3 * g + c) + d
    BY <2>3, <2>4, <2>5
  <2>7. (i * 6 + b) \div 8 = 3 * g + c /\ (i * 6 + b) % 8 = d
    BY <2>6
  <2>8. (3 * g + c) \div 3 = g /\ (3 * g + c) % 3 = c
    OBVIOUS
  <2>9. u \div 6 = r /\ u % 6 = b
    BY <2>2, <2>4
  <2>10. r < (IF n - 4 * g < 4 THEN n - 4 * g ELSE 4)
    BY <2>3
  <2>11. u <= (IF n - 4 * g < 4 THEN n - 4 * g ELSE 4) * 6 - 1
    BY <2>2, <2>4, <2>10
  <2>12. 4 * (((i * 6 + b) \div 8) \div 3) = 4 * g
    BY <2>7, <2>8
  <2>13. 8 * (((i * 6 + b) \div 8) % 3) + ((i * 6 + b) % 8) = u
    BY <2>5, <2>7, <2>8
  <2>14. (i * 6 + b) \div 8 \in Nat /\ (i * 6 + b) % 8 \in 0..7
    BY <2>7
  <2>15. u \in 0..((IF n - 4 * g < 4 THEN n - 4 * g ELSE 4) * 6 - 1) /\ 4 * g + (u \div 6) = i
    BY <2>3, <2>9, <2>11
  <2> QED BY <1>5, <2>1, <2>9, <2>12, <2>13, <2>14, <2>15, Zenon DEF Place
<1>6. CASE e = 7
  <2>1. Group(e) = 8 /\ GroupBytes(e) = 7
    BY <1>6 DEF Group, GroupBytes
  <2>2. b \in 0..6
    BY <1>6
  <2>3. PICK g \in Nat, r \in 0..7 : i = 8 * g + r
    <3>1. i \div 8 \in Nat /\ i % 8 \in 0..7 /\ i = 8 * (i \div 8) + (i % 8)
      OBVIOUS
    <3> QED BY <3>1
  <2>4. PICK u \in 0..55 : u = r * 7 + b
    BY <2>2
  <2>5. PICK c \in 0..6, d \in 0..7 : u = 8 * c + d /\ c = u \div 8 /\ d = u % 8
    OBVIOUS
  <2>6. i * 7 + b = 8 * (7 * g + c) + d
    BY <2>3, <2>4, <2>5
  <2>7. (i * 7 + b) \div 8 = 7 * g + c /\ (i * 7 + b) % 8 = d
    BY <2>6
  <2>8. (7 * g + c) \div 7 = g /\ (7 * g + c) % 7 = c
    OBVIOUS
  <2>9. u \div 7 = r /\ u % 7 = b
    BY <2>2, <2>4
  <2>10. r < (IF n - 8 * g < 8 THEN n - 8 * g ELSE 8)
    BY <2>3
  <2>11. u <= (IF n - 8 * g < 8 THEN n - 8 * g ELSE 8) * 7 - 1
    BY <2>2, <2>4, <2>10
  <2>12. 8 * (((i * 7 + b) \div 8) \div 7) = 8 * g
    BY <2>7, <2>8
  <2>13. 8 * (((i * 7 + b) \div 8) % 7) + ((i * 7 + b) % 8) = u
    BY <2>5, <2>7, <2>8
  <2>14. (i * 7 + b) \div 8 \in Nat /\ (i * 7 + b) % 8 \in 0..7
    BY <2>7
  <2>15. u \in 0..((IF n - 8 * g < 8 THEN n - 8 * g ELSE 8) * 7 - 1) /\ 8 * g + (u \div 7) = i
    BY <2>3, <2>9, <2>11
  <2> QED BY <1>6, <2>1, <2>9, <2>12, <2>13, <2>14, <2>15, ZenonT(60) DEF Place
<1> QED BY <1>1, <1>2, <1>3, <1>4, <1>5, <1>6

\* Unpacking: the same.
LEMMA PlaceInBytes ==
    ASSUME NEW e \in 2..7, NEW i \in Nat, NEW b \in 0..(e - 1)
    PROVE  /\ GroupBytes(e) * (i \div Group(e)) + ((i % Group(e)) * e + b) \div 8 = (i * e + b) \div 8
           /\ ((i % Group(e)) * e + b) % 8 = (i * e + b) % 8
<1>1. CASE e = 2
  <2>1. Group(e) = 4 /\ GroupBytes(e) = 1
    BY <1>1 DEF Group, GroupBytes
  <2>2. b \in 0..1
    BY <1>1
  <2>3. /\ 1 * (i \div 4) + ((i % 4) * 2 + b) \div 8 = (i * 2 + b) \div 8
        /\ ((i % 4) * 2 + b) % 8 = (i * 2 + b) % 8
    BY <2>2
  <2> QED BY <1>1, <2>1, <2>3
<1>2. CASE e = 3
  <2>1. Group(e) = 8 /\ GroupBytes(e) = 3
    BY <1>2 DEF Group, GroupBytes
  <2>2. b \in 0..2
    BY <1>2
  <2>3. /\ 3 * (i \div 8) + ((i % 8) * 3 + b) \div 8 = (i * 3 + b) \div 8
        /\ ((i % 8) * 3 + b) % 8 = (i * 3 + b) % 8
    BY <2>2
  <2> QED BY <1>2, <2>1, <2>3
<1>3. CASE e = 4
  <2>1. Group(e) = 2 /\ GroupBytes(e) = 1
    BY <1>3 DEF Group, GroupBytes
  <2>2. b \in 0..3
    BY <1>3
  <2>3. /\ 1 * (i \div 2) + ((i % 2) * 4 + b) \div 8 = (i * 4 + b) \div 8
        /\ ((i % 2) * 4 + b) % 8 = (i * 4 + b) % 8
    BY <2>2
  <2> QED BY <1>3, <2>1, <2>3
<1>4. CASE e = 5
  <2>1. Group(e) = 8 /\ GroupBytes(e) = 5
    BY <1>4 DEF Group, GroupBytes
  <2>2. b \in 0..4
    BY <1>4
  <2>3. /\ 5 * (i \div 8) + ((i % 8) * 5 + b) \div 8 = (i * 5 + b) \div 8
        /\ ((i % 8) * 5 + b) % 8 = (i * 5 + b) % 8
    BY <2>2
  <2> QED BY <1>4, <2>1, <2>3
<1>5. CASE e = 6
  <2>1. Group(e) = 4 /\ GroupBytes(e) = 3
    BY <1>5 DEF Group, GroupBytes
  <2>2. b \in 0..5
    BY <1>5
  <2>3. /\ 3 * (i \div 4) + ((i % 4) * 6 + b) \div 8 = (i * 6 + b) \div 8
        /\ ((i % 4) * 6 + b) % 8 = (i * 6 + b) % 8
    BY <2>2
  <2> QED BY <1>5, <2>1, <2>3
<1>6. CASE e = 7
  <2>1. Group(e) = 8 /\ GroupBytes(e) = 7
    BY <1>6 DEF Group, GroupBytes
  <2>2. b \in 0..6
    BY <1>6
  <2>3. /\ 7 * (i \div 8) + ((i % 8) * 7 + b) \div 8 = (i * 7 + b) \div 8
        /\ ((i % 8) * 7 + b) % 8 = (i * 7 + b) % 8
    BY <2>2
  <2> QED BY <1>6, <2>1, <2>3
<1> QED BY <1>1, <1>2, <1>3, <1>4, <1>5, <1>6

\* The bits of an element one after the other, and those of the next one after them.
At(bytes, t) == Bit(bytes[t \div 8], t % 8)

LEMMA FromGroupIsStream ==
    ASSUME NEW e \in 2..7, NEW bytes, NEW i \in Nat
    PROVE  FromGroup(e, bytes, i) = FromBits([b \in 0..(e - 1) |-> At(bytes, i * e + b)])
<1> DEFINE in == GroupBytes(e) * (i \div Group(e))
           bit(b) == (i % Group(e)) * e + b
<1>1. FromGroup(e, bytes, i) = FromBits([b \in 0..(e - 1) |-> Bit(bytes[in + bit(b) \div 8], bit(b) % 8)])
  BY Zenon DEF FromGroup
<1>2. \A b \in 0..(e - 1) : in + bit(b) \div 8 = (i * e + b) \div 8 /\ bit(b) % 8 = (i * e + b) % 8
  BY PlaceInBytes
<1> HIDE DEF in, bit
<1>3. \A b \in 0..(e - 1) : Bit(bytes[in + bit(b) \div 8], bit(b) % 8) = At(bytes, i * e + b)
  BY <1>2 DEF At
<1>4. [b \in 0..(e - 1) |-> Bit(bytes[in + bit(b) \div 8], bit(b) % 8)]
      = [b \in 0..(e - 1) |-> At(bytes, i * e + b)]
  BY <1>3
<1> QED BY <1>1, <1>4, Zenon

LEMMA FromTailIsStream ==
    ASSUME NEW e \in 2..7, NEW bytes, NEW i \in Nat, bytes[(i * e) \div 8] \in Byte,
           ((i * e) % 8) + e > 8 => bytes[(i * e) \div 8 + 1] \in Byte
    PROVE  FromTail(e, bytes, i) = FromBits([b \in 0..(e - 1) |-> At(bytes, i * e + b)])
<1>1. PICK t \in Nat : t = i * e
  BY e \in Nat, Z3
<1>2. PICK in \in Nat, s \in 0..7 : in = t \div 8 /\ s = t % 8 /\ t = 8 * in + s
  BY <1>1
<1> DEFINE bits == [b \in 0..(e - 1) |-> At(bytes, i * e + b)]
<1>3. \A b \in 0..(e - 1) : bits[b] = IF s + b < 8 THEN Bit(bytes[in], s + b) ELSE Bit(bytes[in + 1], s + b - 8)
  <2> TAKE b \in 0..(e - 1)
  <2>1. (t + b) \div 8 = IF s + b < 8 THEN in ELSE in + 1
    BY <1>1, <1>2
  <2>2. (t + b) % 8 = IF s + b < 8 THEN s + b ELSE s + b - 8
    BY <1>1, <1>2
  <2>3. bits[b] = Bit(bytes[(t + b) \div 8], (t + b) % 8)
    BY <1>1 DEF At
  <2> HIDE DEF bits
  <2>4. CASE s + b < 8
    BY <2>1, <2>2, <2>3, <2>4
  <2>5. CASE ~(s + b < 8)
    BY <2>1, <2>2, <2>3, <2>5
  <2> QED BY <2>4, <2>5
<1>4. DOMAIN bits = 0..(e - 1)
  OBVIOUS
<1>5. bytes[in] \in Byte /\ (s + e > 8 => bytes[in + 1] \in Byte)
  BY <1>1, <1>2
<1>6. FromTail(e, bytes, i) = ((bytes[in] \div 2^s) % 2^e)
                              + (IF s + e > 8 THEN (bytes[in + 1] * 2^(8 - s)) % 2^e ELSE 0)
  BY <1>1, <1>2, Zenon DEF FromTail
<1> HIDE DEF bits
<1> DEFINE One(x) == {b \in 0..7 : Bit(x, b) = 1}
           low == Down(One(bytes[in]), s)
<1>7. (bytes[in] \div 2^s) % 2^e = Weight(low \cap 0..(e - 1))
  <2>1. bytes[in] = Weight(One(bytes[in]))
    BY <1>5, ByteAsWeight
  <2>2. One(bytes[in]) \in SUBSET (0..7)
    OBVIOUS
  <2> HIDE DEF One
  <2>3. Weight(One(bytes[in])) \div 2^s = Weight(low)
    BY <2>2, WeightDiv
  <2> HIDE DEF low
  <2>4. (Weight(low) + 256 * 0) % 2^e = Weight(low \cap 0..(e - 1))
    BY WeightMod, e \in 1..8, 0 \in Nat
  <2>5. Weight(low) + 256 * 0 = Weight(low)
    BY WeightRange
  <2>6. bytes[in] \div 2^s = Weight(low)
    BY <2>1, <2>3, Zenon
  <2> QED BY <2>4, <2>5, <2>6
<1>8. \A b \in 0..(e - 1) : bits[b] \in {0, 1}
  <2> TAKE b \in 0..(e - 1)
  <2>1. CASE s + b < 8
    <3>1. bytes[in] \in Int /\ s + b \in 0..7
      BY <1>5, <2>1 DEF Byte
    <3> QED BY <1>3, <2>1, <3>1, BitType
  <2>2. CASE ~(s + b < 8)
    <3>1. bytes[in + 1] \in Int /\ s + b - 8 \in 0..7
      BY <1>5, <2>2 DEF Byte
    <3> QED BY <1>3, <2>2, <3>1, BitType
  <2> QED BY <2>1, <2>2
<1>9. FromBits(bits) = Weight(Ones(bits))
  BY <1>4, <1>8, WeightOfBits, e - 1 \in 0..7
<1>10. CASE ~(s + e > 8)
  <2>1. low \cap 0..(e - 1) = Ones(bits)
    <3>1. \A b \in 0..(e - 1) : bits[b] = Bit(bytes[in], s + b) /\ b + s = s + b /\ b \in 0..7 /\ s + b \in 0..7
      BY <1>3, <1>10
    <3> QED BY <1>4, <3>1 DEF Ones, Down
  <2>2. Weight(low \cap 0..(e - 1)) + 0 = Weight(low \cap 0..(e - 1))
    BY WeightRange
  <2> HIDE DEF low
  <2> QED BY <1>6, <1>7, <1>9, <1>10, <2>1, <2>2, Zenon DEF bits
<1>11. CASE s + e > 8
  <2> DEFINE k == 8 - s
             high == Up(One(bytes[in + 1]), k)
  <2>1. k \in 1..6 /\ k < e
    BY <1>11
  <2>2. bytes[in + 1] = Weight(One(bytes[in + 1]))
    BY <1>5, <1>11, ByteAsWeight
  <2>3. One(bytes[in + 1]) \in SUBSET (0..7)
    OBVIOUS
  <2>4. (low \cap 0..(e - 1)) \cup (high \cap 0..(e - 1)) = Ones(bits)
        /\ (low \cap 0..(e - 1)) \cap (high \cap 0..(e - 1)) = {}
    <3>1. \A b \in 0..(e - 1) : b \in 0..7 /\ (b \in low <=> s + b < 8 /\ Bit(bytes[in], s + b) = 1)
      <4> TAKE b \in 0..(e - 1)
      <4>1. b \in 0..7 /\ b + s = s + b /\ (s + b \in 0..7 <=> s + b < 8)
        OBVIOUS
      <4> QED BY <4>1 DEF Down
    <3>2. \A b \in 0..(e - 1) : (b \in high <=> ~(s + b < 8) /\ Bit(bytes[in + 1], s + b - 8) = 1)
      <4> TAKE b \in 0..(e - 1)
      <4>1. b \in 0..7 /\ b - k = s + b - 8 /\ (b - k \in 0..7 <=> ~(s + b < 8))
        BY <2>1
      <4> QED BY <4>1 DEF Up
    <3> HIDE DEF low, high
    <3>3. \A b \in 0..(e - 1) : (b \in Ones(bits) <=> b \in low \/ b \in high) /\ ~(b \in low /\ b \in high)
      BY <1>3, <1>4, <3>1, <3>2 DEF Ones
    <3> QED BY <1>4, <3>3 DEF Ones
  <2> HIDE DEF One, low, k
  <2>5. PICK j, o : j = k /\ o = One(bytes[in + 1])
    OBVIOUS
  <2>6. (Weight(o) * 2^j) % 2^e = Weight(Up(o, j) \cap 0..(e - 1))
    <3>1. j \in 0..7 /\ o \in SUBSET (0..7) /\ e \in 1..8
      BY <2>1, <2>3, <2>5
    <3> QED BY <3>1, WeightTimes, Zenon
  <2>7. (bytes[in + 1] * 2^(8 - s)) % 2^e = Weight(high \cap 0..(e - 1))
    BY <2>2, <2>5, <2>6, Zenon DEF k
  <2> HIDE DEF high
  <2>8. Weight(low \cap 0..(e - 1)) + Weight(high \cap 0..(e - 1)) = Weight(Ones(bits))
    BY <2>4, WeightSum
  <2> QED BY <1>6, <1>7, <1>9, <1>11, <2>7, <2>8, Zenon DEF bits
<1> QED BY <1>10, <1>11

-----------------------------------------------------------------------------
\* The indices of the kernels.

LEMMA Groups ==
    ASSUME NEW e \in 2..7, NEW n \in Nat
    PROVE  BytesFor(e, n) = (n * e + 7) \div 8
  BY DEF BytesFor

\* Bytes that unpacking reads for an element after the last group.
LEMMA TailInBytes ==
    ASSUME NEW e \in 2..7, NEW n \in Nat, NEW i \in 0..(n - 1)
    PROVE  /\ (i * e) % 8 \in 0..7 /\ (i * e) \div 8 \in 0..(BytesFor(e, n) - 1)
           /\ ((i * e) % 8) + e > 8 => (i * e) \div 8 + 1 \in 0..(BytesFor(e, n) - 1)
<1>1. PICK t \in Nat : t = i * e
  BY i \in Nat, e \in Nat, Z3
<1>2. PICK u \in Nat : u = n * e
  BY e \in Nat, Z3
<1>3. t + e <= u
  <2>1. e * (i + 1) <= e * n
    BY TimesMonotonic, e \in Nat, i + 1 \in Nat, i + 1 <= n
  <2>2. e * (i + 1) = i * e + e /\ e * n = n * e
    BY e \in Nat, i \in Nat, Z3
  <2> QED BY <1>1, <1>2, <2>1, <2>2
<1>4. t % 8 \in 0..7 /\ t \div 8 \in 0..((u + 7) \div 8 - 1)
      /\ ((t % 8) + e > 8 => t \div 8 + 1 \in 0..((u + 7) \div 8 - 1))
  BY <1>1, <1>2, <1>3
<1>5. BytesFor(e, n) = (u + 7) \div 8
  BY <1>2, Groups
<1> QED BY <1>1, <1>4, <1>5

\* The bits of the elements from i to i + m - 1.
LEMMA WindowType ==
    ASSUME NEW e \in 2..7, NEW d, NEW i \in Nat, NEW m \in Int, \A k \in i..(i + m - 1) : d[k] \in Int
    PROVE  \A k \in DOMAIN Window(e, d, i, m) : Window(e, d, i, m)[k] \in {0, 1}
<1>1. ASSUME NEW b \in 0..(m * e - 1) PROVE b % e \in 0..7 /\ i + b \div e \in i..(i + m - 1)
  <2>1. CASE e = 2
    <3>1. b \in 0..(m * 2 - 1)
      BY <2>1
    <3> QED BY <2>1, <3>1
  <2>2. CASE e = 3
    <3>1. b \in 0..(m * 3 - 1)
      BY <2>2
    <3> QED BY <2>2, <3>1
  <2>3. CASE e = 4
    <3>1. b \in 0..(m * 4 - 1)
      BY <2>3
    <3> QED BY <2>3, <3>1
  <2>4. CASE e = 5
    <3>1. b \in 0..(m * 5 - 1)
      BY <2>4
    <3> QED BY <2>4, <3>1
  <2>5. CASE e = 6
    <3>1. b \in 0..(m * 6 - 1)
      BY <2>5
    <3> QED BY <2>5, <3>1
  <2>6. CASE e = 7
    <3>1. b \in 0..(m * 7 - 1)
      BY <2>6
    <3> QED BY <2>6, <3>1
  <2> QED BY <2>1, <2>2, <2>3, <2>4, <2>5, <2>6
<1>2. ASSUME NEW b \in 0..(m * e - 1) PROVE Bit(d[i + b \div e], b % e) \in {0, 1}
  BY <1>1, BitType
<1> HIDE DEF Bit
<1> QED BY <1>2 DEF Window

-----------------------------------------------------------------------------
\* What packing and unpacking produce from what storage and buffers hold.

CellOf(e) == IF e = 1 THEN {0, 1} ELSE Byte

LEMMA BytesForCount ==
    ASSUME NEW e \in 1..8, NEW n \in Nat
    PROVE  BytesFor(e, n) \in Nat
<1>1. CASE e = 1
  <2>1. PICK w \in Nat, b \in Nat : w = WordsFor(e, n) /\ b = WordBits \div 8
    <3>1. n + WordBits - 1 \in Nat /\ WordBits \in Nat \ {0}
      BY WordAssumption
    <3> QED BY <1>1, <3>1, Division DEF WordsFor
  <2>2. BytesFor(e, n) = w * b
    BY <1>1, <2>1 DEF BytesFor
  <2> QED BY <2>1, <2>2, Z3
<1>2. CASE e = 8
  BY <1>2, BytesForType
<1>3. CASE e \in 2..7
  <2>1. PICK u \in Nat : u = n * e
    BY <1>3, Z3
  <2>2. (u + 7) \div 8 \in Nat
    BY <2>1
  <2> QED BY <1>3, <2>1, <2>2, Groups
<1> QED BY <1>1, <1>2, <1>3

\* The bits of every cell are in the packed bytes.
LEMMA BitsInBytes ==
    ASSUME NEW e \in 1..8, NEW n \in Nat, NEW k \in 0..(Cells(e, n) - 1), NEW b \in 0..(e - 1)
    PROVE  k \in Nat /\ (k * e + b) \div 8 \in 0..(BytesFor(e, n) - 1) /\ (k * e + b) % 8 \in 0..7
<1>0. k \in Nat
  BY CellsFacts
<1>1. CASE e = 1
  <2>1. PICK w \in Nat : w = WordsFor(e, n)
    <3>1. n + WordBits - 1 \in Nat /\ WordBits \in Nat \ {0}
      BY WordAssumption
    <3> QED BY <1>1, <3>1, Division DEF WordsFor
  <2>2. PICK h \in Nat : h = WordBits \div 8 /\ WordBits = 8 * h
    BY WordAssumption
  <2>3. PICK c \in Nat : c = w * h
    BY <2>1, <2>2
  <2>4. Cells(e, n) = 8 * c /\ BytesFor(e, n) = c
    <3>1. w * (8 * h) = 8 * (w * h)
      BY <2>1, <2>2, Z3
    <3>2. Cells(e, n) = w * WordBits /\ BytesFor(e, n) = w * (WordBits \div 8)
      BY <1>1, <2>1 DEF Cells, BytesFor
    <3> QED BY <2>2, <2>3, <3>1, <3>2
  <2>5. k \div 8 \in 0..(c - 1) /\ k % 8 \in 0..7 /\ k * 1 + b = k
    BY <1>0, <1>1, <2>3, <2>4
  <2> QED BY <1>0, <1>1, <2>4, <2>5
<1>2. CASE e = 8
  <2>1. BytesFor(e, n) = n /\ Cells(e, n) = n /\ b \in 0..7
    BY <1>2, BytesForType
  <2>2. (k * 8 + b) \div 8 = k /\ (k * 8 + b) % 8 = b
    BY <1>0, <2>1
  <2> QED BY <1>0, <1>2, <2>1, <2>2
<1>3. CASE e \in 2..7
  <2>1. PICK t \in Nat, u \in Nat : t = k * e /\ u = n * e
    BY <1>0, e \in Nat, Z3
  <2>2. k < n
    <3>1. Cells(e, n) = n
      BY <1>3, CellsFacts, e # 1
    <3> QED BY <3>1
  <2>3. t + e <= u
    <3>1. e * (k + 1) <= e * n
      BY <1>0, <2>2, TimesMonotonic, e \in Nat, k + 1 \in Nat, k + 1 <= n
    <3>2. e * (k + 1) = k * e + e /\ e * n = n * e
      BY <1>0, e \in Nat, Z3
    <3> QED BY <2>1, <3>1, <3>2
  <2>4. (t + b) \div 8 \in 0..((u + 7) \div 8 - 1) /\ (t + b) % 8 \in 0..7
    BY <2>1, <2>3
  <2>5. BytesFor(e, n) = (u + 7) \div 8
    BY <1>3, <2>1, Groups
  <2> QED BY <1>0, <2>1, <2>4, <2>5
<1> QED BY <1>1, <1>2, <1>3

LEMMA InCells ==
    ASSUME NEW e \in 1..8, NEW n \in Nat, NEW k \in 0..(n - 1)
    PROVE  k \in Nat /\ k \in 0..(Cells(e, n) - 1)
<1>1. PICK c \in Nat : c = Cells(e, n) /\ n <= c
  BY CellsFacts
<1> QED BY <1>1

\* The bits of the packed bytes are those of the elements, in their order.
LEMMA PackedBits ==
    ASSUME NEW e \in 1..8, NEW n \in Nat, NEW d, DOMAIN d = 0..(Cells(e, n) - 1),
           \A k \in DOMAIN d : d[k] \in CellOf(e), NEW k \in 0..(n - 1), NEW b \in 0..(e - 1)
    PROVE  At(Packed(e, d, n), k * e + b) = Bit(d[k], b)
<1>0. k \in DOMAIN d /\ k \in Nat
  BY InCells
<1> DEFINE q == (k * e + b) \div 8
           p == (k * e + b) % 8
<1>01. q \in 0..(BytesFor(e, n) - 1) /\ p \in 0..7
  BY <1>0, BitsInBytes
<1>1. CASE e = 1
  <2>1. Packed(e, d, n)[q] = ByteOf(d, q)
    BY <1>01, <1>1 DEF Packed
  <2>2. b = 0 /\ 8 * q + p = k
    <3>1. b = 0 /\ k * 1 + b = k
      BY <1>0, <1>1
    <3> QED BY <1>0, <1>1, <3>1
  <2>3. Bit(ByteOf(d, q), p) = d[k]
    <3> HIDE DEF q, p
    <3> QED BY <1>0, <1>01, <1>1, <2>2, ByteOfBits DEF CellOf
  <2>4. Bit(d[k], 0) = d[k]
    <3>1. d[k] \in {0, 1} /\ 2^0 = 1
      BY <1>0, <1>1 DEF CellOf
    <3>2. (0 \div 1) % 2 = 0 /\ (1 \div 1) % 2 = 1
      OBVIOUS
    <3> QED BY <3>1, <3>2 DEF Bit
  <2> QED BY <2>1, <2>2, <2>3, <2>4 DEF At
<1>2. CASE e = 8
  <2>1. Packed(e, d, n) = d
    BY <1>2 DEF Packed
  <2>2. q = k /\ p = b
    <3>1. (k * 8 + b) \div 8 = k /\ (k * 8 + b) % 8 = b
      BY <1>0, <1>2, SMTT(40)
    <3> QED BY <1>2, <3>1
  <2> QED BY <2>1, <2>2 DEF At
<1>3. CASE e \in 2..7
  <2> DEFINE i == Group(e) * (q \div GroupBytes(e))
             m == IF n - i < Group(e) THEN n - i ELSE Group(e)
             r == 8 * (q % GroupBytes(e)) + p
             w == Window(e, d, i, m)
  <2>1. Packed(e, d, n)[q] = ByteOf(w, q % GroupBytes(e))
    <3>1. Packed(e, d, n) = PackKernel(e, d, n)
      BY <1>3 DEF Packed
    <3> HIDE DEF q
    <3> QED BY <1>01, <3>1, Zenon DEF PackKernel
  <2>3. /\ q \in Nat /\ r \in 0..(m * e - 1) /\ i + (r \div e) = k /\ r % e = b
    <3>1. Place(e, n, k, b)
      BY <1>3, PlaceInGroup
    <3> QED BY <3>1, Zenon DEF Place
  <2> HIDE DEF q, p
  <2>4. DOMAIN w = 0..(m * e - 1) /\ w[r] = Bit(d[k], b)
    <3> HIDE DEF i, m, r
    <3>1. w[r] = Bit(d[i + r \div e], r % e)
      BY <2>3, Zenon DEF Window
    <3> QED BY <2>3, <3>1 DEF Window
  <2>5. \A x \in DOMAIN w : w[x] \in {0, 1}
    <3>1. i \in Nat /\ m \in Int /\ i + m <= n
      <4>1. Group(e) \in {2, 4, 8} /\ GroupBytes(e) \in {1, 3, 5, 7}
        BY <1>3 DEF Group, GroupBytes
      <4>2. q \div GroupBytes(e) \in Nat
        BY <2>3, <4>1, SMTT(40)
      <4> QED BY <4>1, <4>2, SMTT(40)
    <3> HIDE DEF i, m
    <3>2. \A x \in i..(i + m - 1) : d[x] \in Int
      <4>1. DOMAIN d = 0..(n - 1)
        BY <1>3, CellsFacts, e # 1
      <4>2. CellOf(e) \subseteq Int
        BY DEF CellOf, Byte
      <4>3. \A x \in i..(i + m - 1) : x \in 0..(n - 1)
        BY <3>1
      <4> QED BY <4>1, <4>2, <4>3
    <3> QED BY <1>3, <3>1, <3>2, WindowType
  <2> HIDE DEF i, m, w
  <2>6. Bit(ByteOf(w, q % GroupBytes(e)), p) = w[r]
    <3>1. PICK h : h = q % GroupBytes(e)
      OBVIOUS
    <3>2. 8 * h + p = r /\ r \in DOMAIN w
      BY <2>3, <2>4, <3>1
    <3>3. Bit(ByteOf(w, h), p) = w[8 * h + p]
      BY <1>01, <2>5, <3>2, ByteOfBits
    <3> QED BY <3>1, <3>2, <3>3
  <2> HIDE DEF r
  <2> QED BY <2>1, <2>4, <2>6, Zenon DEF At, q, p
<1> QED BY <1>1, <1>2, <1>3

LEMMA PackedType ==
    ASSUME NEW e \in 1..8, NEW n \in Nat, NEW d, DOMAIN d = 0..(Cells(e, n) - 1),
           \A k \in DOMAIN d : d[k] \in CellOf(e), NEW q \in 0..(BytesFor(e, n) - 1)
    PROVE  Packed(e, d, n)[q] \in Byte
<1>1. CASE e = 1
  <2>1. Packed(e, d, n)[q] = ByteOf(d, q)
    BY <1>1 DEF Packed
  <2>2. \A k \in DOMAIN d : d[k] \in {0, 1}
    BY <1>1 DEF CellOf
  <2>3. ByteOf(d, q) \in Byte
    BY <2>2, ByteOfBits
  <2> QED BY <2>1, <2>3, Zenon
<1>2. CASE e = 8
  <2>1. BytesFor(e, n) = n /\ Cells(e, n) = n
    BY <1>2, BytesForType
  <2>2. Packed(e, d, n) = d
    BY <1>2 DEF Packed
  <2>3. q \in DOMAIN d
    BY <2>1
  <2>4. d[q] \in CellOf(e)
    BY <2>3
  <2>5. CellOf(e) = Byte
    BY <1>2 DEF CellOf
  <2> QED BY <2>2, <2>4, <2>5
<1>3. CASE e \in 2..7
  <2> DEFINE i == Group(e) * (q \div GroupBytes(e))
             m == IF n - i < Group(e) THEN n - i ELSE Group(e)
  <2>1. Packed(e, d, n)[q] = ByteOf(Window(e, d, i, m), q % GroupBytes(e))
    <3>1. Packed(e, d, n) = PackKernel(e, d, n)
      BY <1>3 DEF Packed
    <3> QED BY <3>1, Zenon DEF PackKernel
  <2>2. BytesFor(e, n) \in Int /\ q \in Nat
    <3>1. BytesFor(e, n) \in Nat
      BY BytesForCount
    <3> QED BY <3>1
  <2>3. i \in Nat /\ m \in Int /\ i + m <= n
    <3>1. Group(e) \in {2, 4, 8} /\ GroupBytes(e) \in {1, 3, 5, 7}
      BY <1>3 DEF Group, GroupBytes
    <3>2. q \div GroupBytes(e) \in Nat
      BY <2>2, <3>1
    <3> QED BY <3>1, <3>2
  <2>4. \A k \in i..(i + m - 1) : d[k] \in Int
    <3>1. DOMAIN d = 0..(n - 1)
      BY <1>3, CellsFacts, e # 1
    <3> HIDE DEF i, m
    <3>2. CellOf(e) \subseteq Int
      BY DEF CellOf, Byte
    <3>3. \A k \in i..(i + m - 1) : k \in 0..(n - 1)
      BY <2>3
    <3> QED BY <3>1, <3>2, <3>3
  <2>5. \A k \in DOMAIN Window(e, d, i, m) : Window(e, d, i, m)[k] \in {0, 1}
    <3> HIDE DEF i, m
    <3> QED BY <1>3, <2>3, <2>4, WindowType
  <2> HIDE DEF i, m
  <2> QED BY <2>1, <2>5, ByteOfBits
<1> QED BY <1>1, <1>2, <1>3

\* The bits of an element that follow one another in the packed bytes.
BitsOf(e, bytes, k) == [b \in 0..(e - 1) |-> At(bytes, k * e + b)]

LEMMA BitsOfType ==
    ASSUME NEW e \in 1..8, NEW n \in Nat, NEW bytes, DOMAIN bytes = 0..(BytesFor(e, n) - 1),
           \A q \in DOMAIN bytes : bytes[q] \in Byte, NEW k \in 0..(Cells(e, n) - 1)
    PROVE  /\ DOMAIN BitsOf(e, bytes, k) = 0..(e - 1)
           /\ \A b \in 0..(e - 1) : BitsOf(e, bytes, k)[b] \in {0, 1}
<1> DEFINE f == BitsOf(e, bytes, k)
<1>1. ASSUME NEW b \in 0..(e - 1) PROVE At(bytes, k * e + b) \in {0, 1}
  <2>1. (k * e + b) \div 8 \in DOMAIN bytes /\ (k * e + b) % 8 \in 0..7
    BY BitsInBytes
  <2>2. bytes[(k * e + b) \div 8] \in Int
    <3>1. bytes[(k * e + b) \div 8] \in Byte
      BY <2>1
    <3>2. Byte \subseteq Int
      BY DEF Byte
    <3> QED BY <3>1, <3>2
  <2> QED BY <2>1, <2>2, BitType DEF At
<1>2. DOMAIN f = 0..(e - 1) /\ \A b \in 0..(e - 1) : f[b] = At(bytes, k * e + b)
  BY DEF BitsOf
<1> QED BY <1>1, <1>2

\* Unpacking puts them together, whatever the width.
LEMMA UnpackedIsStream ==
    ASSUME NEW e \in 1..8, NEW n \in Nat, NEW bytes, DOMAIN bytes = 0..(BytesFor(e, n) - 1),
           \A q \in DOMAIN bytes : bytes[q] \in Byte, NEW k \in 0..(Cells(e, n) - 1)
    PROVE  Unpacked(e, bytes, n)[k] = FromBits(BitsOf(e, bytes, k))
<1> DEFINE f == BitsOf(e, bytes, k)
<1>0. k \in Nat
  BY CellsFacts
<1>00. DOMAIN f = 0..(e - 1) /\ \A b \in 0..(e - 1) : f[b] \in {0, 1} /\ f[b] = At(bytes, k * e + b)
  BY BitsOfType DEF BitsOf
<1>1. CASE e = 1
  <2>1. f[0] = Bit(bytes[k \div 8], k % 8)
    <3>1. k * 1 + 0 = k /\ 0 \in 0..(1 - 1)
      BY <1>0
    <3> QED BY <1>00, <1>1, <3>1 DEF At
  <2>2. Unpacked(e, bytes, n)[k] = Bit(bytes[k \div 8], k % 8)
    BY <1>0, <1>1 DEF Unpacked
  <2>3. FromBits(f) = Weight(Ones(f))
    <3> HIDE DEF f
    <3> QED BY <1>00, <1>1, WeightOfBits, 0 \in 0..7, 1 - 1 = 0
  <2>4. DOMAIN f = {0} /\ f[0] \in {0, 1}
    BY <1>00, <1>1
  <2> HIDE DEF f
  <2>5. Weight(Ones(f)) = f[0]
    <3>1. \A b \in 1..7 : b \notin Ones(f)
      BY <2>4 DEF Ones
    <3>2. 0 \in Ones(f) <=> f[0] = 1
      BY <2>4 DEF Ones
    <3>3. Weight(Ones(f)) = IF 0 \in Ones(f) THEN 1 ELSE 0
      <4> PICK o : o = Ones(f)
        OBVIOUS
      <4>1. 1 \notin o /\ 2 \notin o /\ 3 \notin o /\ 4 \notin o /\ 5 \notin o /\ 6 \notin o /\ 7 \notin o
        BY <3>1
      <4> QED BY <4>1 DEF Weight
    <3> QED BY <2>4, <3>2, <3>3
  <2> QED BY <2>1, <2>2, <2>3, <2>5 DEF f
<1>2. CASE e = 8
  <2>1. BytesFor(e, n) = n /\ Cells(e, n) = n /\ Unpacked(e, bytes, n) = bytes
    BY <1>2, BytesForType DEF Unpacked
  <2>2. bytes[k] \in Byte
    BY <2>1
  <2>3. bytes[k] % 2^8 = FromBits([b \in 0..7 |-> Bit(bytes[k], b)])
    BY <2>2, LowBits, 8 \in 1..8, 8 - 1 = 7
  <2>4. bytes[k] % 2^8 = bytes[k]
    <3>1. PICK x \in 0..255 : x = bytes[k]
      BY <2>2 DEF Byte
    <3>2. x % 256 = x /\ 2^8 = 256
      OBVIOUS
    <3> QED BY <3>1, <3>2
  <2>5. \A b \in 0..7 : At(bytes, k * e + b) = Bit(bytes[k], b)
    <3> TAKE b \in 0..7
    <3>1. (k * 8 + b) \div 8 = k /\ (k * 8 + b) % 8 = b
      BY <1>0
    <3> QED BY <1>2, <3>1 DEF At
  <2>6. f = [b \in 0..7 |-> Bit(bytes[k], b)]
    BY <1>2, <2>5 DEF BitsOf
  <2> HIDE DEF f
  <2> QED BY <2>1, <2>3, <2>4, <2>6 DEF f
<1>3. CASE e \in 2..7
  <2>1. k \in 0..(n - 1)
    BY <1>3, CellsFacts, e # 1
  <2>2. Unpacked(e, bytes, n)[k] = IF k < Group(e) * (n \div Group(e))
                                   THEN FromGroup(e, bytes, k) ELSE FromTail(e, bytes, k)
    <3>1. Unpacked(e, bytes, n) = UnpackKernel(e, bytes, n)
      BY <1>3 DEF Unpacked
    <3> QED BY <2>1, <3>1, Zenon DEF UnpackKernel
  <2>3. FromGroup(e, bytes, k) = FromBits(f)
    BY <1>0, <1>3, FromGroupIsStream DEF BitsOf
  <2>4. FromTail(e, bytes, k) = FromBits(f)
    <3>1. bytes[(k * e) \div 8] \in Byte
      BY <1>3, <2>1, TailInBytes
    <3>2. ((k * e) % 8) + e > 8 => bytes[(k * e) \div 8 + 1] \in Byte
      BY <1>3, <2>1, TailInBytes
    <3> QED BY <1>0, <1>3, <3>1, <3>2, FromTailIsStream DEF BitsOf
  <2> HIDE DEF f
  <2> QED BY <2>2, <2>3, <2>4 DEF f
<1> QED BY <1>1, <1>2, <1>3

LEMMA UnpackedType ==
    ASSUME NEW e \in 1..8, NEW n \in Nat, NEW bytes, DOMAIN bytes = 0..(BytesFor(e, n) - 1),
           \A q \in DOMAIN bytes : bytes[q] \in Byte, NEW k \in 0..(Cells(e, n) - 1)
    PROVE  /\ Unpacked(e, bytes, n)[k] \in Int
           /\ Unpacked(e, bytes, n)[k] % 2^e = Unpacked(e, bytes, n)[k]
<1>1. PICK m \in 0..7 : m = e - 1 /\ m + 1 = e
  OBVIOUS
<1>2. PICK f : f = BitsOf(e, bytes, k)
  OBVIOUS
<1>3. DOMAIN f = 0..m /\ \A b \in 0..m : f[b] \in {0, 1}
  <2>1. /\ DOMAIN BitsOf(e, bytes, k) = 0..(e - 1)
        /\ \A b \in 0..(e - 1) : BitsOf(e, bytes, k)[b] \in {0, 1}
    BY BitsOfType
  <2> QED BY <1>1, <1>2, <2>1, Zenon
<1>40. PICK x : x = FromBits(f)
  OBVIOUS
<1>41. x \in 0..255
  BY <1>3, <1>40, FromBitsRange
<1>4. FromBits(f) % 2^(m + 1) = FromBits(f)
  BY <1>3, FromBitsRange
<1>5. Unpacked(e, bytes, n)[k] = FromBits(f)
  BY <1>2, UnpackedIsStream
<1>6. FromBits(f) \in Int
  BY <1>40, <1>41
<1>7. FromBits(f) % 2^e = FromBits(f)
  BY <1>1, <1>4, Zenon
<1> QED BY <1>5, <1>6, <1>7, Zenon

\* Packing and reading the stream gives back the elements.
LEMMA StreamOfPacked ==
    ASSUME NEW e \in 1..8, NEW n \in Nat, NEW d, DOMAIN d = 0..(Cells(e, n) - 1),
           \A k \in DOMAIN d : d[k] \in CellOf(e), NEW k \in 0..(n - 1)
    PROVE  FromBits(BitsOf(e, Packed(e, d, n), k)) = d[k] % 2^e
<1>1. \A b \in 0..(e - 1) : At(Packed(e, d, n), k * e + b) = Bit(d[k], b)
  BY PackedBits
<1>2. BitsOf(e, Packed(e, d, n), k) = [b \in 0..(e - 1) |-> Bit(d[k], b)]
  BY <1>1 DEF BitsOf
<1>3. d[k] \in Byte
  <2>1. k \in DOMAIN d
    BY InCells
  <2>2. CellOf(e) \subseteq Byte
    BY DEF CellOf, Byte
  <2> QED BY <2>1, <2>2
<1> QED BY <1>2, <1>3, LowBits, Zenon

-----------------------------------------------------------------------------
\* What cells, the buffer and the file hold.

\* Data d of a vector of size n.  The sizes are those that Memory is long enough for.
Holds(n, d) ==
    /\ n \in SizesOf[ell] \cup {0}
    /\ \A k \in DOMAIN d : d[k] \in CellOf(ell)

Contents ==
    /\ \A v \in Vec : Holds(Size(v), Data(v))
    /\ \A q \in DOMAIN aux.bytes : aux.bytes[q] \in Byte
    /\ file \in Seq(Int) /\ \A k \in 4..Len(file) : file[k] \in Byte

CInv == IInv /\ Contents

LEMMA CellsAreIntegers == CellOf(ell) \subseteq Int /\ 0 \in CellOf(ell)
  BY DEF CellOf, Byte

LEMMA ModInCell ==
    ASSUME ell \in 1..8, NEW x \in Int
    PROVE  x % 2^ell \in CellOf(ell)
<1>0. PICK m : m = 2^ell
  OBVIOUS
<1>1. m \in {2, 4, 8, 16, 32, 64, 128, 256} /\ (ell = 1 => m = 2)
  BY <1>0, PowersOfTwoAre
<1>2. x % m \in 0..(m - 1)
  BY <1>1, ModIsCong, m \in Nat \ {0}
<1>3. ell = 1 => x % m \in {0, 1}
  BY <1>1, <1>2
<1>4. x % m \in Byte
  BY <1>1, <1>2 DEF Byte
<1> QED BY <1>0, <1>3, <1>4 DEF CellOf

LEMMA RingInCell ==
    ASSUME ell \in 1..8, NEW x \in Ring(ell)
    PROVE  x \in CellOf(ell)
<1>0. PICK m : m = 2^ell
  OBVIOUS
<1>1. m \in {2, 4, 8, 16, 32, 64, 128, 256} /\ (ell = 1 => m = 2)
  BY <1>0, PowersOfTwoAre
<1>2. x \in 0..(m - 1)
  BY <1>0 DEF Ring
<1>3. (ell = 1 => x \in {0, 1}) /\ x \in 0..255
  BY <1>1, <1>2
<1> QED BY <1>3 DEF CellOf, Byte

LEMMA MaskedHolds ==
    ASSUME NEW n, NEW d, \A k \in DOMAIN d : d[k] \in CellOf(ell)
    PROVE  LET m == MaskPartialLastWord(d, n) IN \A k \in DOMAIN m : m[k] \in CellOf(ell)
  BY CellsAreIntegers DEF MaskPartialLastWord

LEMMA CanonicalHolds ==
    ASSUME ell \in 1..8, NEW n, NEW d, \A k \in DOMAIN d : d[k] \in Int
    PROVE  LET m == Canonical(d, n) IN \A k \in DOMAIN m : m[k] \in CellOf(ell)
<1> DEFINE r == [k \in DOMAIN d |-> d[k] % 2^ell]
<1>1. \A k \in DOMAIN r : r[k] \in CellOf(ell)
  BY ModInCell
<1> HIDE DEF r
<1>2. LET m == MaskPartialLastWord(r, n) IN \A k \in DOMAIN m : m[k] \in CellOf(ell)
  BY <1>1, MaskedHolds
<1> QED BY <1>2, Zenon DEF r, Canonical

\* Memory as it was found, read as bits or bytes.
LEMMA MemoryHolds ==
    ASSUME ell \in Ells, NEW n, n \in SizesOf[ell] \cup {0}, NEW m \in Memory,
           NEW k \in 0..(Cells(ell, n) - 1)
    PROVE  m[k] \in 0..255
<1>1. ell \in 1..8 /\ n \in Nat
  BY Widths
<1>2. Cells(ell, n) \in Nat /\ n <= Cells(ell, n) /\ (ell # 1 => Cells(ell, n) = n)
      /\ (ell = 1 => Cells(ell, n) - WordBits <= n /\ (n % WordBits = 0 => Cells(ell, n) = n))
  BY <1>1, CellsFacts
<1>3. n # 0
  <2> SUFFICES ASSUME n = 0 PROVE FALSE
    OBVIOUS
  <2>1. 0 % WordBits = 0
    BY WordAssumption, Z3
  <2> QED BY <1>2, <2>1
<1>4. k \in 0..(n + WordBits)
  BY <1>1, <1>2, WordAssumption
<1> QED BY <1>3, <1>4, MemoryAssumption

LEMMA FreshHolds ==
    ASSUME ell \in Ells, NEW n, n \in SizesOf[ell] \cup {0}, NEW m \in Memory
    PROVE  Holds(n, Fresh(n, m))
<1>1. ASSUME NEW k \in 0..(Cells(ell, n) - 1) PROVE Fresh(n, m)[k] \in CellOf(ell)
  <2>1. m[k] \in 0..255
    BY MemoryHolds
  <2>2. m[k] % 2 \in {0, 1}
    BY <2>1
  <2>3. Fresh(n, m)[k] \in IF ell = 1 THEN {0, m[k] % 2} ELSE {m[k]}
    BY DEF Fresh
  <2> QED BY <2>1, <2>2, <2>3 DEF CellOf, Byte
<1>2. DOMAIN Fresh(n, m) = 0..(Cells(ell, n) - 1)
  BY DEF Fresh
<1> QED BY <1>1, <1>2 DEF Holds

\* Where no file is written, only the objects and the buffer have to be looked at.
LEMMA ObjectsHold ==
    ASSUME Contents, UNCHANGED <<ell, aux, file>>, \A v \in Vec : Holds(vec'[v].n, vec'[v].data)
    PROVE  Contents'
  BY DEF Contents, Holds, Size, Data

LEMMA WriteHolds ==
    ASSUME CInv, UNCHANGED <<ell, aux, file>>, NEW o \in Vec, NEW d, Write(o, d),
           \A k \in DOMAIN d : d[k] \in CellOf(ell)
    PROVE  Contents'
<1>1. \A v \in Vec : vec'[v] = IF v = o THEN [n |-> Size(o), data |-> d] ELSE vec[v]
  BY DEF Write, CInv, IInv, Objects
<1>2. \A v \in Vec : Holds(vec'[v].n, vec'[v].data)
  BY <1>1 DEF CInv, Contents, Holds, Size, Data
<1> QED BY <1>2, ObjectsHold DEF CInv

LEMMA QuietHolds == CInv /\ UNCHANGED <<ell, vec, aux, file>> => Contents'
  BY DEF CInv, Contents, Holds, Size, Data

\* A call that writes d or throws.
LEMMA WritingHolds ==
    ASSUME CInv, UNCHANGED <<ell, aux, file>>, NEW o \in Vec, NEW d, UNCHANGED vec \/ Write(o, d),
           \A k \in DOMAIN d : d[k] \in CellOf(ell)
    PROVE  Contents'
  BY QuietHolds, WriteHolds

LEMMA VectorFacts ==
    ASSUME CInv, NEW v \in Vec
    PROVE  /\ Size(v) \in Nat /\ DOMAIN Data(v) = 0..(Cells(ell, Size(v)) - 1) /\ ell \in Ells /\ ell \in 1..8
           /\ Holds(Size(v), Data(v)) /\ \A k \in DOMAIN Data(v) : Data(v)[k] \in Int
<1>1. Holds(Size(v), Data(v))
  BY DEF CInv, Contents
<1> QED BY <1>1, SizesOfObjects, CellsAreIntegers DEF CInv, Holds

-----------------------------------------------------------------------------
\* Every call keeps to what cells can hold.

LEMMA ConstructHolds ==
    ASSUME CInv, NEW o \in Vec, NEW n \in SizesOf[ell], NEW m \in Memory, Construct(o, n, m)
    PROVE  Contents'
<1>1. UNCHANGED <<ell, aux, file>> /\ vec' = [vec EXCEPT ![o] = New(n, m)]
  BY DEF Construct
<1>2. Holds(n, Fresh(n, m))
  BY FreshHolds DEF CInv, IInv
<1>3. \A v \in Vec : vec'[v] = IF v = o THEN [n |-> n, data |-> Fresh(n, m)] ELSE vec[v]
  BY <1>1 DEF New, CInv, IInv, Objects
<1>4. \A v \in Vec : Holds(vec'[v].n, vec'[v].data)
  BY <1>2, <1>3 DEF CInv, Contents, Size, Data
<1> QED BY <1>1, <1>4, ObjectsHold DEF CInv

LEMMA ConstructFilledHolds ==
    ASSUME CInv, NEW o \in Vec, NEW n \in SizesOf[ell], NEW x, ConstructFilled(o, n, x)
    PROVE  Contents'
<1> DEFINE raw == [k \in 0..(Cells(ell, n) - 1) |-> x]
           d == MaskPartialLastWord(raw, n)
<1>1. /\ UNCHANGED <<ell, aux, file>>
      /\ \/ x \in Ring(ell) /\ vec' = [vec EXCEPT ![o] = [n |-> n, data |-> d]]
         \/ UNCHANGED vec
  BY DEF ConstructFilled
<1>2. CASE x \in Ring(ell) /\ vec' = [vec EXCEPT ![o] = [n |-> n, data |-> d]]
  <2>1. x \in CellOf(ell)
    BY <1>2, RingInCell, Widths DEF CInv, IInv
  <2>2. \A k \in DOMAIN raw : raw[k] \in CellOf(ell)
    BY <2>1
  <2> HIDE DEF raw
  <2>3. Holds(n, d)
    BY <2>2, MaskedHolds DEF Holds
  <2> HIDE DEF d
  <2>4. \A v \in Vec : vec'[v] = IF v = o THEN [n |-> n, data |-> d] ELSE vec[v]
    BY <1>2 DEF CInv, IInv, Objects
  <2>5. \A v \in Vec : Holds(vec'[v].n, vec'[v].data)
    BY <2>3, <2>4 DEF CInv, Contents, Size, Data
  <2> QED BY <1>1, <2>5, ObjectsHold DEF CInv
<1> QED BY <1>1, <1>2, QuietHolds

LEMMA CopyMoveHolds ==
    ASSUME CInv, NEW a \in Vec, NEW o \in Vec, Copy(a, o) \/ Move(a, o)
    PROVE  Contents'
<1>1. /\ UNCHANGED <<ell, aux, file>>
      /\ \/ UNCHANGED vec
         \/ vec' = [vec EXCEPT ![o] = vec[a]]
         \/ vec' = [vec EXCEPT ![o] = vec[a], ![a] = Nothing]
  BY DEF Copy, Move
<1>2. Holds(Nothing.n, Nothing.data)
  BY DEF Holds, Nothing
<1>3. \A v \in Vec : vec'[v] = Nothing \/ \E u \in Vec : vec'[v] = vec[u]
  BY <1>1 DEF CInv, IInv, Objects
<1>4. \A v \in Vec : Holds(vec'[v].n, vec'[v].data)
  BY <1>2, <1>3 DEF CInv, Contents, Size, Data
<1> QED BY <1>1, <1>4, ObjectsHold DEF CInv

LEMMA FillHolds ==
    ASSUME CInv, NEW o \in Vec, NEW x, Fill(o, x)
    PROVE  Contents'
<1> DEFINE F == [k \in DOMAIN Data(o) |-> x]
<1>1. UNCHANGED <<ell, aux, file>>
      /\ (UNCHANGED vec \/ (x \in Ring(ell) /\ Write(o, MaskPartialLastWord(F, Size(o)))))
  BY DEF Fill
<1>2. ASSUME x \in Ring(ell) PROVE \A k \in DOMAIN F : F[k] \in CellOf(ell)
  BY <1>2, RingInCell, VectorFacts
<1> HIDE DEF F
<1> QED BY <1>1, <1>2, MaskedHolds, WriteHolds, QuietHolds

\* What fresh memory and the random generator give for the cells of a vector.
LEMMA MemoryInCells ==
    ASSUME CInv, NEW o \in Vec, NEW m \in Memory, NEW k \in DOMAIN Data(o)
    PROVE  m[k] \in Int
<1>1. Size(o) \in SizesOf[ell] \cup {0} /\ ell \in Ells /\ k \in 0..(Cells(ell, Size(o)) - 1)
  BY VectorFacts DEF Holds
<1>2. m[k] \in 0..255
  BY <1>1, MemoryHolds
<1> QED BY <1>2

LEMMA RandFillHolds ==
    ASSUME CInv, NEW o \in Vec, NEW m \in Memory, RandFill(o, m)
    PROVE  Contents'
<1> DEFINE G == [k \in DOMAIN Data(o) |-> m[k] % 2^ell]
<1>1. UNCHANGED <<ell, aux, file>>
      /\ (UNCHANGED vec \/ Write(o, MaskPartialLastWord(G, Size(o))))
  BY DEF RandFill
<1>2. \A k \in DOMAIN G : G[k] \in CellOf(ell)
  BY MemoryInCells, ModInCell, VectorFacts
<1> HIDE DEF G
<1> QED BY <1>1, <1>2, MaskedHolds, WritingHolds

LEMMA FromBytesHolds ==
    ASSUME CInv, NEW o \in Vec, NEW m \in Memory, NEW c, FromBytes(o, m, c)
    PROVE  Contents'
<1> DEFINE H == [k \in DOMAIN Data(o) |-> IF ell = 1 THEN m[k] % 2 ELSE m[k]]
<1>1. UNCHANGED <<ell, aux, file>>
      /\ (UNCHANGED vec \/ Write(o, Canonical(H, Size(o))))
  BY DEF FromBytes
<1>2. \A k \in DOMAIN H : H[k] \in Int
  <2>1. \A k \in DOMAIN Data(o) : m[k] \in Int /\ m[k] % 2 \in Int
    BY MemoryInCells
  <2> QED BY <2>1
<1> HIDE DEF H
<1> QED BY <1>1, <1>2, CanonicalHolds, VectorFacts, WritingHolds

LEMMA SetHolds ==
    ASSUME CInv, NEW o \in Vec, NEW i, NEW x, Set(o, i, x)
    PROVE  Contents'
<1> DEFINE d == [Data(o) EXCEPT ![i] = x]
<1>1. UNCHANGED <<ell, aux, file>> /\ (UNCHANGED vec \/ (x \in Ring(ell) /\ Write(o, d)))
  BY DEF Set
<1>2. ASSUME x \in Ring(ell) PROVE \A k \in DOMAIN d : d[k] \in CellOf(ell)
  BY <1>2, RingInCell, VectorFacts DEF Holds
<1> HIDE DEF d
<1> QED BY <1>1, <1>2, WriteHolds, QuietHolds

LEMMA BatchSetHolds ==
    ASSUME CInv, NEW o \in Vec, NEW idx \in IndexLists, NEW x, BatchSet(o, idx, x)
    PROVE  Contents'
<1> DEFINE hit == {idx[k] : k \in Prefix(idx, Size(o))}
           d == [k \in DOMAIN Data(o) |-> IF k \in hit THEN x ELSE Data(o)[k]]
<1>1. UNCHANGED <<ell, aux, file>> /\ (UNCHANGED vec \/ (x \in Ring(ell) /\ Write(o, d)))
  BY DEF BatchSet
<1> HIDE DEF hit
<1>2. ASSUME x \in Ring(ell) PROVE \A k \in DOMAIN d : d[k] \in CellOf(ell)
  BY <1>2, RingInCell, VectorFacts DEF Holds
<1> HIDE DEF d
<1> QED BY <1>1, <1>2, WriteHolds, QuietHolds

LEMMA BatchGetHolds ==
    ASSUME CInv, NEW a \in Vec, NEW o \in Vec, NEW idx \in IndexLists, BatchGet(a, idx, o)
    PROVE  Contents'
<1> DEFINE P == Prefix(idx, Size(a))
           d == [k \in DOMAIN Data(o) |->
                    IF k + 1 \in P THEN Data(a)[idx[k + 1]] % 2^ell ELSE Data(o)[k]]
<1>1. UNCHANGED <<ell, aux, file>> /\ (UNCHANGED vec \/ Write(o, d))
  BY DEF BatchGet
<1>2. \A j \in P : Data(a)[idx[j]] % 2^ell \in CellOf(ell)
  <2> TAKE j \in P
  <2>1. idx[j] \in Nat /\ idx[j] < Size(a)
    BY VectorFacts, PrefixInRange
  <2>2. Size(a) <= Cells(ell, Size(a)) /\ Cells(ell, Size(a)) \in Nat /\ Size(a) \in Nat
    BY VectorFacts, CellsFacts
  <2>3. idx[j] \in DOMAIN Data(a)
    BY <2>1, <2>2, VectorFacts
  <2> QED BY <2>3, VectorFacts, ModInCell
<1> HIDE DEF P
<1>3. \A k \in DOMAIN d : d[k] \in CellOf(ell)
  BY <1>2, VectorFacts DEF Holds
<1> HIDE DEF d
<1> QED BY <1>1, <1>3, WritingHolds

\* The loops of the arithmetic: cells of a ring, masked to the size of o.
LEMMA LoopHolds ==
    ASSUME CInv, NEW o \in Vec, UNCHANGED <<ell, aux, file>>, NEW d, NEW n,
           \/ UNCHANGED vec
           \/ (\A k \in DOMAIN d : d[k] \in CellOf(ell)) /\ Write(o, MaskPartialLastWord(d, n))
    PROVE  Contents'
  BY MaskedHolds, WriteHolds, QuietHolds

LEMMA ProductType == \A x, y \in Int : x * y \in Int
  BY Z3

LEMMA ArithmeticHolds ==
    ASSUME CInv, NEW a \in Vec, NEW b \in Vec, NEW o \in Vec,
           Add(a, b, o) \/ Sub(a, b, o) \/ Hadamard(a, b, o)
    PROVE  Contents'
<1>1. ASSUME Size(a) = Size(b), NEW k \in DOMAIN Data(a) PROVE Data(a)[k] \in Int /\ Data(b)[k] \in Int
  BY <1>1, VectorFacts
<1>2. ell \in 1..8
  BY VectorFacts
<1>3. CASE Add(a, b, o)
  <2> DEFINE d == [k \in DOMAIN Data(a) |-> (Data(a)[k] + Data(b)[k]) % 2^ell]
  <2>1. /\ UNCHANGED <<ell, aux, file>>
        /\ UNCHANGED vec \/ (Size(a) = Size(b) /\ Write(o, MaskPartialLastWord(d, Size(o))))
    BY <1>3 DEF Add, Zip
  <2>2. ASSUME Size(a) = Size(b), NEW k \in DOMAIN d PROVE d[k] \in CellOf(ell)
    <3>1. Data(a)[k] + Data(b)[k] \in Int
      BY <1>1, <2>2
    <3> QED BY <1>2, <3>1, ModInCell
  <2> HIDE DEF d
  <2>3. \/ UNCHANGED vec
        \/ (\A k \in DOMAIN d : d[k] \in CellOf(ell)) /\ Write(o, MaskPartialLastWord(d, Size(o)))
    BY <2>1, <2>2
  <2> QED BY <2>1, <2>3, LoopHolds
<1>4. CASE Sub(a, b, o)
  <2> DEFINE d == [k \in DOMAIN Data(a) |-> (Data(a)[k] - Data(b)[k]) % 2^ell]
  <2>1. /\ UNCHANGED <<ell, aux, file>>
        /\ UNCHANGED vec \/ (Size(a) = Size(b) /\ Write(o, MaskPartialLastWord(d, Size(o))))
    BY <1>4 DEF Sub, Zip
  <2>2. ASSUME Size(a) = Size(b), NEW k \in DOMAIN d PROVE d[k] \in CellOf(ell)
    <3>1. Data(a)[k] - Data(b)[k] \in Int
      BY <1>1, <2>2
    <3> QED BY <1>2, <3>1, ModInCell
  <2> HIDE DEF d
  <2>3. \/ UNCHANGED vec
        \/ (\A k \in DOMAIN d : d[k] \in CellOf(ell)) /\ Write(o, MaskPartialLastWord(d, Size(o)))
    BY <2>1, <2>2
  <2> QED BY <2>1, <2>3, LoopHolds
<1>5. CASE Hadamard(a, b, o)
  <2> DEFINE d == [k \in DOMAIN Data(a) |-> (Data(a)[k] * Data(b)[k]) % 2^ell]
  <2>1. /\ UNCHANGED <<ell, aux, file>>
        /\ UNCHANGED vec \/ (Size(a) = Size(b) /\ Write(o, MaskPartialLastWord(d, Size(o))))
    BY <1>5 DEF Hadamard, Zip
  <2>2. ASSUME Size(a) = Size(b), NEW k \in DOMAIN d PROVE d[k] \in CellOf(ell)
    <3>1. Data(a)[k] * Data(b)[k] \in Int
      BY <1>1, <2>2, ProductType
    <3> QED BY <1>2, <3>1, ModInCell
  <2> HIDE DEF d
  <2>3. \/ UNCHANGED vec
        \/ (\A k \in DOMAIN d : d[k] \in CellOf(ell)) /\ Write(o, MaskPartialLastWord(d, Size(o)))
    BY <2>1, <2>2
  <2> QED BY <2>1, <2>3, LoopHolds
<1> QED BY <1>3, <1>4, <1>5

LEMMA ScalarArithmeticHolds ==
    ASSUME CInv, NEW a \in Vec, NEW o \in Vec, NEW x,
           AddScalar(a, x, o) \/ SubScalar(a, x, o) \/ MulScalar(a, x, o)
    PROVE  Contents'
<1>1. ASSUME x \in Ring(ell), NEW k \in DOMAIN Data(a) PROVE Data(a)[k] \in Int /\ x \in Int
  BY <1>1, VectorFacts, RingInCell, CellsAreIntegers
<1>2. ell \in 1..8
  BY VectorFacts
<1>3. CASE AddScalar(a, x, o)
  <2> DEFINE d == [k \in DOMAIN Data(a) |-> (Data(a)[k] + x) % 2^ell]
  <2>1. /\ UNCHANGED <<ell, aux, file>>
        /\ UNCHANGED vec \/ (x \in Ring(ell) /\ Write(o, MaskPartialLastWord(d, Size(o))))
    BY <1>3 DEF AddScalar, Scale
  <2>2. ASSUME x \in Ring(ell), NEW k \in DOMAIN d PROVE d[k] \in CellOf(ell)
    <3>1. Data(a)[k] + x \in Int
      BY <1>1, <2>2
    <3> QED BY <1>2, <3>1, ModInCell
  <2> HIDE DEF d
  <2>3. \/ UNCHANGED vec
        \/ (\A k \in DOMAIN d : d[k] \in CellOf(ell)) /\ Write(o, MaskPartialLastWord(d, Size(o)))
    BY <2>1, <2>2
  <2> QED BY <2>1, <2>3, LoopHolds
<1>4. CASE SubScalar(a, x, o)
  <2> DEFINE d == [k \in DOMAIN Data(a) |-> (Data(a)[k] - x) % 2^ell]
  <2>1. /\ UNCHANGED <<ell, aux, file>>
        /\ UNCHANGED vec \/ (x \in Ring(ell) /\ Write(o, MaskPartialLastWord(d, Size(o))))
    BY <1>4 DEF SubScalar, Scale
  <2>2. ASSUME x \in Ring(ell), NEW k \in DOMAIN d PROVE d[k] \in CellOf(ell)
    <3>1. Data(a)[k] - x \in Int
      BY <1>1, <2>2
    <3> QED BY <1>2, <3>1, ModInCell
  <2> HIDE DEF d
  <2>3. \/ UNCHANGED vec
        \/ (\A k \in DOMAIN d : d[k] \in CellOf(ell)) /\ Write(o, MaskPartialLastWord(d, Size(o)))
    BY <2>1, <2>2
  <2> QED BY <2>1, <2>3, LoopHolds
<1>5. CASE MulScalar(a, x, o)
  <2> DEFINE d == [k \in DOMAIN Data(a) |-> (Data(a)[k] * x) % 2^ell]
  <2>1. /\ UNCHANGED <<ell, aux, file>>
        /\ UNCHANGED vec \/ (x \in Ring(ell) /\ Write(o, MaskPartialLastWord(d, Size(o))))
    BY <1>5 DEF MulScalar, Scale
  <2>2. ASSUME x \in Ring(ell), NEW k \in DOMAIN d PROVE d[k] \in CellOf(ell)
    <3>1. Data(a)[k] * x \in Int
      BY <1>1, <2>2, ProductType
    <3> QED BY <1>2, <3>1, ModInCell
  <2> HIDE DEF d
  <2>3. \/ UNCHANGED vec
        \/ (\A k \in DOMAIN d : d[k] \in CellOf(ell)) /\ Write(o, MaskPartialLastWord(d, Size(o)))
    BY <2>1, <2>2
  <2> QED BY <2>1, <2>3, LoopHolds
<1> QED BY <1>3, <1>4, <1>5

-----------------------------------------------------------------------------
\* Packs and files

LEMMA AuxWithHolds ==
    ASSUME CInv, NEW a \in Vec, Fits(a), NEW q \in DOMAIN AuxWith(a).bytes
    PROVE  AuxWith(a).bytes[q] \in Byte
<1>1. AuxWith(a).bytes = Packed(ell, Data(a), Size(a))
  BY DEF AuxWith, CInv, IInv, Buffer
<1>2. q \in 0..(BytesFor(ell, Size(a)) - 1)
  BY <1>1, PackedDomain DEF CInv
<1> QED BY <1>1, <1>2, PackedType, VectorFacts DEF Holds

LEMMA SequenceType ==
    ASSUME NEW B \in Nat, NEW bytes, DOMAIN bytes = 0..(B - 1), \A q \in DOMAIN bytes : bytes[q] \in Byte
    PROVE  Sequence(bytes) \in Seq(Byte)
<1>1. Cardinality(DOMAIN bytes) = B
  BY FS_Interval, 0 \in Int, B - 1 \in Int
<1> QED BY <1>1 DEF Sequence

LEMMA ImageType ==
    ASSUME NEW e \in Int, NEW n \in Int, NEW s \in Seq(Byte), NEW f \in Prefixes(Header(e, n) \o s)
    PROVE  f \in Seq(Int) /\ \A k \in 4..Len(f) : f[k] \in Byte
<1> DEFINE i == Header(e, n) \o s
<1>1. s \in Seq(Int) /\ \A k \in 1..Len(s) : s[k] \in Byte
  <2>1. Byte \subseteq Int
    BY DEF Byte
  <2> QED BY <2>1, SeqMonotonic, ElementOfSeq
<1>2. Header(e, n) \in Seq(Int) /\ Len(Header(e, n)) = 3
  BY DEF Header, FILE_MAGIC
<1> HIDE DEF Header
<1>3. i \in Seq(Int) /\ Len(i) = 3 + Len(s) /\ \A k \in 4..Len(i) : i[k] = s[k - 3]
  <2>1. PICK h \in Seq(Int) : h = Header(e, n) /\ Len(h) = 3
    BY <1>2
  <2>2. i = h \o s
    BY <2>1
  <2> HIDE DEF i
  <2>3. /\ h \o s \in Seq(Int) /\ Len(h \o s) = Len(h) + Len(s)
        /\ \A k \in 1..(Len(h) + Len(s)) : (h \o s)[k] = IF k <= Len(h) THEN h[k] ELSE s[k - Len(h)]
    BY <1>1, ConcatProperties
  <2>4. PICK l \in Nat : l = Len(s)
    BY <1>1
  <2>5. \A k \in 4..(3 + l) : k \in 1..(3 + l) /\ ~(k <= 3)
    OBVIOUS
  <2> QED BY <2>1, <2>2, <2>3, <2>4, <2>5
<1>4. \A k \in 4..Len(i) : i[k] \in Byte
  BY <1>1, <1>3
<1>5. PICK j \in {0, 2, 3, Len(i) - 1, Len(i)} : f = SubSeq(i, 1, j)
  BY DEF Prefixes
<1> HIDE DEF i
<1>6. j \in 0..Len(i)
  BY <1>3, <1>5
<1>7. f \in Seq(Int) /\ Len(f) = j /\ \A k \in 1..j : f[k] = i[k]
  BY <1>3, <1>5, <1>6
<1> QED BY <1>3, <1>4, <1>6, <1>7

LEMMA PackHolds ==
    ASSUME CInv, NEW a \in Vec, PackRvec(a)
    PROVE  Contents'
<1>1. UNCHANGED <<ell, vec, file>> /\ ((Fits(a) /\ aux' = AuxWith(a)) \/ UNCHANGED aux)
  BY DEF PackRvec
<1> QED BY <1>1, AuxWithHolds DEF CInv, Contents, Holds, Size, Data

\* What save writes, header and packed bytes: what ends up on file are bytes.
LEMMA ImageHolds ==
    ASSUME CInv, NEW a \in Vec, NEW f,
           f \in Prefixes(Image(a)) \/ f \in Prefixes(Header(ell, Size(a)))
    PROVE  f \in Seq(Int) /\ \A k \in 4..Len(f) : f[k] \in Byte
<1>1. PICK s \in Seq(Byte) : f \in Prefixes(Header(ell, Size(a)) \o s)
  <2> DEFINE h == Header(ell, Size(a))
  <2>1. h \o <<>> = h
    BY DEF Header, FILE_MAGIC
  <2> HIDE DEF h
  <2>2. ASSUME Fits(a) PROVE Sequence(AuxWith(a).bytes) \in Seq(Byte)
    <3>1. AuxWith(a).bytes = Packed(ell, Data(a), Size(a))
      BY DEF AuxWith, CInv, IInv, Buffer
    <3>2. DOMAIN AuxWith(a).bytes = 0..(BytesFor(ell, Size(a)) - 1)
      BY <3>1, PackedDomain DEF CInv
    <3> QED BY <2>2, <3>2, AuxWithHolds, SequenceType, BytesForCount, VectorFacts
  <2>3. <<>> \in Seq(Byte)
    OBVIOUS
  <2>4. Image(a) = h \o IF Fits(a) THEN Sequence(AuxWith(a).bytes) ELSE <<>>
    BY DEF Image, h
  <2>5. CASE f \in Prefixes(Image(a)) /\ Fits(a)
    BY <2>2, <2>4, <2>5 DEF h
  <2>6. CASE f \in Prefixes(h) \/ (f \in Prefixes(Image(a)) /\ ~Fits(a))
    BY <2>1, <2>3, <2>4, <2>6 DEF h
  <2> QED BY <2>5, <2>6 DEF h
<1> QED BY <1>1, VectorFacts, ImageType, SMTT(40)

LEMMA SaveHolds ==
    ASSUME CInv, NEW a \in Vec, Save(a)
    PROVE  Contents'
<1>1. UNCHANGED <<ell, vec>> /\ (UNCHANGED aux \/ (Fits(a) /\ aux' = AuxWith(a)))
  BY DEF Save, Call
<1>2. UNCHANGED file \/ file' \in Prefixes(Image(a)) \/ file' \in Prefixes(Header(ell, Size(a)))
  BY DEF Save, Opens
<1>3. file' \in Seq(Int) /\ \A k \in 4..Len(file') : file'[k] \in Byte
  BY <1>2, ImageHolds DEF CInv, Contents
<1> QED BY <1>1, <1>3, AuxWithHolds DEF CInv, Contents, Holds, Size, Data

LEMMA NewPackHolds ==
    ASSUME CInv, NEW e, NEW n, NewPack(e, n)
    PROVE  Contents'
<1>1. UNCHANGED <<ell, vec, file>> /\ aux' = EmptyPack(e, n)
  BY DEF NewPack
<1>2. 0 \in Byte
  BY DEF Byte
<1> QED BY <1>1, <1>2 DEF CInv, Contents, Holds, Size, Data, EmptyPack

\* Unpacking a buffer that fits.
LEMMA UnpackingHolds ==
    ASSUME CInv, NEW o \in Vec, Fits(o), NEW bytes, DOMAIN bytes = DOMAIN aux.bytes,
           \A q \in DOMAIN bytes : bytes[q] \in Byte
    PROVE  LET d == Canonical(Unpacked(ell, bytes, Size(o)), Size(o))
           IN  \A k \in DOMAIN d : d[k] \in CellOf(ell)
<1>1. DOMAIN bytes = 0..(BytesFor(ell, Size(o)) - 1) /\ Size(o) \in Nat /\ ell \in 1..8
  BY VectorFacts DEF CInv, IInv, Buffer, Fits
<1>2. DOMAIN Unpacked(ell, bytes, Size(o)) = 0..(Cells(ell, Size(o)) - 1)
  <2>1. Stored(Size(o), Canonical(Unpacked(ell, bytes, Size(o)), Size(o)))
    BY UnpackedDomain DEF CInv
  <2> QED BY <2>1 DEF Stored, Canonical, MaskPartialLastWord
<1>3. \A k \in DOMAIN Unpacked(ell, bytes, Size(o)) : Unpacked(ell, bytes, Size(o))[k] \in Int
  BY <1>1, <1>2, UnpackedType
<1> QED BY <1>1, <1>3, CanonicalHolds

LEMMA UnpackHolds ==
    ASSUME CInv, NEW o \in Vec, UnpackRvec(o)
    PROVE  Contents'
<1> DEFINE d == Canonical(Unpacked(ell, aux.bytes, Size(o)), Size(o))
<1>1. UNCHANGED <<ell, aux, file>> /\ (UNCHANGED vec \/ (Fits(o) /\ Write(o, d)))
  BY DEF UnpackRvec
<1>2. ASSUME Fits(o) PROVE \A k \in DOMAIN d : d[k] \in CellOf(ell)
  BY <1>2, UnpackingHolds DEF CInv, Contents
<1> HIDE DEF d
<1> QED BY <1>1, <1>2, WriteHolds, QuietHolds

LEMMA LoadHolds ==
    ASSUME CInv, NEW o \in Vec, Load(o)
    PROVE  Contents'
<1> DEFINE payload == SubSeq(file, 4, Len(file))
           bytes == [q \in DOMAIN aux.bytes |-> IF q < Len(payload) THEN payload[q + 1] ELSE aux.bytes[q]]
           d == Canonical(Unpacked(ell, bytes, Size(o)), Size(o))
<1>1. /\ UNCHANGED <<ell, file>>
      /\ UNCHANGED aux \/ aux' = [aux EXCEPT !.bytes = bytes]
      /\ UNCHANGED vec \/ (Fits(o) /\ Write(o, d))
  BY DEF Load
<1>2. DOMAIN aux.bytes \subseteq Nat
  <2>1. DOMAIN aux.bytes = 0..(BytesFor(aux.ell, aux.n) - 1)
    BY DEF CInv, IInv, Buffer
  <2>2. \A x, z : x \in 0..z => x \in Int /\ 0 <= x
    OBVIOUS
  <2> QED BY <2>1, <2>2
<1>3. \A q \in DOMAIN bytes : bytes[q] \in Byte
  <2> TAKE q \in DOMAIN bytes
  <2>1. CASE q < Len(payload)
    <3>1. q \in Nat /\ file \in Seq(Int)
      BY <1>2 DEF CInv, Contents
    <3>2. 4 + q \in 4..Len(file) /\ payload[q + 1] = file[4 + q]
      BY <2>1, <3>1
    <3> QED BY <2>1, <3>2 DEF CInv, Contents
  <2>2. CASE ~(q < Len(payload))
    BY <2>2 DEF CInv, Contents
  <2> QED BY <2>1, <2>2
<1>4. DOMAIN bytes = DOMAIN aux.bytes
  OBVIOUS
<1> HIDE DEF bytes
<1>5. ASSUME Fits(o) PROVE \A k \in DOMAIN d : d[k] \in CellOf(ell)
  BY <1>3, <1>4, <1>5, UnpackingHolds
<1> HIDE DEF d
<1>6. \A v \in Vec : Holds(vec'[v].n, vec'[v].data)
  <2>1. CASE UNCHANGED vec
    BY <2>1 DEF CInv, Contents, Size, Data
  <2>2. CASE Fits(o) /\ Write(o, d)
    <3>1. \A v \in Vec : vec'[v] = IF v = o THEN [n |-> Size(o), data |-> d] ELSE vec[v]
      BY <2>2 DEF Write, CInv, IInv, Objects
    <3> QED BY <1>5, <2>2, <3>1 DEF CInv, Contents, Holds, Size, Data
  <2> QED BY <1>1, <2>1, <2>2
<1>7. \A q \in DOMAIN aux'.bytes : aux'.bytes[q] \in Byte
  <2>1. CASE aux' = [aux EXCEPT !.bytes = bytes]
    <3>1. aux'.bytes = bytes
      BY <2>1 DEF CInv, IInv, Buffer
    <3> QED BY <1>3, <3>1
  <2> QED BY <1>1, <2>1 DEF CInv, Contents
<1> QED BY <1>1, <1>6, <1>7 DEF CInv, Contents, Holds, Size, Data

LEMMA CrashHolds ==
    ASSUME CInv, NEW a \in Vec, Crash(a)
    PROVE  Contents'
<1>1. PICK n \in SizesOf[ell], m \in Memory : vec' = [v \in Vec |-> New(n, m)] /\ aux' = EmptyPack(ell, n)
  BY DEF Crash
<1>2. UNCHANGED ell /\ (UNCHANGED file \/ file' \in Prefixes(Image(a)))
  BY DEF Crash, Call, Opens
<1>3. file' \in Seq(Int) /\ \A k \in 4..Len(file') : file'[k] \in Byte
  BY <1>2, ImageHolds DEF CInv, Contents
<1>4. Holds(n, Fresh(n, m))
  BY FreshHolds DEF CInv, IInv
<1>5. \A v \in Vec : vec'[v] = [n |-> n, data |-> Fresh(n, m)]
  BY <1>1 DEF New
<1>6. \A v \in Vec : Holds(vec'[v].n, vec'[v].data)
  BY <1>4, <1>5
<1>7. 0 \in Byte
  BY DEF Byte
<1> QED BY <1>1, <1>2, <1>3, <1>6, <1>7 DEF Contents, Holds, Size, Data, EmptyPack

-----------------------------------------------------------------------------
\* Type correctness

LEMMA InitCInv == Init => CInv
<1> SUFFICES ASSUME Init PROVE CInv
  OBVIOUS
<1>1. PICK n \in SizesOf[ell] : vec \in [Vec -> {New(n, m) : m \in Memory}] /\ aux = EmptyPack(ell, n)
  BY DEF Init
<1>2. ASSUME NEW v \in Vec PROVE Holds(Size(v), Data(v))
  <2>1. PICK m \in Memory : vec[v] = New(n, m)
    BY <1>1
  <2>2. Size(v) = n /\ Data(v) = Fresh(n, m)
    BY <2>1 DEF New, Size, Data
  <2> QED BY <2>2, FreshHolds DEF Init
<1>3. \A q \in DOMAIN aux.bytes : aux.bytes[q] \in Byte
  <2>1. 0 \in Byte
    BY DEF Byte
  <2> QED BY <1>1, <2>1 DEF EmptyPack
<1>4. file = <<>>
  BY DEF Init
<1> QED BY <1>2, <1>3, <1>4, InitIInv DEF CInv, Contents

LEMMA NextCInv == CInv /\ [Next]_vars => CInv'
<1> SUFFICES ASSUME CInv, [Next]_vars PROVE Contents'
  BY NextIInv DEF CInv
<1>1. ASSUME NEW a \in Vec, NEW b \in Vec, NEW i,
             Get(a, i) \/ Dot(a, b) \/ Equal(a, b) \/ Reduce(a) \/ LoadFails(a)
      PROVE  Contents'
  BY <1>1, QuietHolds DEF Get, Dot, Equal, Reduce, LoadFails, Call
<1>2. CASE UNCHANGED vars
  BY <1>2, QuietHolds DEF vars
<1>3. CASE Next
  BY <1>1, <1>3, ConstructHolds, ConstructFilledHolds, CopyMoveHolds, FillHolds, RandFillHolds,
     FromBytesHolds, SetHolds, BatchSetHolds, BatchGetHolds, ArithmeticHolds, ScalarArithmeticHolds,
     PackHolds, NewPackHolds, UnpackHolds, SaveHolds, CrashHolds, LoadHolds DEF Next
<1> QED BY <1>2, <1>3

\* Whatever memory, the buffer or a file held before, after any calls, thrown or not,
\* cells hold what their type can, and storage and buffers are as long as their sizes
\* ask for: the packing kernels, which have no bounds checks, read and write only
\* what exists, for every width.
THEOREM TypeCorrect == Spec => []TypeOK
<1>1. CInv => TypeOK
  BY DEF CInv, IInv, Objects, Stored, Buffer, Contents, Holds, CellOf, TypeOK
<1> QED BY <1>1, InitCInv, NextCInv, PTL DEF Spec

-----------------------------------------------------------------------------
\* What a caller sees after a call that writes.

LEMMA Modulus ==
    ASSUME ell \in 1..8
    PROVE  2^ell \in Nat \ {0}
  BY PowersOfTwo

LEMMA WrittenElems ==
    ASSUME CInv, NEW o \in Vec, NEW f, Write(o, f),
           NEW n, n = Size(o), NEW h, \A k \in 0..(n - 1) : f[k] % 2^ell = h[k]
    PROVE  Elems(vec'[o]) = [k \in 0..(n - 1) |-> h[k]]
<1>1. vec'[o] = [n |-> Size(o), data |-> f]
  BY DEF Write, CInv, IInv, Objects
<1> QED BY <1>1 DEF Elems

LEMMA MaskedElems ==
    ASSUME CInv, NEW o \in Vec, NEW f, DOMAIN f = DOMAIN Data(o), Write(o, MaskPartialLastWord(f, Size(o))),
           NEW n, n = Size(o), NEW h, \A k \in 0..(n - 1) : f[k] % 2^ell = h[k]
    PROVE  Elems(vec'[o]) = [k \in 0..(n - 1) |-> h[k]]
<1>1. ASSUME NEW k \in 0..(n - 1) PROVE MaskPartialLastWord(f, Size(o))[k] = f[k]
  <2>1. k \in DOMAIN f /\ k < n
    <3>1. n \in Nat /\ k \in 0..(Cells(ell, n) - 1)
      BY VectorFacts, InCells
    <3>2. DOMAIN f = 0..(Cells(ell, n) - 1)
      BY VectorFacts
    <3> QED BY <3>1, <3>2
  <2> QED BY <2>1 DEF MaskPartialLastWord
<1>2. \A k \in 0..(n - 1) : MaskPartialLastWord(f, Size(o))[k] % 2^ell = h[k]
  BY <1>1
<1> QED BY <1>2, WrittenElems

LEMMA CanonicalElems ==
    ASSUME CInv, NEW o \in Vec, NEW f, DOMAIN f = DOMAIN Data(o), Write(o, Canonical(f, Size(o))),
           NEW n, n = Size(o), NEW h, \A k \in 0..(n - 1) : f[k] \in Int /\ f[k] % 2^ell = h[k]
    PROVE  Elems(vec'[o]) = [k \in 0..(n - 1) |-> h[k]]
<1> DEFINE g == [k \in DOMAIN f |-> f[k] % 2^ell]
<1>1. DOMAIN g = DOMAIN Data(o) /\ Write(o, MaskPartialLastWord(g, Size(o)))
  BY DEF Canonical
<1>2. ASSUME NEW k \in 0..(n - 1) PROVE g[k] % 2^ell = h[k]
  <2>1. k \in DOMAIN f
    <3>1. n \in Nat /\ k \in 0..(Cells(ell, n) - 1)
      BY VectorFacts, InCells
    <3>2. DOMAIN f = 0..(Cells(ell, n) - 1)
      BY VectorFacts
    <3> QED BY <3>1, <3>2
  <2>2. 2^ell \in Nat \ {0}
    BY VectorFacts, Modulus
  <2>3. (f[k] % 2^ell) % 2^ell = f[k] % 2^ell
    BY <1>2, <2>2, ModMod
  <2> QED BY <2>1, <2>3
<1> HIDE DEF g
<1> QED BY <1>1, <1>2, MaskedElems

\* An element of the ring is its own remainder.
LEMMA RingElement ==
    ASSUME ell \in 1..8, NEW x \in Ring(ell)
    PROVE  x % 2^ell = x /\ x \in Int
<1>1. PICK m \in Nat \ {0} : m = 2^ell
  BY Modulus
<1>2. x \in 0..(m - 1)
  BY <1>1 DEF Ring
<1> QED BY <1>1, <1>2, ModSmall

LEMMA ElemsFacts ==
    ASSUME CInv, NEW a \in Vec
    PROVE  /\ DOMAIN Elems(vec[a]) = 0..(Size(a) - 1)
           /\ \A k \in 0..(Size(a) - 1) :
                 /\ k \in DOMAIN Data(a) /\ Data(a)[k] \in Int
                 /\ Elems(vec[a])[k] = Data(a)[k] % 2^ell
<1>1. \A k \in 0..(Size(a) - 1) : k \in DOMAIN Data(a)
  BY VectorFacts, InCells
<1>2. \A k \in 0..(Size(a) - 1) : Data(a)[k] \in Int
  BY <1>1, VectorFacts
<1> QED BY <1>1, <1>2 DEF Elems, Size, Data

-----------------------------------------------------------------------------
\* What each operation promises.

Returned == call'.res # Thrown

LEMMA FillPromise ==
    ASSUME CInv, NEW o \in Vec, NEW x, Fill(o, x), Returned
    PROVE  Promise
<1> DEFINE f == [k \in DOMAIN Data(o) |-> x]
<1>1. call'.op = "fill" /\ call'.o = o /\ call'.x = x /\ x \in Ring(ell)
      /\ Write(o, MaskPartialLastWord(f, Size(o)))
  BY DEF Fill, Checked, Call, Returned
<1>2. \A k \in 0..(Size(o) - 1) : f[k] % 2^ell = x
  BY <1>1, ElemsFacts, RingElement, VectorFacts
<1>3. Elems(vec'[o]) = [k \in 0..(Size(o) - 1) |-> x]
  <2>1. PICK h : h = [k \in 0..(Size(o) - 1) |-> x]
    OBVIOUS
  <2>2. \A k \in 0..(Size(o) - 1) : f[k] % 2^ell = h[k]
    BY <1>2, <2>1
  <2>3. DOMAIN f = DOMAIN Data(o)
    OBVIOUS
  <2> HIDE DEF f
  <2>4. Elems(vec'[o]) = [k \in 0..(Size(o) - 1) |-> h[k]]
    BY <1>1, <2>2, <2>3, MaskedElems
  <2> QED BY <2>1, <2>4
<1> HIDE DEF f
<1>4. Elems(vec'[call'.o]) = [k \in DOMAIN Elems(vec[call'.o]) |-> call'.x]
  BY <1>1, <1>3, ElemsFacts
<1> QED BY <1>1, <1>4 DEF Promise

LEMMA ConstructFilledPromise ==
    ASSUME CInv, NEW o \in Vec, NEW n \in SizesOf[ell], NEW x, ConstructFilled(o, n, x), Returned
    PROVE  Promise
<1> DEFINE f == [k \in 0..(Cells(ell, n) - 1) |-> x]
<1>1. call'.op = "newFilled" /\ call'.o = o /\ call'.x = <<n, x>> /\ x \in Ring(ell)
      /\ vec' = [vec EXCEPT ![o] = [n |-> n, data |-> MaskPartialLastWord(f, n)]]
  BY DEF ConstructFilled, Call, Returned
<1>2. ell \in 1..8 /\ n \in Nat
  BY VectorFacts, Widths
<1>3. ASSUME NEW k \in 0..(n - 1) PROVE MaskPartialLastWord(f, n)[k] % 2^ell = x
  <2>1. k \in DOMAIN f /\ k < n
    BY <1>2, InCells
  <2> QED BY <1>1, <1>2, <2>1, RingElement DEF MaskPartialLastWord
<1> HIDE DEF f
<1>4. vec'[o] = [n |-> n, data |-> MaskPartialLastWord(f, n)]
  BY <1>1 DEF CInv, IInv, Objects
<1>5. Elems(vec'[o]) = [k \in 0..(n - 1) |-> x]
  BY <1>3, <1>4 DEF Elems
<1>6. Elems(vec'[call'.o]) = [k \in 0..(call'.x[1] - 1) |-> call'.x[2]]
  BY <1>1, <1>5
<1> QED BY <1>1, <1>6 DEF Promise

LEMMA CopyMovePromise ==
    ASSUME CInv, NEW a \in Vec, NEW o \in Vec, Copy(a, o) \/ Move(a, o)
    PROVE  Promise
<1>1. call'.op \in {"copy", "move"} /\ call'.a = a /\ call'.o = o
  BY DEF Copy, Move, Call
<1>2. vec'[o] = vec[a]
  BY DEF Copy, Move, CInv, IInv, Objects
<1> QED BY <1>1, <1>2 DEF Promise

LEMMA GetPromise ==
    ASSUME CInv, NEW a \in Vec, NEW i \in Index, Get(a, i), Returned
    PROVE  Promise
<1>1. call'.op = "get" /\ call'.a = a /\ call'.x = i /\ i < Size(a) /\ call'.res = Data(a)[i] % 2^ell
  BY DEF Get, Call, Returned
<1>2. i \in 0..(Size(a) - 1)
  <2>1. SizesOf[ell] \subseteq Nat /\ Size(a) \in Nat
    BY VectorFacts, Widths
  <2>2. i \in Nat
    BY <2>1 DEF Index
  <2> QED BY <1>1, <2>1, <2>2
<1>3. call'.res = Elems(vec[a])[i]
  BY <1>1, <1>2, ElemsFacts
<1> QED BY <1>1, <1>3 DEF Promise

LEMMA SetPromise ==
    ASSUME CInv, NEW o \in Vec, NEW i \in Index, NEW x, Set(o, i, x), Returned
    PROVE  Promise
<1>1. call'.op = "set" /\ call'.o = o /\ call'.x = <<i, x>> /\ i < Size(o) /\ x \in Ring(ell)
      /\ Write(o, [Data(o) EXCEPT ![i] = x])
  BY DEF Set, Checked, Call, Returned
<1>2. PICK f : f = [Data(o) EXCEPT ![i] = x]
  OBVIOUS
<1>3. PICK h : h = [Elems(vec[o]) EXCEPT ![i] = x]
  OBVIOUS
<1>4. DOMAIN h = 0..(Size(o) - 1) /\ h = [k \in DOMAIN h |-> h[k]]
  BY <1>3, ElemsFacts
<1>5. ASSUME NEW k \in 0..(Size(o) - 1) PROVE f[k] % 2^ell = h[k]
  BY <1>1, <1>2, <1>3, ElemsFacts, RingElement, VectorFacts
<1>50. Write(o, f)
  BY <1>1, <1>2, Zenon
<1>6. Elems(vec'[o]) = [k \in 0..(Size(o) - 1) |-> h[k]]
  BY <1>5, <1>50, WrittenElems
<1>7. Elems(vec'[o]) = h
  BY <1>4, <1>6
<1>8. call'.x[1] = i /\ call'.x[2] = x
  BY <1>1
<1>9. Elems(vec'[call'.o]) = [Elems(vec[call'.o]) EXCEPT ![call'.x[1]] = call'.x[2]]
  BY <1>1, <1>3, <1>7, <1>8, Zenon
<1> QED BY <1>1, <1>9 DEF Promise

LEMMA BatchSetPromise ==
    ASSUME CInv, NEW o \in Vec, NEW idx \in IndexLists, NEW x, BatchSet(o, idx, x), Returned
    PROVE  Promise
<1> DEFINE hit == {idx[k] : k \in Prefix(idx, Size(o))}
           f == [k \in DOMAIN Data(o) |-> IF k \in hit THEN x ELSE Data(o)[k]]
<1>1. x \in Ring(ell) /\ Outcome(idx, Size(o)) = Done
  BY DEF BatchSet, Checked, Call, Returned, Outcome
<1>2. call'.op = "batchSet" /\ call'.o = o /\ call'.x = <<idx, x>> /\ Write(o, f)
  BY <1>1 DEF BatchSet, Call
<1>3. Prefix(idx, Size(o)) = 1..Len(idx)
  BY <1>1 DEF Outcome, Done, Thrown
<1>4. hit = {idx[k] : k \in 1..Len(idx)}
  BY <1>3
<1> DEFINE h == [k \in 0..(Size(o) - 1) |->
                    IF \E j \in 1..Len(idx) : idx[j] = k THEN x ELSE Elems(vec[o])[k]]
<1>5. ASSUME NEW k \in 0..(Size(o) - 1) PROVE f[k] % 2^ell = h[k]
  <2>1. k \in DOMAIN Data(o) /\ Data(o)[k] % 2^ell = Elems(vec[o])[k]
    BY ElemsFacts
  <2>2. k \in hit <=> \E j \in 1..Len(idx) : idx[j] = k
    BY <1>4
  <2>3. x % 2^ell = x
    BY <1>1, RingElement, VectorFacts
  <2> HIDE DEF hit
  <2> QED BY <2>1, <2>2, <2>3
<1>6. Elems(vec'[o]) = [k \in 0..(Size(o) - 1) |-> h[k]]
  <2> HIDE DEF f, h
  <2> QED BY <1>2, <1>5, WrittenElems
<1>7. Elems(vec'[o]) = h
  BY <1>6
<1>8. call'.x[1] = idx /\ call'.x[2] = x /\ DOMAIN Elems(vec[o]) = 0..(Size(o) - 1)
  BY <1>2, ElemsFacts
<1>9. Elems(vec'[call'.o]) = [k \in DOMAIN Elems(vec[call'.o]) |->
          IF \E j \in 1..Len(call'.x[1]) : call'.x[1][j] = k THEN call'.x[2] ELSE Elems(vec[call'.o])[k]]
  <2> DEFINE G(i, y) == [k \in DOMAIN Elems(vec[o]) |->
                            IF \E j \in 1..Len(i) : i[j] = k THEN y ELSE Elems(vec[o])[k]]
  <2>1. Elems(vec'[o]) = G(idx, x)
    BY <1>7, <1>8
  <2> HIDE DEF G
  <2>2. Elems(vec'[call'.o]) = G(call'.x[1], call'.x[2])
    BY <1>2, <1>8, <2>1
  <2> QED BY <1>2, <2>2, Zenon DEF G
<1> HIDE DEF h, f
<1> QED BY <1>2, <1>9 DEF Promise

LEMMA BatchGetPromise ==
    ASSUME CInv, NEW a \in Vec, NEW o \in Vec, NEW idx \in IndexLists, BatchGet(a, idx, o), Returned
    PROVE  Promise
<1> DEFINE P == Prefix(idx, Size(a))
           f == [k \in DOMAIN Data(o) |->
                    IF k + 1 \in P THEN Data(a)[idx[k + 1]] % 2^ell ELSE Data(o)[k]]
<1>1. ~(a = o \/ Size(o) < Len(idx)) /\ Outcome(idx, Size(a)) = Done
  BY DEF BatchGet, Checked, Call, Returned, Outcome
<1>2. call'.op = "batchGet" /\ call'.a = a /\ call'.o = o /\ call'.x = idx /\ Write(o, f)
  BY <1>1 DEF BatchGet, Call
<1>3. P = 1..Len(idx)
  BY <1>1 DEF Outcome, Done, Thrown
<1>4. Len(idx) \in Nat
  BY IndexAssumption
<1> DEFINE h == [k \in 0..(Size(o) - 1) |->
                    IF k < Len(idx) THEN Elems(vec[a])[idx[k + 1]] ELSE Elems(vec[o])[k]]
<1>5. ASSUME NEW k \in 0..(Size(o) - 1) PROVE f[k] % 2^ell = h[k]
  <2>1. k \in DOMAIN Data(o) /\ Data(o)[k] % 2^ell = Elems(vec[o])[k]
    BY ElemsFacts
  <2>2. k + 1 \in P <=> k < Len(idx)
    BY <1>3, <1>4
  <2>3. CASE k < Len(idx)
    <3>1. idx[k + 1] \in 0..(Size(a) - 1)
      <4>1. idx[k + 1] \in Nat /\ idx[k + 1] < Size(a)
        BY <2>2, <2>3, VectorFacts, PrefixInRange
      <4> QED BY <4>1, VectorFacts
    <3>2. PICK i \in 0..(Size(a) - 1) : i = idx[k + 1]
      BY <3>1
    <3>3. Elems(vec[a])[i] = Data(a)[i] % 2^ell /\ Data(a)[i] \in Int
      BY ElemsFacts
    <3>4. (Data(a)[i] % 2^ell) % 2^ell = Data(a)[i] % 2^ell
      BY <3>3, ModMod, Modulus, VectorFacts
    <3>5. f[k] = Data(a)[i] % 2^ell /\ h[k] = Elems(vec[a])[i]
      BY <2>1, <2>2, <2>3, <3>2
    <3> HIDE DEF f, h
    <3> QED BY <3>3, <3>4, <3>5
  <2>4. CASE ~(k < Len(idx))
    BY <2>1, <2>2, <2>4
  <2> QED BY <2>3, <2>4
<1>6. Elems(vec'[o]) = [k \in 0..(Size(o) - 1) |-> h[k]]
  <2> HIDE DEF f, h
  <2> QED BY <1>2, <1>5, WrittenElems
<1>7. Elems(vec'[o]) = h
  BY <1>6
<1>8. DOMAIN Elems(vec[o]) = 0..(Size(o) - 1)
  BY ElemsFacts
<1>9. Elems(vec'[call'.o]) = [k \in DOMAIN Elems(vec[call'.o]) |->
          IF k < Len(call'.x) THEN Elems(vec[call'.a])[call'.x[k + 1]] ELSE Elems(vec[call'.o])[k]]
  BY <1>2, <1>7, <1>8, Zenon
<1> HIDE DEF h, f
<1> QED BY <1>2, <1>9 DEF Promise

\* The loops of the arithmetic: the cells of o become those of f.
LEMMA LoopElems ==
    ASSUME CInv, NEW a \in Vec, NEW o \in Vec, Size(a) = Size(o), NEW f, DOMAIN f = DOMAIN Data(a),
           Write(o, MaskPartialLastWord(f, Size(o))),
           NEW h, \A k \in 0..(Size(a) - 1) : f[k] % 2^ell = h[k]
    PROVE  Elems(vec'[o]) = [k \in 0..(Size(a) - 1) |-> h[k]]
<1>1. DOMAIN f = DOMAIN Data(o)
  BY VectorFacts
<1>2. PICK n : n = Size(o) /\ n = Size(a)
  OBVIOUS
<1>3. \A k \in 0..(n - 1) : f[k] % 2^ell = h[k]
  BY <1>2
<1>4. Elems(vec'[o]) = [k \in 0..(n - 1) |-> h[k]]
  BY <1>1, <1>2, <1>3, MaskedElems
<1> QED BY <1>2, <1>4

LEMMA ResultOf ==
    ASSUME ell \in 1..8, NEW x \in Int, NEW y \in Int
    PROVE  /\ ((x + y) % 2^ell) % 2^ell = ((x % 2^ell) + (y % 2^ell)) % 2^ell
           /\ ((x - y) % 2^ell) % 2^ell = ((x % 2^ell) - (y % 2^ell)) % 2^ell
           /\ ((x * y) % 2^ell) % 2^ell = ((x % 2^ell) * (y % 2^ell)) % 2^ell
<1>1. PICK m \in Nat \ {0} : m = 2^ell
  BY Modulus
<1>2. /\ ((x + y) % m) % m = ((x % m) + (y % m)) % m
      /\ ((x - y) % m) % m = ((x % m) - (y % m)) % m
      /\ ((x * y) % m) % m = ((x % m) * (y % m)) % m
  BY ModOfResults
<1> QED BY <1>1, <1>2, Zenon

LEMMA AddPromise ==
    ASSUME CInv, NEW a \in Vec, NEW b \in Vec, NEW o \in Vec, Add(a, b, o), Returned
    PROVE  Promise
<1> DEFINE f == [k \in DOMAIN Data(a) |-> (Data(a)[k] + Data(b)[k]) % 2^ell]
           h == [k \in DOMAIN Elems(vec[a]) |-> (Elems(vec[a])[k] + Elems(vec[b])[k]) % 2^ell]
<1>1. /\ call'.op = "add" /\ call'.a = a /\ call'.b = b /\ call'.o = o
      /\ Size(a) = Size(b) /\ Size(a) = Size(o) /\ Write(o, MaskPartialLastWord(f, Size(o)))
  BY DEF Add, Zip, Checked, Call, Returned
<1>2. DOMAIN f = DOMAIN Data(a) /\ DOMAIN h = 0..(Size(a) - 1) /\ h = [k \in DOMAIN h |-> h[k]]
  BY ElemsFacts
<1>3. ASSUME NEW k \in 0..(Size(a) - 1) PROVE f[k] % 2^ell = h[k]
  <2>1. PICK x \in Int : x = Data(a)[k] /\ Elems(vec[a])[k] = x % 2^ell /\ k \in DOMAIN Data(a)
    BY ElemsFacts
  <2>2. PICK y \in Int : y = Data(b)[k] /\ Elems(vec[b])[k] = y % 2^ell
    BY <1>1, ElemsFacts
  <2>3. f[k] = (x + y) % 2^ell
    BY <2>1, <2>2, Zenon
  <2>4. h[k] = ((x % 2^ell) + (y % 2^ell)) % 2^ell
    <3>1. k \in DOMAIN Elems(vec[a])
      BY ElemsFacts
    <3> QED BY <2>1, <2>2, <3>1, Zenon
  <2>5. ((x + y) % 2^ell) % 2^ell = ((x % 2^ell) + (y % 2^ell)) % 2^ell
    BY ResultOf, VectorFacts
  <2> HIDE DEF f, h
  <2> QED BY <2>3, <2>4, <2>5, Zenon
<1>4. Elems(vec'[o]) = h
  <2> HIDE DEF f, h
  <2>1. Elems(vec'[o]) = [k \in 0..(Size(a) - 1) |-> h[k]]
    <3>1. /\ Size(a) = Size(o) /\ DOMAIN f = DOMAIN Data(a) /\ Write(o, MaskPartialLastWord(f, Size(o)))
          /\ \A k \in 0..(Size(a) - 1) : f[k] % 2^ell = h[k]
      BY <1>1, <1>2, <1>3
    <3> QED BY <3>1, LoopElems
  <2> QED BY <1>2, <2>1
<1>5. Elems(vec'[call'.o]) = Map2(LAMBDA x, y : x + y, Elems(vec[call'.a]), Elems(vec[call'.b]))
  BY <1>1, <1>4, Zenon DEF Map2
<1> QED BY <1>1, <1>5 DEF Promise

LEMMA SubPromise ==
    ASSUME CInv, NEW a \in Vec, NEW b \in Vec, NEW o \in Vec, Sub(a, b, o), Returned
    PROVE  Promise
<1> DEFINE f == [k \in DOMAIN Data(a) |-> (Data(a)[k] - Data(b)[k]) % 2^ell]
           h == [k \in DOMAIN Elems(vec[a]) |-> (Elems(vec[a])[k] - Elems(vec[b])[k]) % 2^ell]
<1>1. /\ call'.op = "sub" /\ call'.a = a /\ call'.b = b /\ call'.o = o
      /\ Size(a) = Size(b) /\ Size(a) = Size(o) /\ Write(o, MaskPartialLastWord(f, Size(o)))
  BY DEF Sub, Zip, Checked, Call, Returned
<1>2. DOMAIN f = DOMAIN Data(a) /\ DOMAIN h = 0..(Size(a) - 1) /\ h = [k \in DOMAIN h |-> h[k]]
  BY ElemsFacts
<1>3. ASSUME NEW k \in 0..(Size(a) - 1) PROVE f[k] % 2^ell = h[k]
  <2>1. PICK x \in Int : x = Data(a)[k] /\ Elems(vec[a])[k] = x % 2^ell /\ k \in DOMAIN Data(a)
    BY ElemsFacts
  <2>2. PICK y \in Int : y = Data(b)[k] /\ Elems(vec[b])[k] = y % 2^ell
    BY <1>1, ElemsFacts
  <2>3. f[k] = (x - y) % 2^ell
    BY <2>1, <2>2, Zenon
  <2>4. h[k] = ((x % 2^ell) - (y % 2^ell)) % 2^ell
    <3>1. k \in DOMAIN Elems(vec[a])
      BY ElemsFacts
    <3> QED BY <2>1, <2>2, <3>1, Zenon
  <2>5. ((x - y) % 2^ell) % 2^ell = ((x % 2^ell) - (y % 2^ell)) % 2^ell
    BY ResultOf, VectorFacts
  <2> HIDE DEF f, h
  <2> QED BY <2>3, <2>4, <2>5, Zenon
<1>4. Elems(vec'[o]) = h
  <2> HIDE DEF f, h
  <2>1. Elems(vec'[o]) = [k \in 0..(Size(a) - 1) |-> h[k]]
    <3>1. /\ Size(a) = Size(o) /\ DOMAIN f = DOMAIN Data(a) /\ Write(o, MaskPartialLastWord(f, Size(o)))
          /\ \A k \in 0..(Size(a) - 1) : f[k] % 2^ell = h[k]
      BY <1>1, <1>2, <1>3
    <3> QED BY <3>1, LoopElems
  <2> QED BY <1>2, <2>1
<1>5. Elems(vec'[call'.o]) = Map2(LAMBDA x, y : x - y, Elems(vec[call'.a]), Elems(vec[call'.b]))
  BY <1>1, <1>4, Zenon DEF Map2
<1> QED BY <1>1, <1>5 DEF Promise

LEMMA HadamardPromise ==
    ASSUME CInv, NEW a \in Vec, NEW b \in Vec, NEW o \in Vec, Hadamard(a, b, o), Returned
    PROVE  Promise
<1> DEFINE f == [k \in DOMAIN Data(a) |-> (Data(a)[k] * Data(b)[k]) % 2^ell]
           h == [k \in DOMAIN Elems(vec[a]) |-> (Elems(vec[a])[k] * Elems(vec[b])[k]) % 2^ell]
<1>1. /\ call'.op = "hadamard" /\ call'.a = a /\ call'.b = b /\ call'.o = o
      /\ Size(a) = Size(b) /\ Size(a) = Size(o) /\ Write(o, MaskPartialLastWord(f, Size(o)))
  BY DEF Hadamard, Zip, Checked, Call, Returned
<1>2. DOMAIN f = DOMAIN Data(a) /\ DOMAIN h = 0..(Size(a) - 1) /\ h = [k \in DOMAIN h |-> h[k]]
  BY ElemsFacts
<1>3. ASSUME NEW k \in 0..(Size(a) - 1) PROVE f[k] % 2^ell = h[k]
  <2>1. PICK x \in Int : x = Data(a)[k] /\ Elems(vec[a])[k] = x % 2^ell /\ k \in DOMAIN Data(a)
    BY ElemsFacts
  <2>2. PICK y \in Int : y = Data(b)[k] /\ Elems(vec[b])[k] = y % 2^ell
    BY <1>1, ElemsFacts
  <2>3. f[k] = (x * y) % 2^ell
    BY <2>1, <2>2, Zenon
  <2>4. h[k] = ((x % 2^ell) * (y % 2^ell)) % 2^ell
    <3>1. k \in DOMAIN Elems(vec[a])
      BY ElemsFacts
    <3> QED BY <2>1, <2>2, <3>1, Zenon
  <2>5. ((x * y) % 2^ell) % 2^ell = ((x % 2^ell) * (y % 2^ell)) % 2^ell
    BY ResultOf, VectorFacts
  <2> HIDE DEF f, h
  <2> QED BY <2>3, <2>4, <2>5, Zenon
<1>4. Elems(vec'[o]) = h
  <2> HIDE DEF f, h
  <2>1. Elems(vec'[o]) = [k \in 0..(Size(a) - 1) |-> h[k]]
    <3>1. /\ Size(a) = Size(o) /\ DOMAIN f = DOMAIN Data(a) /\ Write(o, MaskPartialLastWord(f, Size(o)))
          /\ \A k \in 0..(Size(a) - 1) : f[k] % 2^ell = h[k]
      BY <1>1, <1>2, <1>3
    <3> QED BY <3>1, LoopElems
  <2> QED BY <1>2, <2>1
<1>5. Elems(vec'[call'.o]) = Map2(LAMBDA x, y : x * y, Elems(vec[call'.a]), Elems(vec[call'.b]))
  BY <1>1, <1>4, Zenon DEF Map2
<1> QED BY <1>1, <1>5 DEF Promise

LEMMA AddScalarPromise ==
    ASSUME CInv, NEW a \in Vec, NEW o \in Vec, NEW x, AddScalar(a, x, o), Returned
    PROVE  Promise
<1> DEFINE f == [k \in DOMAIN Data(a) |-> (Data(a)[k] + x) % 2^ell]
           h == [k \in DOMAIN Elems(vec[a]) |-> (Elems(vec[a])[k] + x) % 2^ell]
<1>1. /\ call'.op = "addScalar" /\ call'.a = a /\ call'.o = o /\ call'.x = x
      /\ x \in Ring(ell) /\ Size(a) = Size(o) /\ Write(o, MaskPartialLastWord(f, Size(o)))
  BY DEF AddScalar, Scale, Checked, Call, Returned
<1>2. DOMAIN f = DOMAIN Data(a) /\ DOMAIN h = 0..(Size(a) - 1) /\ h = [k \in DOMAIN h |-> h[k]]
  BY ElemsFacts
<1>3. ASSUME NEW k \in 0..(Size(a) - 1) PROVE f[k] % 2^ell = h[k]
  <2>1. PICK y \in Int : y = Data(a)[k] /\ Elems(vec[a])[k] = y % 2^ell /\ k \in DOMAIN Data(a)
    BY ElemsFacts
  <2>2. x \in Int /\ x % 2^ell = x
    BY <1>1, RingElement, VectorFacts
  <2>3. f[k] = (y + x) % 2^ell
    BY <2>1, Zenon
  <2>4. h[k] = ((y % 2^ell) + x) % 2^ell
    <3>1. k \in DOMAIN Elems(vec[a])
      BY ElemsFacts
    <3> QED BY <2>1, <3>1, Zenon
  <2>5. ((y + x) % 2^ell) % 2^ell = ((y % 2^ell) + (x % 2^ell)) % 2^ell
    BY <2>2, ResultOf, VectorFacts
  <2> HIDE DEF f, h
  <2> QED BY <2>2, <2>3, <2>4, <2>5, Zenon
<1>4. Elems(vec'[o]) = h
  <2> HIDE DEF f, h
  <2>1. Elems(vec'[o]) = [k \in 0..(Size(a) - 1) |-> h[k]]
    <3>1. /\ Size(a) = Size(o) /\ DOMAIN f = DOMAIN Data(a) /\ Write(o, MaskPartialLastWord(f, Size(o)))
          /\ \A k \in 0..(Size(a) - 1) : f[k] % 2^ell = h[k]
      BY <1>1, <1>2, <1>3
    <3> QED BY <3>1, LoopElems
  <2> QED BY <1>2, <2>1
<1>5. Elems(vec'[call'.o]) = Map2(LAMBDA y, z : y + call'.x, Elems(vec[call'.a]), Elems(vec[call'.a]))
  BY <1>1, <1>4, Zenon DEF Map2
<1> QED BY <1>1, <1>5 DEF Promise

LEMMA SubScalarPromise ==
    ASSUME CInv, NEW a \in Vec, NEW o \in Vec, NEW x, SubScalar(a, x, o), Returned
    PROVE  Promise
<1> DEFINE f == [k \in DOMAIN Data(a) |-> (Data(a)[k] - x) % 2^ell]
           h == [k \in DOMAIN Elems(vec[a]) |-> (Elems(vec[a])[k] - x) % 2^ell]
<1>1. /\ call'.op = "subScalar" /\ call'.a = a /\ call'.o = o /\ call'.x = x
      /\ x \in Ring(ell) /\ Size(a) = Size(o) /\ Write(o, MaskPartialLastWord(f, Size(o)))
  BY DEF SubScalar, Scale, Checked, Call, Returned
<1>2. DOMAIN f = DOMAIN Data(a) /\ DOMAIN h = 0..(Size(a) - 1) /\ h = [k \in DOMAIN h |-> h[k]]
  BY ElemsFacts
<1>3. ASSUME NEW k \in 0..(Size(a) - 1) PROVE f[k] % 2^ell = h[k]
  <2>1. PICK y \in Int : y = Data(a)[k] /\ Elems(vec[a])[k] = y % 2^ell /\ k \in DOMAIN Data(a)
    BY ElemsFacts
  <2>2. x \in Int /\ x % 2^ell = x
    BY <1>1, RingElement, VectorFacts
  <2>3. f[k] = (y - x) % 2^ell
    BY <2>1, Zenon
  <2>4. h[k] = ((y % 2^ell) - x) % 2^ell
    <3>1. k \in DOMAIN Elems(vec[a])
      BY ElemsFacts
    <3> QED BY <2>1, <3>1, Zenon
  <2>5. ((y - x) % 2^ell) % 2^ell = ((y % 2^ell) - (x % 2^ell)) % 2^ell
    BY <2>2, ResultOf, VectorFacts
  <2> HIDE DEF f, h
  <2> QED BY <2>2, <2>3, <2>4, <2>5, Zenon
<1>4. Elems(vec'[o]) = h
  <2> HIDE DEF f, h
  <2>1. Elems(vec'[o]) = [k \in 0..(Size(a) - 1) |-> h[k]]
    <3>1. /\ Size(a) = Size(o) /\ DOMAIN f = DOMAIN Data(a) /\ Write(o, MaskPartialLastWord(f, Size(o)))
          /\ \A k \in 0..(Size(a) - 1) : f[k] % 2^ell = h[k]
      BY <1>1, <1>2, <1>3
    <3> QED BY <3>1, LoopElems
  <2> QED BY <1>2, <2>1
<1>5. Elems(vec'[call'.o]) = Map2(LAMBDA y, z : y - call'.x, Elems(vec[call'.a]), Elems(vec[call'.a]))
  BY <1>1, <1>4, Zenon DEF Map2
<1> QED BY <1>1, <1>5 DEF Promise

LEMMA MulScalarPromise ==
    ASSUME CInv, NEW a \in Vec, NEW o \in Vec, NEW x, MulScalar(a, x, o), Returned
    PROVE  Promise
<1> DEFINE f == [k \in DOMAIN Data(a) |-> (Data(a)[k] * x) % 2^ell]
           h == [k \in DOMAIN Elems(vec[a]) |-> (Elems(vec[a])[k] * x) % 2^ell]
<1>1. /\ call'.op = "mulScalar" /\ call'.a = a /\ call'.o = o /\ call'.x = x
      /\ x \in Ring(ell) /\ Size(a) = Size(o) /\ Write(o, MaskPartialLastWord(f, Size(o)))
  BY DEF MulScalar, Scale, Checked, Call, Returned
<1>2. DOMAIN f = DOMAIN Data(a) /\ DOMAIN h = 0..(Size(a) - 1) /\ h = [k \in DOMAIN h |-> h[k]]
  BY ElemsFacts
<1>3. ASSUME NEW k \in 0..(Size(a) - 1) PROVE f[k] % 2^ell = h[k]
  <2>1. PICK y \in Int : y = Data(a)[k] /\ Elems(vec[a])[k] = y % 2^ell /\ k \in DOMAIN Data(a)
    BY ElemsFacts
  <2>2. x \in Int /\ x % 2^ell = x
    BY <1>1, RingElement, VectorFacts
  <2>3. f[k] = (y * x) % 2^ell
    BY <2>1, Zenon
  <2>4. h[k] = ((y % 2^ell) * x) % 2^ell
    <3>1. k \in DOMAIN Elems(vec[a])
      BY ElemsFacts
    <3> QED BY <2>1, <3>1, Zenon
  <2>5. ((y * x) % 2^ell) % 2^ell = ((y % 2^ell) * (x % 2^ell)) % 2^ell
    BY <2>2, ResultOf, VectorFacts
  <2> HIDE DEF f, h
  <2> QED BY <2>2, <2>3, <2>4, <2>5, Zenon
<1>4. Elems(vec'[o]) = h
  <2> HIDE DEF f, h
  <2>1. Elems(vec'[o]) = [k \in 0..(Size(a) - 1) |-> h[k]]
    <3>1. /\ Size(a) = Size(o) /\ DOMAIN f = DOMAIN Data(a) /\ Write(o, MaskPartialLastWord(f, Size(o)))
          /\ \A k \in 0..(Size(a) - 1) : f[k] % 2^ell = h[k]
      BY <1>1, <1>2, <1>3
    <3> QED BY <3>1, LoopElems
  <2> QED BY <1>2, <2>1
<1>5. Elems(vec'[call'.o]) = Map2(LAMBDA y, z : y * call'.x, Elems(vec[call'.a]), Elems(vec[call'.a]))
  BY <1>1, <1>4, Zenon DEF Map2
<1> QED BY <1>1, <1>5 DEF Promise

\* Sums over all cells are those over the elements: the rest is zero.
Summands(f, c, h, n) ==
    /\ DOMAIN f = 0..(c - 1) /\ DOMAIN h = 0..(n - 1)
    /\ \A k \in 0..(c - 1) : f[k] \in Int /\ (k >= n => f[k] = 0)
    /\ \A k \in 0..(n - 1) : h[k] \in Int /\ Cong(f[k], h[k], 2^ell)

LEMMA SameSums ==
    ASSUME ell \in 1..8, NEW n \in Nat, NEW c \in Nat, n <= c, NEW f, NEW h, Summands(f, c, h, n)
    PROVE  Sum(f) = Sum(h)
<1>0. /\ DOMAIN f = 0..(c - 1) /\ DOMAIN h = 0..(n - 1)
      /\ \A k \in 0..(c - 1) : f[k] \in Int /\ (k >= n => f[k] = 0)
      /\ \A k \in 0..(n - 1) : h[k] \in Int /\ Cong(f[k], h[k], 2^ell)
  BY DEF Summands
<1>1. PICK S \in SUBSET (0..c) : S = 0..(c - 1)
  OBVIOUS
<1>2. PICK N \in SUBSET S : N = 0..(n - 1)
  BY <1>1
<1>3. PICK m \in Nat \ {0} : m = 2^ell
  BY Modulus
<1>4. PICK g : IsSum(g, f, S) /\ Total(f) = g[S]
  <2>1. DOMAIN f \in SUBSET (0..c) /\ DOMAIN f = S
    BY <1>0, <1>1
  <2> QED BY <2>1, TotalIsSum
<1>5. PICK e : IsSum(e, h, N) /\ Total(h) = e[N]
  <2>1. DOMAIN h \in SUBSET (0..n) /\ DOMAIN h = N
    BY <1>0, <1>2
  <2> QED BY <2>1, TotalIsSum
<1>6. \A k \in S \ N : f[k] = 0
  BY <1>0, <1>1, <1>2
<1>7. g[S] \in Int /\ e[N] \in Int /\ Cong(g[S], e[N], m)
  <2>1. /\ \A k \in S : f[k] \in Int
        /\ \A k \in N : h[k] \in Int
        /\ \A k \in N : Cong(f[k], h[k], m)
    BY <1>0, <1>1, <1>2, <1>3
  <2> QED BY <1>4, <1>5, <1>6, <2>1, CongSums
<1>8. g[S] % m = e[N] % m
  BY <1>7, SameMod
<1> QED BY <1>3, <1>4, <1>5, <1>8 DEF Sum

LEMMA ReducePromise ==
    ASSUME CInv, NEW a \in Vec, Reduce(a)
    PROVE  Promise
<1>1. call'.op = "reduce" /\ call'.a = a /\ call'.res = Sum(Data(a))
  BY DEF Reduce, Call
<1>2. PICK h : h = Elems(vec[a])
  OBVIOUS
<1>3. PICK n \in Nat, c \in Nat : n = Size(a) /\ c = Cells(ell, n) /\ n <= c
  BY VectorFacts, CellsFacts
<1>4. PICK m \in Nat \ {0} : m = 2^ell
  BY VectorFacts, Modulus
<1>5. /\ DOMAIN Data(a) = 0..(c - 1) /\ DOMAIN h = 0..(n - 1)
      /\ \A k \in 0..(c - 1) : Data(a)[k] \in Int /\ (k >= n => Data(a)[k] = 0)
  BY <1>2, <1>3, VectorFacts, SizesOfObjects, ElemsFacts DEF CInv, Stored
<1>6. ASSUME NEW k \in 0..(n - 1) PROVE h[k] \in Int /\ Cong(Data(a)[k], h[k], 2^ell)
  <2>1. PICK x \in Int : x = Data(a)[k] /\ h[k] = x % m
    BY <1>2, <1>3, <1>4, ElemsFacts
  <2>2. x % m \in Int /\ Cong(x, x % m, m)
    BY ModIsCong
  <2> QED BY <1>4, <2>1, <2>2
<1>7. Sum(Data(a)) = Sum(h)
  <2>1. ell \in 1..8
    BY VectorFacts
  <2>2. Summands(Data(a), c, h, n)
    BY <1>5, <1>6 DEF Summands
  <2> QED BY <1>3, <2>1, <2>2, SameSums
<1>8. call'.res = Sum(Elems(vec[call'.a]))
  BY <1>1, <1>2, <1>7
<1> QED BY <1>1, <1>8 DEF Promise

LEMMA DotPromise ==
    ASSUME CInv, NEW a \in Vec, NEW b \in Vec, Dot(a, b), Returned
    PROVE  Promise
<1> DEFINE f == [k \in DOMAIN Data(a) |-> Data(a)[k] * Data(b)[k]]
           h == [k \in DOMAIN Elems(vec[a]) |-> Elems(vec[a])[k] * Elems(vec[b])[k]]
<1>1. call'.op = "dot" /\ call'.a = a /\ call'.b = b /\ Size(a) = Size(b) /\ call'.res = Sum(f)
  BY DEF Dot, Call, Returned
<1>3. PICK n \in Nat, c \in Nat : n = Size(a) /\ n = Size(b) /\ c = Cells(ell, n) /\ n <= c
  BY <1>1, VectorFacts, CellsFacts
<1>4. PICK m \in Nat \ {0} : m = 2^ell
  BY VectorFacts, Modulus
<1>5. /\ DOMAIN f = 0..(c - 1) /\ DOMAIN h = 0..(n - 1)
  BY <1>3, VectorFacts, ElemsFacts
<1>50. ASSUME NEW k \in 0..(c - 1) PROVE f[k] \in Int /\ (k >= n => f[k] = 0)
  <2>1. k \in DOMAIN Data(a) /\ Data(a)[k] \in Int /\ (k >= n => Data(a)[k] = 0)
    BY <1>3, VectorFacts, SizesOfObjects DEF CInv, Stored
  <2>2. Data(b)[k] \in Int
    BY <1>3, VectorFacts
  <2>3. PICK x \in Int, y \in Int : x = Data(a)[k] /\ y = Data(b)[k] /\ f[k] = x * y
    BY <2>1, <2>2
  <2>4. x * y \in Int /\ 0 * y = 0
    BY Z3
  <2> HIDE DEF f
  <2> QED BY <2>1, <2>3, <2>4
<1>6. ASSUME NEW k \in 0..(n - 1) PROVE h[k] \in Int /\ Cong(f[k], h[k], 2^ell)
  <2>1. PICK x \in Int : x = Data(a)[k] /\ Elems(vec[a])[k] = x % m /\ k \in DOMAIN Data(a)
    BY <1>3, <1>4, ElemsFacts
  <2>2. PICK y \in Int : y = Data(b)[k] /\ Elems(vec[b])[k] = y % m
    BY <1>3, <1>4, ElemsFacts
  <2>3. PICK u \in Int : u = x % m /\ Cong(x, u, m)
    <3>1. x % m \in Int /\ Cong(x, x % m, m)
      BY ModIsCong
    <3> QED BY <3>1, Zenon
  <2>4. PICK v \in Int : v = y % m /\ Cong(y, v, m)
    <3>1. y % m \in Int /\ Cong(y, y % m, m)
      BY ModIsCong
    <3> QED BY <3>1, Zenon
  <2>5. Cong(x * y, u * v, m)
    BY <2>3, <2>4, CongProduct
  <2>6. u * v \in Int
    BY Z3
  <2>7. f[k] = x * y /\ h[k] = u * v
    <3>1. k \in DOMAIN h
      BY <1>5
    <3> QED BY <2>1, <2>2, <2>3, <2>4, <3>1, Zenon
  <2> HIDE DEF f, h
  <2> QED BY <1>4, <2>5, <2>6, <2>7, Zenon
<1>7. Sum(f) = Sum(h)
  <2> HIDE DEF f, h
  <2>1. ell \in 1..8
    BY VectorFacts
  <2>2. Summands(f, c, h, n)
    BY <1>5, <1>50, <1>6 DEF Summands
  <2> QED BY <1>3, <2>1, <2>2, SameSums
<1>8. call'.res = Sum([k \in DOMAIN Elems(vec[call'.a]) |-> Elems(vec[call'.a])[k] * Elems(vec[call'.b])[k]])
  BY <1>1, <1>7, Zenon
<1> HIDE DEF h, f
<1> QED BY <1>1, <1>8 DEF Promise

LEMMA EqualPromise ==
    ASSUME CInv, NEW a \in Vec, NEW b \in Vec, Equal(a, b)
    PROVE  Promise
<1> DEFINE same == Size(a) = Size(b)
                   /\ \A k \in 0..(Size(a) - 1) : Data(a)[k] % 2^ell = Data(b)[k] % 2^ell
<1>1. call'.op = "equal" /\ call'.a = a /\ call'.b = b /\ call'.res = IF same THEN 1 ELSE 0
  BY DEF Equal, Call
<1>2. PICK A, B : A = Elems(vec[a]) /\ B = Elems(vec[b])
  OBVIOUS
<1>3. PICK n \in Nat, m \in Nat : n = Size(a) /\ m = Size(b)
  BY VectorFacts
<1>4. /\ DOMAIN A = 0..(n - 1) /\ DOMAIN B = 0..(m - 1)
      /\ A = [k \in 0..(n - 1) |-> A[k]] /\ B = [k \in 0..(m - 1) |-> B[k]]
      /\ \A k \in 0..(n - 1) : A[k] = Data(a)[k] % 2^ell
      /\ \A k \in 0..(m - 1) : B[k] = Data(b)[k] % 2^ell
  BY <1>2, <1>3 DEF Elems, Size, Data
<1>5. ASSUME A = B PROVE same
  <2>1. 0..(n - 1) = 0..(m - 1)
    BY <1>4, <1>5
  <2>2. n = m
    <3>1. \A x, y \in Nat : x < y => x \in 0..(y - 1) /\ x \notin 0..(x - 1)
      OBVIOUS
    <3>2. ~(n < m) /\ ~(m < n)
      BY <2>1, <3>1
    <3> QED BY <3>2
  <2> QED BY <1>3, <1>4, <1>5, <2>2
<1>6. ASSUME same PROVE A = B
  BY <1>3, <1>4, <1>6
<1>7. call'.res = 1 <=> A = B
  BY <1>1, <1>5, <1>6
<1> HIDE DEF same
<1>8. call'.res = 1 <=> Elems(vec[call'.a]) = Elems(vec[call'.b])
  BY <1>1, <1>2, <1>7, Zenon
<1> QED BY <1>1, <1>8 DEF Promise

LEMMA FromBytesPromise ==
    ASSUME CInv, NEW o \in Vec, NEW m \in Memory, NEW cells, FromBytes(o, m, cells), Returned
    PROVE  Promise
<1> DEFINE f == [k \in DOMAIN Data(o) |-> IF ell = 1 THEN m[k] % 2 ELSE m[k]]
           h == [k \in 0..(Size(o) - 1) |-> m[k] % 2^ell]
<1>1. call'.op = "fromBytes" /\ call'.o = o /\ call'.x = m /\ Write(o, Canonical(f, Size(o)))
  BY DEF FromBytes, Checked, Call, Returned
<1>2. DOMAIN f = DOMAIN Data(o)
  OBVIOUS
<1>3. ASSUME NEW k \in 0..(Size(o) - 1) PROVE f[k] \in Int /\ f[k] % 2^ell = h[k]
  <2>1. k \in DOMAIN Data(o) /\ m[k] \in Int
    BY ElemsFacts, MemoryInCells
  <2>2. PICK x \in Int : x = m[k]
    BY <2>1
  <2>3. x % 2 \in Int /\ (x % 2) % 2 = x % 2
    OBVIOUS
  <2>4. ell = 1 => 2^ell = 2
    OBVIOUS
  <2> QED BY <2>1, <2>2, <2>3, <2>4
<1>4. Elems(vec'[o]) = [k \in 0..(Size(o) - 1) |-> h[k]]
  <2> HIDE DEF f, h
  <2> QED BY <1>1, <1>2, <1>3, CanonicalElems
<1>5. Elems(vec'[o]) = [k \in DOMAIN Elems(vec[o]) |-> m[k] % 2^ell]
  BY <1>4, ElemsFacts
<1>6. Elems(vec'[call'.o]) = [k \in DOMAIN Elems(vec[call'.o]) |-> call'.x[k] % 2^ell]
  BY <1>1, <1>5, Zenon
<1> HIDE DEF f, h
<1> QED BY <1>1, <1>6 DEF Promise

\* What is read at the place of an element in the packed bytes.
LEMMA StreamElement ==
    ASSUME NEW e, NEW bytes, NEW n
    PROVE  Stream(e, bytes, n) = [k \in 0..(n - 1) |-> FromBits(BitsOf(e, bytes, k))]
  BY Zenon DEF Stream, BitsOf, At

LEMMA PackPromise ==
    ASSUME CInv, NEW a \in Vec, PackRvec(a), Returned
    PROVE  Promise
<1>1. call'.op = "pack" /\ call'.a = a /\ aux' = AuxWith(a)
  BY DEF PackRvec, Call, Returned
<1>2. aux'.bytes = Packed(ell, Data(a), Size(a))
  BY <1>1 DEF AuxWith, CInv, IInv, Buffer
<1>3. ASSUME NEW k \in 0..(Size(a) - 1)
      PROVE  FromBits(BitsOf(ell, aux'.bytes, k)) = Elems(vec[a])[k]
  <2>1. FromBits(BitsOf(ell, Packed(ell, Data(a), Size(a)), k)) = Data(a)[k] % 2^ell
    BY VectorFacts, StreamOfPacked DEF Holds
  <2> QED BY <1>2, <2>1, ElemsFacts
<1>4. Elems(vec[a]) = [k \in 0..(Size(a) - 1) |-> Elems(vec[a])[k]]
  BY DEF Elems, Size
<1>5. Elems(vec[a]) = Stream(ell, aux'.bytes, Size(a))
  BY <1>3, <1>4, StreamElement
<1>6. Elems(vec[call'.a]) = Stream(ell, aux'.bytes, Size(call'.a))
  BY <1>1, <1>5
<1> QED BY <1>1, <1>6 DEF Promise

\* Unpacking a buffer that fits.
LEMMA UnpackedElems ==
    ASSUME CInv, NEW o \in Vec, Fits(o), NEW bytes, DOMAIN bytes = DOMAIN aux.bytes,
           \A q \in DOMAIN bytes : bytes[q] \in Byte,
           Write(o, Canonical(Unpacked(ell, bytes, Size(o)), Size(o)))
    PROVE  Elems(vec'[o]) = Stream(ell, bytes, Size(o))
<1>1. DOMAIN bytes = 0..(BytesFor(ell, Size(o)) - 1) /\ Size(o) \in Nat /\ ell \in 1..8
  BY VectorFacts DEF CInv, IInv, Buffer, Fits
<1>2. DOMAIN Unpacked(ell, bytes, Size(o)) = DOMAIN Data(o)
  <2>1. Stored(Size(o), Canonical(Unpacked(ell, bytes, Size(o)), Size(o)))
    BY <1>1, UnpackedDomain DEF CInv
  <2> QED BY <2>1, VectorFacts DEF Stored, Canonical, MaskPartialLastWord
<1>3. PICK f : f = Unpacked(ell, bytes, Size(o))
  OBVIOUS
<1>4. PICK h : h = [k \in 0..(Size(o) - 1) |-> FromBits(BitsOf(ell, bytes, k))]
  OBVIOUS
<1>5. ASSUME NEW k \in 0..(Size(o) - 1) PROVE f[k] \in Int /\ f[k] % 2^ell = h[k]
  <2>1. k \in 0..(Cells(ell, Size(o)) - 1)
    BY <1>1, InCells
  <2>2. f[k] = FromBits(BitsOf(ell, bytes, k))
    BY <1>1, <1>3, <2>1, UnpackedIsStream
  <2>3. f[k] \in Int /\ f[k] % 2^ell = f[k]
    BY <1>1, <1>3, <2>1, UnpackedType
  <2> QED BY <1>4, <2>2, <2>3
<1>6. DOMAIN f = DOMAIN Data(o) /\ Write(o, Canonical(f, Size(o)))
  BY <1>2, <1>3, Zenon
<1>7. Elems(vec'[o]) = [k \in 0..(Size(o) - 1) |-> h[k]]
  BY <1>5, <1>6, CanonicalElems
<1> QED BY <1>4, <1>7, StreamElement

LEMMA UnpackPromise ==
    ASSUME CInv, NEW o \in Vec, UnpackRvec(o), Returned
    PROVE  Promise
<1>1. call'.op = "unpack" /\ call'.o = o /\ Fits(o)
      /\ Write(o, Canonical(Unpacked(ell, aux.bytes, Size(o)), Size(o)))
  BY DEF UnpackRvec, Checked, Call, Returned
<1>2. Elems(vec'[o]) = Stream(ell, aux.bytes, Size(o))
  BY <1>1, UnpackedElems DEF CInv, Contents
<1>3. Elems(vec'[call'.o]) = Stream(ell, aux.bytes, Size(call'.o))
  BY <1>1, <1>2
<1> QED BY <1>1, <1>3 DEF Promise

\* The other operations give no value back.
LEMMA OtherPromise ==
    ASSUME call'.op \in {"new", "randFill", "newPack", "save", "crash", "load"}
    PROVE  Promise
  BY DEF Promise

LEMMA NextPromise == CInv /\ Next /\ Returned => Promise
<1> SUFFICES ASSUME CInv, Next, Returned PROVE Promise
  OBVIOUS
<1>1. ASSUME NEW o \in Vec, NEW m \in Memory, NEW n, Construct(o, n, m) \/ RandFill(o, m)
      PROVE  Promise
  BY <1>1, OtherPromise DEF Construct, RandFill, Checked, Call
<1>2. ASSUME NEW a \in Vec, Save(a) \/ Crash(a) \/ Load(a) \/ LoadFails(a) PROVE Promise
  BY <1>2, OtherPromise DEF Save, Crash, Load, LoadFails, Call
<1>3. ASSUME NEW e, NEW n, NewPack(e, n) PROVE Promise
  BY <1>3, OtherPromise DEF NewPack, Call
<1> QED BY <1>1, <1>2, <1>3, FillPromise, ConstructFilledPromise, CopyMovePromise, GetPromise, SetPromise,
           BatchSetPromise, BatchGetPromise, AddPromise, SubPromise, HadamardPromise, AddScalarPromise,
           SubScalarPromise, MulScalarPromise, DotPromise, EqualPromise, ReducePromise, FromBytesPromise,
           PackPromise, UnpackPromise DEF Next

\* Every call that returns has computed in the ring on the elements alone, for every
\* width, size, content of memory and number of calls: what memory held above the bits
\* of an element, in the padding, or in the output before never shows, in place or not.
THEOREM ArithmeticAlwaysExact == Spec => ArithmeticIsExact
<1>1. CInv /\ [Next]_vars => [call'.res # Thrown => Promise]_vars
  BY NextPromise DEF Returned
<1> QED BY <1>1, InitCInv, NextCInv, PTL DEF Spec, ArithmeticIsExact

-----------------------------------------------------------------------------
\* The file and the save that last opened it.

\* The file is a prefix of what the save that last opened it writes.  No save has opened
\* it yet: Nothing.
FileInv ==
    LET n == saved.of.n
        d == saved.of.data
    IN  /\ saved.ell = ell
        /\ Stored(n, d) /\ Holds(n, d)
        /\ Len(file) >= 3 => file[3] = n
        /\ \A k \in 4..Len(file) : file[k] = Packed(ell, d, n)[k - 4]

LEMMA FileStays == FileInv /\ UNCHANGED <<ell, file, saved>> => FileInv'
  BY DEF FileInv, Stored, Holds

\* The header and the packed bytes s, cut anywhere.
LEMMA ImageBytes ==
    ASSUME NEW e \in Int, NEW n \in Int, NEW s \in Seq(Int), NEW f \in Prefixes(Header(e, n) \o s)
    PROVE  /\ Len(f) >= 3 => f[3] = n
           /\ \A k \in 4..Len(f) : k - 3 \in 1..Len(s) /\ f[k] = s[k - 3]
<1> DEFINE i == Header(e, n) \o s
<1>1. Header(e, n) \in Seq(Int) /\ Len(Header(e, n)) = 3 /\ Header(e, n)[3] = n
  BY DEF Header, FILE_MAGIC
<1> HIDE DEF Header
<1>2. i \in Seq(Int) /\ Len(i) = 3 + Len(s) /\ i[3] = n /\ \A k \in 4..Len(i) : i[k] = s[k - 3]
  <2>1. PICK h \in Seq(Int) : h = Header(e, n) /\ Len(h) = 3 /\ h[3] = n
    BY <1>1
  <2>2. i = h \o s
    BY <2>1
  <2> HIDE DEF i
  <2>3. /\ h \o s \in Seq(Int) /\ Len(h \o s) = Len(h) + Len(s)
        /\ \A k \in 1..(Len(h) + Len(s)) : (h \o s)[k] = IF k <= Len(h) THEN h[k] ELSE s[k - Len(h)]
    BY ConcatProperties
  <2>4. PICK l \in Nat : l = Len(s)
    OBVIOUS
  <2>5. \A k \in 4..(3 + l) : k \in 1..(3 + l) /\ ~(k <= 3)
    OBVIOUS
  <2>6. 3 \in 1..(3 + l)
    OBVIOUS
  <2> QED BY <2>1, <2>2, <2>3, <2>4, <2>5, <2>6
<1>3. PICK j \in {0, 2, 3, Len(i) - 1, Len(i)} : f = SubSeq(i, 1, j)
  BY DEF Prefixes
<1> HIDE DEF i
<1>4. j \in 0..Len(i) /\ Len(s) \in Nat
  BY <1>2, <1>3
<1>5. f \in Seq(Int) /\ Len(f) = j /\ \A k \in 1..j : f[k] = i[k]
  BY <1>2, <1>3, <1>4
<1> QED BY <1>2, <1>4, <1>5, SMTT(40)

LEMMA SequenceBytes ==
    ASSUME NEW B \in Nat, NEW bytes, DOMAIN bytes = 0..(B - 1), \A q \in DOMAIN bytes : bytes[q] \in Byte
    PROVE  /\ Sequence(bytes) \in Seq(Int)
           /\ \A k \in 1..Len(Sequence(bytes)) : Sequence(bytes)[k] = bytes[k - 1]
<1>1. Cardinality(DOMAIN bytes) = B
  BY FS_Interval, 0 \in Int, B - 1 \in Int
<1>2. Byte \subseteq Int
  BY DEF Byte
<1>3. Sequence(bytes) = [q \in 1..B |-> bytes[q - 1]]
  BY <1>1 DEF Sequence
<1>4. ASSUME NEW q \in 1..B PROVE bytes[q - 1] \in Int
  <2>1. q - 1 \in 0..(B - 1)
    OBVIOUS
  <2>2. bytes[q - 1] \in Byte
    BY <2>1
  <2> QED BY <1>2, <2>2
<1> QED BY <1>3, <1>4

\* A file that is cut off while the vector is saved.
LEMMA SavedImage ==
    ASSUME CInv, NEW a \in Vec, UNCHANGED ell, NEW x, Opens(a, x),
           NEW s, s \in {<<>>, Sequence(Packed(ell, Data(a), Size(a)))},
           x \in Prefixes(Header(ell, Size(a)) \o s)
    PROVE  FileInv'
<1>1. PICK bytes : bytes = Packed(ell, Data(a), Size(a))
  OBVIOUS
<1>2. DOMAIN bytes = 0..(BytesFor(ell, Size(a)) - 1) /\ \A q \in DOMAIN bytes : bytes[q] \in Byte
  <2>1. DOMAIN bytes = 0..(BytesFor(ell, Size(a)) - 1)
    BY <1>1, PackedDomain DEF CInv
  <2> QED BY <1>1, <2>1, PackedType, VectorFacts DEF Holds
<1>3. s \in Seq(Int) /\ \A k \in 1..Len(s) : s[k] = bytes[k - 1]
  <2>1. CASE s = <<>>
    BY <2>1
  <2>2. CASE s = Sequence(bytes)
    <3>1. BytesFor(ell, Size(a)) \in Nat
      BY BytesForCount, VectorFacts
    <3> QED BY <1>2, <2>2, <3>1, SequenceBytes
  <2> QED BY <1>1, <2>1, <2>2
<1>4. PICK f : f = file' /\ f \in Prefixes(Header(ell, Size(a)) \o s)
  BY DEF Opens
<1>5. /\ Len(f) >= 3 => f[3] = Size(a)
      /\ \A k \in 4..Len(f) : k - 3 \in 1..Len(s) /\ f[k] = s[k - 3]
  BY <1>3, <1>4, ImageBytes, VectorFacts, SMTT(40)
<1>6. ASSUME NEW k \in 4..Len(f) PROVE f[k] = bytes[k - 4]
  <2>1. k - 3 \in 1..Len(s) /\ f[k] = s[k - 3] /\ (k - 3) - 1 = k - 4
    BY <1>5
  <2> QED BY <1>3, <2>1
<1>7. Stored(Size(a), Data(a)) /\ Holds(Size(a), Data(a))
  BY SizesOfObjects, VectorFacts DEF CInv
<1>8. saved'.ell = ell' /\ saved'.of.n = Size(a) /\ saved'.of.data = Data(a)
  BY DEF Opens, Size, Data
<1> QED BY <1>1, <1>4, <1>5, <1>6, <1>7, <1>8 DEF FileInv, Stored, Holds

LEMMA OpenedImage ==
    ASSUME CInv, NEW a \in Vec, UNCHANGED ell, NEW f, Opens(a, f),
           f \in Prefixes(Image(a)) \/ f \in Prefixes(Header(ell, Size(a)))
    PROVE  FileInv'
<1> DEFINE h == Header(ell, Size(a))
           s == Sequence(Packed(ell, Data(a), Size(a)))
<1>1. h \o <<>> = h
  BY DEF Header, FILE_MAGIC
<1>2. AuxWith(a).bytes = Packed(ell, Data(a), Size(a))
  BY DEF AuxWith, CInv, IInv, Buffer
<1> HIDE DEF h
<1>3. Image(a) = h \o s \/ Image(a) = h \o <<>>
  BY <1>2 DEF Image, h
<1> HIDE DEF s
<1>4. f \in Prefixes(h \o s) \/ f \in Prefixes(h \o <<>>)
  BY <1>1, <1>3 DEF h
<1> QED BY <1>4, SavedImage, Zenon DEF h, s

LEMMA SaveImage ==
    ASSUME CInv, FileInv, NEW a \in Vec, Save(a)
    PROVE  FileInv'
<1>1. /\ UNCHANGED ell
      /\ \/ UNCHANGED <<file, saved>>
         \/ \E f \in Prefixes(Image(a)) \cup Prefixes(Header(ell, Size(a))) : Opens(a, f)
  BY DEF Save, Call
<1> QED BY <1>1, OpenedImage, FileStays

LEMMA CrashImage ==
    ASSUME CInv, FileInv, NEW a \in Vec, Crash(a)
    PROVE  FileInv'
<1>1. UNCHANGED ell /\ (UNCHANGED <<file, saved>> \/ \E f \in Prefixes(Image(a)) : Opens(a, f))
  BY DEF Crash, Call
<1> QED BY <1>1, OpenedImage, FileStays

LEMMA InitFile == Init => FileInv
<1> SUFFICES ASSUME Init PROVE FileInv
  OBVIOUS
<1>1. file = <<>> /\ saved.ell = ell /\ saved.of.n = 0 /\ saved.of.data = [k \in {} |-> 0] /\ ell \in Ells
  BY DEF Init, Nothing
<1>2. Stored(0, [k \in {} |-> 0])
  BY <1>1, NothingIsStored
<1>3. Holds(0, [k \in {} |-> 0])
  BY DEF Holds
<1> QED BY <1>1, <1>2, <1>3 DEF FileInv

LEMMA NextFile == CInv /\ FileInv /\ [Next]_vars => FileInv'
<1> SUFFICES ASSUME CInv, FileInv, [Next]_vars PROVE FileInv'
  OBVIOUS
<1>1. CASE UNCHANGED vars
  BY <1>1, FileStays DEF vars
<1>2. CASE Next
  <2>1. ASSUME NEW o \in Vec, NEW m, NEW n, NEW x, NEW idx,
               \/ RandFill(o, m) \/ Construct(o, n, m) \/ FromBytes(o, m, n) \/ Fill(o, x)
               \/ ConstructFilled(o, n, x) \/ Get(o, n) \/ Set(o, n, x) \/ BatchSet(o, idx, x)
        PROVE  FileInv'
    <3>1. UNCHANGED <<ell, file, saved>>
      BY <2>1 DEF RandFill, Construct, FromBytes, Fill, ConstructFilled, Get, Set, BatchSet, Checked, Call, OthersStay
    <3> QED BY <3>1, FileStays
  <2>2. ASSUME NEW a \in Vec, NEW b \in Vec, NEW o \in Vec, NEW x,
               \/ Copy(a, o) \/ Move(a, o) \/ BatchGet(a, x, o) \/ Dot(a, b) \/ Equal(a, b) \/ Reduce(a)
               \/ PackRvec(a) \/ UnpackRvec(a) \/ Load(a) \/ LoadFails(a)
        PROVE  FileInv'
    <3>1. UNCHANGED <<ell, file, saved>>
      BY <2>2 DEF Copy, Move, BatchGet, Dot, Equal, Reduce, PackRvec, UnpackRvec, Load,
                  LoadFails, Checked, Call, OthersStay
    <3> QED BY <3>1, FileStays
  <2>3. ASSUME NEW a \in Vec, NEW b \in Vec, NEW o \in Vec, NEW x,
               \/ Add(a, b, o) \/ Sub(a, b, o) \/ Hadamard(a, b, o)
               \/ AddScalar(a, x, o) \/ SubScalar(a, x, o) \/ MulScalar(a, x, o)
        PROVE  FileInv'
    <3>1. UNCHANGED <<ell, file, saved>>
      BY <2>3 DEF Add, Sub, Hadamard, AddScalar, SubScalar, MulScalar, Zip, Scale, Checked, Call, OthersStay
    <3> QED BY <3>1, FileStays
  <2>4. ASSUME NEW e, NEW n, NewPack(e, n) PROVE FileInv'
    <3>1. UNCHANGED <<ell, file, saved>>
      BY <2>4 DEF NewPack, Call
    <3> QED BY <3>1, FileStays
  <2> QED BY <1>2, <2>1, <2>2, <2>3, <2>4, SaveImage, CrashImage DEF Next
<1> QED BY <1>1, <1>2

\* A load that returns found the bytes that the save which last opened the file wrote.
LEMMA LoadReturns ==
    ASSUME CInv, FileInv, NEW o \in Vec, Load(o), call'.res = Done
    PROVE  saved.ell = ell /\ Elems(vec'[o]) = Elems(saved.of)
<1> DEFINE payload == SubSeq(file, 4, Len(file))
           bytes == [q \in DOMAIN aux.bytes |-> IF q < Len(payload) THEN payload[q + 1] ELSE aux.bytes[q]]
           n == Size(o)
           packed == Packed(ell, saved.of.data, n)
<1>1. /\ HeaderOk(file, o) /\ PayloadOk(file, Cardinality(DOMAIN aux.bytes)) /\ Fits(o)
      /\ Write(o, Canonical(Unpacked(ell, bytes, Size(o)), Size(o)))
  <2> DEFINE ok == HeaderOk(file, o) /\ PayloadOk(file, Cardinality(DOMAIN aux.bytes)) /\ Fits(o)
             d == Canonical(Unpacked(ell, bytes, Size(o)), Size(o))
  <2>1. call'.res = IF ok THEN Done ELSE Thrown
    BY DEF Load, Call
  <2>2. IF ok THEN Write(o, d) ELSE UNCHANGED vec
    BY Zenon DEF Load
  <2>3. ok
    <3> HIDE DEF ok
    <3> QED BY <2>1 DEF Done, Thrown
  <2> QED BY <2>2, <2>3, Zenon
<1>2. /\ n \in Nat /\ ell \in 1..8 /\ BytesFor(ell, n) \in Nat
      /\ DOMAIN aux.bytes = 0..(BytesFor(ell, n) - 1)
  BY <1>1, VectorFacts, BytesForCount DEF CInv, IInv, Buffer, Fits
<1>3. Len(file) - 3 = BytesFor(ell, n) /\ Len(file) >= 3 /\ file \in Seq(Int)
  <2>1. Cardinality(DOMAIN aux.bytes) = BytesFor(ell, n)
    BY <1>2, FS_Interval, 0 \in Int, BytesFor(ell, n) - 1 \in Int
  <2> QED BY <1>1, <2>1 DEF PayloadOk, HeaderOk, CInv, Contents
<1>4. saved.of.n = n
  <2>1. SubSeq(file, 1, 3) = Header(ell, n)
    BY <1>1 DEF HeaderOk
  <2>2. SubSeq(file, 1, 3)[3] = file[3]
    BY <1>3
  <2>3. Header(ell, n)[3] = n
    BY DEF Header
  <2>4. file[3] = saved.of.n
    BY <1>3 DEF FileInv
  <2> QED BY <2>1, <2>2, <2>3, <2>4
<1>5. ASSUME NEW q \in DOMAIN aux.bytes PROVE bytes[q] = packed[q] /\ bytes[q] \in Byte
  <2>1. q \in Nat /\ q < BytesFor(ell, n)
    BY <1>2
  <2>20. PICK l \in Nat : l = Len(file) /\ q < l - 3 /\ 3 <= l
    BY <1>2, <1>3, <2>1
  <2>21. payload \in Seq(Int) /\ Len(payload) = l - 3
    BY <1>3, <2>20
  <2>22. q < Len(payload) /\ q + 4 \in 4..Len(file) /\ (q + 4) - 4 = q
    BY <2>1, <2>20, <2>21
  <2>2. q + 4 \in 4..Len(file) /\ q < Len(payload) /\ payload[q + 1] = file[q + 4] /\ (q + 4) - 4 = q
    BY <1>3, <2>1, <2>20, <2>22, SMTT(40)
  <2>3. file[q + 4] = Packed(ell, saved.of.data, saved.of.n)[(q + 4) - 4] /\ file[q + 4] \in Byte
    BY <2>2 DEF FileInv, CInv, Contents
  <2>4. bytes[q] = file[q + 4]
    BY <2>2
  <2> HIDE DEF bytes
  <2> QED BY <1>4, <2>2, <2>3, <2>4
<1>6. DOMAIN bytes = DOMAIN aux.bytes
  OBVIOUS
<1> HIDE DEF bytes, packed
<1>7. Elems(vec'[o]) = Stream(ell, bytes, n)
  BY <1>1, <1>5, <1>6, UnpackedElems
<1>8. ASSUME NEW k \in 0..(n - 1)
      PROVE  FromBits(BitsOf(ell, bytes, k)) = saved.of.data[k] % 2^ell
  <2>1. k \in 0..(Cells(ell, n) - 1)
    BY <1>2, InCells
  <2>2. ASSUME NEW b \in 0..(ell - 1) PROVE At(bytes, k * ell + b) = At(packed, k * ell + b)
    <3>1. (k * ell + b) \div 8 \in DOMAIN aux.bytes
      BY <1>2, <2>1, BitsInBytes
    <3> QED BY <1>5, <3>1 DEF At
  <2>3. BitsOf(ell, bytes, k) = BitsOf(ell, packed, k)
    BY <2>2 DEF BitsOf
  <2>4. PICK d : d = saved.of.data
    OBVIOUS
  <2>5. DOMAIN d = 0..(Cells(ell, n) - 1) /\ \A x \in DOMAIN d : d[x] \in CellOf(ell)
    BY <1>4, <2>4 DEF FileInv, Stored, Holds
  <2>6. FromBits(BitsOf(ell, Packed(ell, d, n), k)) = d[k] % 2^ell
    BY <1>2, <2>5, StreamOfPacked
  <2> QED BY <2>3, <2>4, <2>6 DEF packed
<1>9. Stream(ell, bytes, n) = [k \in 0..(n - 1) |-> saved.of.data[k] % 2^ell]
  BY <1>8, StreamElement
<1>10. Elems(saved.of) = [k \in 0..(n - 1) |-> saved.of.data[k] % 2^ell]
  BY <1>4 DEF Elems
<1> QED BY <1>7, <1>9, <1>10 DEF FileInv

LEMMA LoadThrows ==
    ASSUME NEW o \in Vec, Load(o) \/ LoadFails(o), call'.res # Done
    PROVE  vec' = vec
  BY DEF Load, LoadFails, Call

LEMMA OnlyLoad ==
    ASSUME Next, call'.op = "load"
    PROVE  \E o \in Vec : (Load(o) /\ call'.o = o) \/ (LoadFails(o) /\ call'.res # Done)
<1>1. ASSUME NEW o, NEW m, NEW n, NEW x, NEW idx,
             \/ RandFill(o, m) \/ Construct(o, n, m) \/ FromBytes(o, m, n) \/ Fill(o, x)
             \/ ConstructFilled(o, n, x) \/ Get(o, n) \/ Set(o, n, x) \/ BatchSet(o, idx, x)
      PROVE  FALSE
  BY <1>1 DEF RandFill, Construct, FromBytes, Fill, ConstructFilled, Get, Set, BatchSet, Checked, Call
<1>2. ASSUME NEW a, NEW b, NEW o, NEW x,
             \/ Copy(a, o) \/ Move(a, o) \/ BatchGet(a, x, o) \/ Dot(a, b) \/ Equal(a, b) \/ Reduce(a)
             \/ PackRvec(a) \/ UnpackRvec(a) \/ NewPack(x, b) \/ Save(a) \/ Crash(a)
      PROVE  FALSE
  BY <1>2 DEF Copy, Move, BatchGet, Dot, Equal, Reduce, PackRvec, UnpackRvec, NewPack, Save, Crash, Checked, Call
<1>3. ASSUME NEW a, NEW b, NEW o, NEW x,
             \/ Add(a, b, o) \/ Sub(a, b, o) \/ Hadamard(a, b, o)
             \/ AddScalar(a, x, o) \/ SubScalar(a, x, o) \/ MulScalar(a, x, o)
      PROVE  FALSE
  BY <1>3 DEF Add, Sub, Hadamard, AddScalar, SubScalar, MulScalar, Zip, Scale, Checked, Call
<1>4. ASSUME NEW o \in Vec, Load(o) PROVE call'.o = o
  BY <1>4 DEF Load, Call
<1>5. ASSUME NEW o \in Vec, LoadFails(o) PROVE call'.res # Done
  BY <1>5 DEF LoadFails, Call, Thrown, Done
<1> QED BY <1>1, <1>2, <1>3, <1>4, <1>5 DEF Next

\* A load that returns brings back the vector of the save that last opened the file,
\* for every width, size and place where the file was cut, whatever was called since,
\* a save that could not open it included; a load that throws leaves the vector alone.
THEOREM LoadIsTruthful == Spec => LoadNeverLies
<1> DEFINE Truth == call'.op = "load" =>
                      IF call'.res = Done
                      THEN saved.ell = ell /\ Elems(vec'[call'.o]) = Elems(saved.of)
                      ELSE vec' = vec
<1>1. ASSUME CInv, FileInv, Next PROVE Truth
  <2> SUFFICES ASSUME call'.op = "load"
               PROVE  IF call'.res = Done
                      THEN saved.ell = ell /\ Elems(vec'[call'.o]) = Elems(saved.of)
                      ELSE vec' = vec
    OBVIOUS
  <2>1. PICK o \in Vec : (Load(o) /\ call'.o = o) \/ (LoadFails(o) /\ call'.res # Done)
    BY <1>1, OnlyLoad
  <2>2. CASE call'.res = Done
    <3>1. Load(o) /\ call'.o = o
      BY <2>1, <2>2
    <3>2. saved.ell = ell /\ Elems(vec'[o]) = Elems(saved.of)
      BY <1>1, <2>2, <3>1, LoadReturns
    <3> QED BY <2>2, <3>1, <3>2
  <2>3. CASE call'.res # Done
    BY <2>1, <2>3, LoadThrows
  <2> QED BY <2>2, <2>3
<1>2. CInv /\ FileInv /\ [Next]_vars => [Truth]_vars
  <2> HIDE DEF Truth
  <2> QED BY <1>1
<1>3. Spec => [](CInv /\ FileInv)
  BY InitCInv, NextCInv, InitFile, NextFile, PTL DEF Spec
<1>4. Spec => [][Truth]_vars
  <2> HIDE DEF Truth
  <2> QED BY <1>2, <1>3, PTL DEF Spec
<1> QED BY <1>4 DEF LoadNeverLies

=============================================================================
