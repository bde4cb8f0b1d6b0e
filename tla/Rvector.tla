------------------------------ MODULE Rvector ------------------------------
(***************************************************************************)
(* Vectors over Z_{2^ell} (include/rvector.hpp): storage, arithmetic,      *)
(* packing and files, for one instance of the template at a time.          *)
(*                                                                         *)
(* data is the storage in cells: with ell = 1 a cell is a bit and storage  *)
(* is rounded up to whole words, the surplus bits being padding; else a    *)
(* cell is a byte and there is one for each element.  Storage is not       *)
(* initialised by the constructor, so the bits of a byte above ell may be  *)
(* anything, and the code masks them when it reads.  Unrolled, SIMD and    *)
(* aliasing variants of a loop are one definition: they compute the same   *)
(* cells.  A file is the sequence of what was written: magic, ell, n and   *)
(* the packed bytes; a torn file is a proper prefix.                       *)
(***************************************************************************)
EXTENDS Integers, Sequences, FiniteSetsExt

CONSTANTS
    Ells,       \* the widths to instantiate
    SizesOf,    \* the sizes of the vectors of each width
    WordBits,   \* elements per word for ell = 1
    Vec,        \* vector objects
    Memory,     \* what fresh memory or the random generator may hold, cell by cell
    Values,     \* arguments that stand for ring elements, some of them too large
    IndexLists, \* arguments of batchSet and batchGet
    MaxCost     \* bound on what the calls of a behaviour cost together

ASSUME WordAssumption == WordBits \in Nat \ {0} /\ WordBits % 8 = 0
ASSUME EllAssumption == Ells \subseteq 1..8 /\ \A e \in Ells : SizesOf[e] \subseteq Nat
ASSUME MemoryAssumption ==
    \A m \in Memory, e \in Ells : \A n \in SizesOf[e] :
        \A k \in 0..(n + WordBits) : m[k] \in 0..255
ASSUME IndexAssumption == IndexLists \subseteq Seq(Nat)

FILE_MAGIC == 1297108308

VARIABLES
    ell,        \* template argument ELL
    vec,        \* the objects: size and storage
    aux,        \* an RvectorPack: its ell, size and bytes
    file,       \* the one file
    saved,      \* history: what the save that last opened the file was called with
    call,       \* the last call: operation, arguments and result
    calls       \* what the calls so far have cost

vars == <<ell, vec, aux, file, saved, call, calls>>

Byte == 0..255

\* Mutant of Ring: checkRing lets the modulus pass.
RingClosed(e) == 0..(2^e)

Ring(e) == 0..(2^e - 1)
Bit(x, k) == (x \div 2^k) % 2

-----------------------------------------------------------------------------
\* Packing.  Elements are packed in groups that fill whole bytes; what is left
\* over is packed through a window of its own, and unpacked element by element.

WordsFor(e, n) == IF e = 1 THEN (n + WordBits - 1) \div WordBits ELSE n
Cells(e, n) == IF e = 1 THEN WordsFor(e, n) * WordBits ELSE n

BytesFor(e, n) ==
    CASE e = 1 -> WordsFor(e, n) * (WordBits \div 8)
      [] e = 8 -> n
      [] OTHER -> (n * e + 7) \div 8

Group(e) == CASE e = 4 -> 2 [] e \in {2, 6} -> 4 [] OTHER -> 8
GroupBytes(e) == (Group(e) * e) \div 8

\* The bits of elements i, ..., i + m - 1, masked and shifted into place.
Window(e, d, i, m) == [b \in 0..(m * e - 1) |-> Bit(d[i + b \div e], b % e)]

Total(f) == MapThenSumSet(LAMBDA k : f[k], DOMAIN f)
FromBits(bits) == Total([b \in DOMAIN bits |-> bits[b] * 2^b])

ByteOf(w, q) == FromBits([b \in 0..7 |-> IF 8 * q + b \in DOMAIN w THEN w[8 * q + b] ELSE 0])

PackKernel(e, d, n) ==
    [out \in 0..(BytesFor(e, n) - 1) |->
        LET i == Group(e) * (out \div GroupBytes(e))
        IN  ByteOf(Window(e, d, i, IF n - i < Group(e) THEN n - i ELSE Group(e)),
                   out % GroupBytes(e))]

\* The bits of an element in the bytes of its group.
FromGroup(e, bytes, i) ==
    LET in == GroupBytes(e) * (i \div Group(e))
        bit(b) == (i % Group(e)) * e + b
    IN  FromBits([b \in 0..(e - 1) |-> Bit(bytes[in + bit(b) \div 8], bit(b) % 8)])

\* Mutant of FromTail: an element that spans two bytes is read from the first.
FromOneByte(e, bytes, i) == (bytes[(i * e) \div 8] \div 2^((i * e) % 8)) % 2^e

FromTail(e, bytes, i) ==
    LET in == (i * e) \div 8
        shift == (i * e) % 8
    IN  ((bytes[in] \div 2^shift) % 2^e)
        + (IF shift + e > 8 THEN (bytes[in + 1] * 2^(8 - shift)) % 2^e ELSE 0)

UnpackKernel(e, bytes, n) ==
    [i \in 0..(n - 1) |-> IF i < Group(e) * (n \div Group(e))
                          THEN FromGroup(e, bytes, i) ELSE FromTail(e, bytes, i)]

\* packRvec and unpackRvec copy memory when ell is 1 or 8.
Packed(e, d, n) ==
    CASE e = 1 -> [q \in 0..(BytesFor(e, n) - 1) |-> ByteOf(d, q)]
      [] e = 8 -> d
      [] OTHER -> PackKernel(e, d, n)

Unpacked(e, bytes, n) ==
    CASE e = 1 -> [k \in 0..(Cells(e, n) - 1) |-> Bit(bytes[k \div 8], k % 8)]
      [] e = 8 -> bytes
      [] OTHER -> UnpackKernel(e, bytes, n)

-----------------------------------------------------------------------------
\* Objects

\* Mutant of MaskPartialLastWord: the padding keeps what the loop left there.
KeepPadding(d, n) == d

MaskPartialLastWord(d, n) == [k \in DOMAIN d |-> IF k < n THEN d[k] ELSE 0]

Canonical(d, n) == MaskPartialLastWord([k \in DOMAIN d |-> d[k] % 2^ell], n)

\* Memory as it was found; the constructor zeroes the last word if it has padding.
Fresh(n, m) ==
    [k \in 0..(Cells(ell, n) - 1) |->
        IF ell = 1
        THEN IF n % WordBits # 0 /\ k >= Cells(ell, n) - WordBits THEN 0 ELSE m[k] % 2
        ELSE m[k]]

Nothing == [n |-> 0, data |-> [k \in {} |-> 0]]
New(n, m) == [n |-> n, data |-> Fresh(n, m)]

Size(v) == vec[v].n
Data(v) == vec[v].data

Thrown == -1
Done == -2

\* Calls that make or read files cost less, so that a bound admits more of them.
Cost(op) == IF op \in {"newPack", "save", "crash", "load"} THEN 2 ELSE 3

\* A call: its operation, vectors a and b, output o, argument x, and result.
Call(op, a, b, o, x, res) ==
    /\ calls + Cost(op) <= MaxCost
    /\ calls' = calls + Cost(op)
    /\ call' = [op |-> op, a |-> a, b |-> b, o |-> o, x |-> x, res |-> res]
    /\ UNCHANGED ell

Write(o, d) == vec' = [vec EXCEPT ![o].data = d]
OthersStay == UNCHANGED <<aux, file, saved>>

\* A call that passes its checks returns and writes d to o; one that fails throws
\* before it writes.
Checked(op, a, b, o, x, ok, d) ==
    /\ Call(op, a, b, o, x, IF ok THEN Done ELSE Thrown)
    /\ IF ok THEN Write(o, d) ELSE UNCHANGED vec
    /\ OthersStay

-----------------------------------------------------------------------------
\* Operations

Construct(o, n, m) ==
    /\ Call("new", o, o, o, n, Done)
    /\ vec' = [vec EXCEPT ![o] = New(n, m)]
    /\ OthersStay

\* The binding's constructor with a value; if fill throws there is no new object.
ConstructFilled(o, n, x) ==
    /\ Call("newFilled", o, o, o, <<n, x>>, IF x \in Ring(ell) THEN Done ELSE Thrown)
    /\ vec' = IF x \in Ring(ell)
              THEN [vec EXCEPT ![o] = [n |-> n, data |->
                       MaskPartialLastWord([k \in 0..(Cells(ell, n) - 1) |-> x], n)]]
              ELSE vec
    /\ OthersStay

Fill(o, x) ==
    Checked("fill", o, o, o, x, x \in Ring(ell),
            MaskPartialLastWord([k \in DOMAIN Data(o) |-> x], Size(o)))

RandFill(o, m) ==
    Checked("randFill", o, o, o, 0, TRUE,
            MaskPartialLastWord([k \in DOMAIN Data(o) |-> m[k] % 2^ell], Size(o)))

Copy(a, o) ==
    /\ Call("copy", a, a, o, 0, Done)
    /\ vec' = [vec EXCEPT ![o] = vec[a]]
    /\ OthersStay

Move(a, o) ==
    /\ Call("move", a, a, o, 0, Done)
    /\ vec' = IF a = o THEN vec ELSE [vec EXCEPT ![o] = vec[a], ![a] = Nothing]
    /\ OthersStay

Get(a, i) ==
    /\ Call("get", a, a, a, i, IF i < Size(a) THEN Data(a)[i] % 2^ell ELSE Thrown)
    /\ UNCHANGED vec
    /\ OthersStay

Set(o, i, x) ==
    Checked("set", o, o, o, <<i, x>>, i < Size(o) /\ x \in Ring(ell), [Data(o) EXCEPT ![i] = x])

\* The binding's from_bytes takes as many bytes as the storage has, whatever they are.
FromBytes(o, m, cells) ==
    Checked("fromBytes", o, o, o, m, cells = Cells(ell, Size(o)),
            Canonical([k \in DOMAIN Data(o) |-> IF ell = 1 THEN m[k] % 2 ELSE m[k]], Size(o)))

\* The binding's __eq__ compares element by element.
Equal(a, b) ==
    /\ Call("equal", a, b, a, 0,
            IF Size(a) = Size(b) /\ \A k \in 0..(Size(a) - 1) : Data(a)[k] % 2^ell = Data(b)[k] % 2^ell
            THEN 1 ELSE 0)
    /\ UNCHANGED vec
    /\ OthersStay

\* The indices before the first that is out of range: these are written even when
\* the call throws.
Prefix(idx, n) == {k \in 1..Len(idx) : \A j \in 1..k : idx[j] < n}
Outcome(idx, n) == IF Prefix(idx, n) = 1..Len(idx) THEN Done ELSE Thrown

BatchSet(o, idx, x) ==
    LET hit == {idx[k] : k \in Prefix(idx, Size(o))}
    IN  IF x \notin Ring(ell)
        THEN Checked("batchSet", o, o, o, <<idx, x>>, FALSE, Data(o))
        ELSE /\ Call("batchSet", o, o, o, <<idx, x>>, Outcome(idx, Size(o)))
             /\ Write(o, [k \in DOMAIN Data(o) |-> IF k \in hit THEN x ELSE Data(o)[k]])
             /\ OthersStay

BatchGet(a, idx, o) ==
    IF a = o \/ Size(o) < Len(idx)
    THEN Checked("batchGet", a, a, o, idx, FALSE, Data(o))
    ELSE /\ Call("batchGet", a, a, o, idx, Outcome(idx, Size(a)))
         /\ Write(o, [k \in DOMAIN Data(o) |-> IF k + 1 \in Prefix(idx, Size(a))
                                               THEN Data(a)[idx[k + 1]] % 2^ell ELSE Data(o)[k]])
         /\ OthersStay

\* The loops of _add and its relatives run over all cells, padding included.
Zip(op, F(_, _), a, b, o) ==
    Checked(op, a, b, o, 0, Size(a) = Size(b) /\ Size(a) = Size(o),
            MaskPartialLastWord([k \in DOMAIN Data(a) |-> F(Data(a)[k], Data(b)[k]) % 2^ell],
                                Size(o)))

Add(a, b, o) == Zip("add", LAMBDA x, y : x + y, a, b, o)
Sub(a, b, o) == Zip("sub", LAMBDA x, y : x - y, a, b, o)
Hadamard(a, b, o) == Zip("hadamard", LAMBDA x, y : x * y, a, b, o)

Scale(op, F(_), a, x, o) ==
    Checked(op, a, a, o, x, x \in Ring(ell) /\ Size(a) = Size(o),
            MaskPartialLastWord([k \in DOMAIN Data(a) |-> F(Data(a)[k]) % 2^ell], Size(o)))

AddScalar(a, x, o) == Scale("addScalar", LAMBDA y : y + x, a, x, o)
SubScalar(a, x, o) == Scale("subScalar", LAMBDA y : y - x, a, x, o)
MulScalar(a, x, o) == Scale("mulScalar", LAMBDA y : y * x, a, x, o)

\* Sums run over all cells: popcount counts the padding.
Sum(f) == Total(f) % 2^ell

Dot(a, b) ==
    LET sum == Sum([k \in DOMAIN Data(a) |-> Data(a)[k] * Data(b)[k]])
    IN  /\ Call("dot", a, b, a, 0, IF Size(a) = Size(b) THEN sum ELSE Thrown)
        /\ UNCHANGED vec
        /\ OthersStay

Reduce(a) ==
    /\ Call("reduce", a, a, a, 0, Sum(Data(a)))
    /\ UNCHANGED vec
    /\ OthersStay

-----------------------------------------------------------------------------
\* RvectorPack and files

Fits(v) == aux.ell = ell /\ aux.n = Size(v)

EmptyPack(e, n) ==
    [ell |-> e, n |-> n, bytes |-> [q \in 0..(BytesFor(e, n) - 1) |-> 0]]

NewPack(e, n) ==
    /\ Call("newPack", CHOOSE v \in Vec : TRUE, 0, 0, <<e, n>>, Done)
    /\ aux' = EmptyPack(e, n)
    /\ UNCHANGED <<vec, file, saved>>

AuxWith(v) == [aux EXCEPT !.bytes = Packed(ell, Data(v), Size(v))]

PackRvec(a) ==
    /\ Call("pack", a, a, a, 0, IF Fits(a) THEN Done ELSE Thrown)
    /\ aux' = IF Fits(a) THEN AuxWith(a) ELSE aux
    /\ UNCHANGED <<vec, file, saved>>

UnpackRvec(o) ==
    Checked("unpack", o, o, o, 0, Fits(o), Canonical(Unpacked(ell, aux.bytes, Size(o)), Size(o)))

Sequence(bytes) == [q \in 1..Cardinality(DOMAIN bytes) |-> bytes[q - 1]]
Header(e, n) == <<FILE_MAGIC, e, n>>

\* Where a file may end: empty, in the header, after it, one byte short, complete.
Prefixes(s) == {SubSeq(s, 1, k) : k \in {0, 2, 3, Len(s) - 1, Len(s)}}

\* What save writes; a pack that does not fit throws behind the header.
Image(a) ==
    Header(ell, Size(a)) \o IF Fits(a) THEN Sequence(AuxWith(a).bytes) ELSE <<>>

\* The first three lines of save: the file is truncated, or, when its name is wrong or
\* it cannot be opened, the call throws and nothing has changed.
Opens(a, f) == file' = f /\ saved' = [ell |-> ell, of |-> vec[a]]

\* A write error leaves a prefix and throws; the pack is filled between the header and
\* the payload.  fclose, in the destructor of f, flushes what is buffered, and its
\* result is not looked at: an error there leaves a prefix although save returns.
Save(a) ==
    /\ UNCHANGED vec
    /\ \/ /\ Call("save", a, a, a, 0, Thrown)
          /\ UNCHANGED <<aux, file, saved>>
       \/ /\ Call("save", a, a, a, 0, Thrown)
          /\ \E f \in Prefixes(Header(ell, Size(a))) : Opens(a, f)
          /\ UNCHANGED aux
       \/ /\ Fits(a)
          /\ \E res \in {Done, Thrown} : Call("save", a, a, a, 0, res)
          /\ \E f \in Prefixes(Image(a)) : Opens(a, f)
          /\ aux' = AuxWith(a)

\* The process stops, inside save or not, and the next one constructs its objects.
Crash(a) ==
    /\ Call("crash", a, a, a, 0, Thrown)
    /\ \/ UNCHANGED <<file, saved>>
       \/ \E f \in Prefixes(Image(a)) : Opens(a, f)
    /\ \E n \in SizesOf[ell], m \in Memory :
           /\ vec' = [v \in Vec |-> New(n, m)]
           /\ aux' = EmptyPack(ell, n)

\* Mutant of PayloadOk: a short read is not noticed.
PayloadAtMost(f, size) == Len(f) - 3 <= size

PayloadOk(f, size) == Len(f) - 3 = size

HeaderOk(f, o) == Len(f) >= 3 /\ SubSeq(f, 1, 3) = Header(ell, Size(o))

\* The payload is read into the buffer, as long as that is, before its ell and n
\* are compared with those of the vector.
Load(o) ==
    LET payload == SubSeq(file, 4, Len(file))
        read == HeaderOk(file, o) /\ PayloadOk(file, Cardinality(DOMAIN aux.bytes))
        bytes == [q \in DOMAIN aux.bytes |-> IF q < Len(payload) THEN payload[q + 1] ELSE aux.bytes[q]]
        ok == read /\ Fits(o)
    IN  /\ Call("load", o, o, o, 0, IF ok THEN Done ELSE Thrown)
        /\ aux' = IF read THEN [aux EXCEPT !.bytes = bytes] ELSE aux
        /\ IF ok THEN Write(o, Canonical(Unpacked(ell, bytes, Size(o)), Size(o)))
           ELSE UNCHANGED vec
        /\ UNCHANGED <<file, saved>>

\* load throws before it reads the payload: wrong name, open or read error.
LoadFails(o) ==
    /\ Call("load", o, o, o, 0, Thrown)
    /\ UNCHANGED <<vec, aux, file, saved>>

-----------------------------------------------------------------------------
Init ==
    /\ ell \in Ells
    /\ \E n \in SizesOf[ell] :
           /\ vec \in [Vec -> {New(n, m) : m \in Memory}]
           /\ aux = EmptyPack(ell, n)
    /\ file = <<>>
    /\ saved = [ell |-> ell, of |-> Nothing]
    /\ call = [op |-> "none", a |-> 0, b |-> 0, o |-> 0, x |-> 0, res |-> Done]
    /\ calls = 0

Index == UNION {{0, n - 1, n} : n \in SizesOf[ell] \ {0}}

Next ==
    \/ \E o \in Vec, m \in Memory :
           \/ RandFill(o, m)
           \/ \E n \in SizesOf[ell] : Construct(o, n, m) \/ FromBytes(o, m, Cells(ell, n))
    \/ \E o \in Vec, x \in Values : Fill(o, x) \/ \E n \in SizesOf[ell] : ConstructFilled(o, n, x)
    \/ \E a, o \in Vec : Copy(a, o) \/ Move(a, o)
    \/ \E a \in Vec, i \in Index : Get(a, i) \/ \E x \in Values : Set(a, i, x)
    \/ \E o \in Vec, idx \in IndexLists, x \in Values : BatchSet(o, idx, x)
    \/ \E a, o \in Vec, idx \in IndexLists : BatchGet(a, idx, o)
    \/ \E a, b, o \in Vec : Add(a, b, o) \/ Sub(a, b, o) \/ Hadamard(a, b, o)
    \/ \E a, o \in Vec, x \in Values :
           AddScalar(a, x, o) \/ SubScalar(a, x, o) \/ MulScalar(a, x, o)
    \/ \E a, b \in Vec : Dot(a, b) \/ Equal(a, b)
    \/ \E a \in Vec : Reduce(a) \/ PackRvec(a) \/ UnpackRvec(a) \/ Save(a) \/ Crash(a)
                       \/ Load(a) \/ LoadFails(a)
    \/ \E e \in Ells, n \in SizesOf[ell] : NewPack(e, n)

Spec == Init /\ [][Next]_vars

-----------------------------------------------------------------------------
\* Properties

\* The storage of a vector has the cells that its size asks for, and cells hold
\* what their type can.
TypeOK ==
    /\ \A v \in Vec :
           /\ DOMAIN Data(v) = 0..(Cells(ell, Size(v)) - 1)
           /\ \A k \in DOMAIN Data(v) : Data(v)[k] \in IF ell = 1 THEN {0, 1} ELSE Byte
    /\ DOMAIN aux.bytes = 0..(BytesFor(aux.ell, aux.n) - 1)
    /\ \A q \in DOMAIN aux.bytes : aux.bytes[q] \in Byte

\* What a caller can see of a vector.
Elems(v) == [k \in 0..(v.n - 1) |-> v.data[k] % 2^ell]

\* Bit b of element i is bit i * ell + b of the packed bytes, whatever the width.
Stream(e, bytes, n) ==
    [i \in 0..(n - 1) |->
        FromBits([b \in 0..(e - 1) |-> Bit(bytes[(i * e + b) \div 8], (i * e + b) % 8)])]

Map2(F(_, _), A, B) == [k \in DOMAIN A |-> F(A[k], B[k]) % 2^ell]

\* The value that each operation promises, in terms of elements.
Promise ==
    LET c == call'
        A == Elems(vec[c.a])
        B == Elems(vec[c.b])
        O == Elems(vec'[c.o])
        old == Elems(vec[c.o])
    IN  CASE c.op = "fill" -> O = [k \in DOMAIN old |-> c.x]
          [] c.op = "newFilled" -> O = [k \in 0..(c.x[1] - 1) |-> c.x[2]]
          [] c.op \in {"copy", "move"} -> O = A
          [] c.op = "get" -> c.res = A[c.x]
          [] c.op = "set" -> O = [old EXCEPT ![c.x[1]] = c.x[2]]
          [] c.op = "batchSet" ->
                 O = [k \in DOMAIN old |-> IF \E j \in 1..Len(c.x[1]) : c.x[1][j] = k
                                           THEN c.x[2] ELSE old[k]]
          [] c.op = "batchGet" ->
                 O = [k \in DOMAIN old |-> IF k < Len(c.x) THEN A[c.x[k + 1]] ELSE old[k]]
          [] c.op = "add" -> O = Map2(LAMBDA x, y : x + y, A, B)
          [] c.op = "sub" -> O = Map2(LAMBDA x, y : x - y, A, B)
          [] c.op = "hadamard" -> O = Map2(LAMBDA x, y : x * y, A, B)
          [] c.op = "addScalar" -> O = Map2(LAMBDA x, y : x + c.x, A, A)
          [] c.op = "subScalar" -> O = Map2(LAMBDA x, y : x - c.x, A, A)
          [] c.op = "mulScalar" -> O = Map2(LAMBDA x, y : x * c.x, A, A)
          [] c.op = "dot" -> c.res = Sum([k \in DOMAIN A |-> A[k] * B[k]])
          [] c.op = "reduce" -> c.res = Sum(A)
          [] c.op = "equal" -> c.res = 1 <=> A = B
          [] c.op = "fromBytes" -> O = [k \in DOMAIN old |-> c.x[k] % 2^ell]
          [] c.op = "pack" -> A = Stream(ell, aux'.bytes, Size(c.a))
          [] c.op = "unpack" -> O = Stream(ell, aux.bytes, Size(c.o))
          [] OTHER -> TRUE

\* Every call that returns has computed in Z_{2^ell} on the elements alone: what
\* memory held above the ell bits, in the padding, or in the output before never
\* shows, in place or not.
ArithmeticIsExact == [][call'.res # Thrown => Promise]_vars

\* The padding of a bit vector is zero after every operation, thrown or not:
\* popcount and the bytes that go to a file or a peer contain it.
PaddingIsZero ==
    \A v \in Vec : \A k \in DOMAIN Data(v) : k >= Size(v) => Data(v)[k] = 0

\* A load that returns brings back the vector of the save that last opened the file,
\* although that may have thrown, been cut short by a crash, or lost its tail in an
\* unchecked fclose and returned, and although a save that could not open the file, and
\* any other call, may have come since; a load that throws leaves the vector alone.
LoadNeverLies ==
    [][call'.op = "load" =>
         IF call'.res = Done
         THEN saved.ell = ell /\ Elems(vec'[call'.o]) = Elems(saved.of)
         ELSE vec' = vec]_vars
=============================================================================
