-------------------------------- MODULE Emp2 --------------------------------
(***************************************************************************)
(* Two-party additive sharing (include/ref_impl/shr_add2/emp2.hpp), and    *)
(* the local hash of common.hpp that its hash circuit must agree with.     *)
(*                                                                         *)
(* Party 0 is ALICE.  A circuit is evaluated by both parties together, so  *)
(* each operation is one operator of both parties' inputs and the random   *)
(* mask of party 0; the circuits themselves (emp-sh2pc) are external and   *)
(* taken to compute what they are built to.  A byte is one bit, and Aes is *)
(* any function of a key and a block.                                      *)
(***************************************************************************)
EXTENDS Integers, SequencesExt, FiniteSetsExt

CONSTANTS BlockBytes,    \* bytes of a block
          Aes(_, _)      \* aes128_encrypt, PRP.permute_block

\* The two shares of v that party 0's random mask r makes: share with recvShare,
\* and the way every circuit hands out its result.
Shared(v, r, ell) == <<r % 2^ell, (v - r) % 2^ell>>
Opened(s, ell) == (s[1] + s[2]) % 2^ell

XorBytes(a, b) == [i \in DOMAIN a |-> (a[i] + b[i]) % 2]

\* shareBytes and shareKey: the owner keeps the random string.
SharedBytes(plain, r) == <<r, XorBytes(plain, r)>>

Zeros(n) == [i \in 1..n |-> 0]
ZeroBlock == Zeros(BlockBytes)

\* Block b of a string, padded with zeros.
BlockAt(pt, b) ==
    [i \in 1..BlockBytes |->
        IF b * BlockBytes + i <= Len(pt) THEN pt[b * BlockBytes + i] ELSE 0]

\* slice<0, ELL>, and the masked low word of a block.
LowBits(h, ell) == MapThenSumSet(LAMBDA i : h[i] * 2^(i - 1), DOMAIN h) % 2^ell

-----------------------------------------------------------------------------
\* hash: the chain over at least one block, which the first block starts.
CircuitHash(pt, key, ell) ==
    LET blocks == (Len(pt) + BlockBytes - 1) \div BlockBytes
        n == IF blocks = 0 THEN 1 ELSE blocks
        chain[b \in 0..(n - 1)] ==
            LET m == BlockAt(pt, b)
            IN  IF b = 0 THEN Aes(key, m)
                ELSE XorBytes(Aes(key, XorBytes(chain[b - 1], m)), chain[b - 1])
    IN  LowBits(chain[n - 1], ell)

Hash(pt, key, r, ell) == Shared(CircuitHash(XorBytes(pt[1], pt[2]), XorBytes(key[1], key[2]), ell), r, ell)

\* mod throws before it builds a circuit.
ModThrows(mv, ell) == mv = 0 \/ mv >= 2^ell
Mod(a, mv, r, ell) == Shared(Opened(a, ell) % mv, r, ell)

\* equalityTest subtracts and compares with zero.
EqualityTest(a, b, r, ell) ==
    Shared(IF (Opened(a, ell) - Opened(b, ell)) % 2^ell = 0 THEN 1 ELSE 0, r, ell)

-----------------------------------------------------------------------------
\* hashAESDM: the full blocks, then the rest if there is one.
LocalHash(pt, key, ell) ==
    LET step(h, m) == XorBytes(Aes(key, XorBytes(h, m)), h)
        full == Len(pt) \div BlockBytes
        chain[b \in 0..full] ==
            IF b = 0 THEN ZeroBlock ELSE step(chain[b - 1], BlockAt(pt, b - 1))
    IN  LowBits(IF full * BlockBytes < Len(pt) THEN step(chain[full], BlockAt(pt, full))
                ELSE chain[full], ell)

=============================================================================
