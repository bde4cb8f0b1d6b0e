--------------------------- MODULE MCReshareRing ---------------------------
(* A small instance of ReshareRing for TLC. *)
EXTENDS ReshareRing

\* A vector call, calls of the protocol thread on the same channels, and a second
\* use of the workers with a vector longer than a channel holds.
MCCalls == <<[kind |-> "vector", chunks |-> 1], [kind |-> "scalar", chunks |-> 1],
             [kind |-> "reveal", chunks |-> 1], [kind |-> "vector", chunks |-> 2]>>

\* One connection: the last call treats all three alike.
MCBreakable == {{0, 2}}

\* A connection breaks once some party is in the last call.  A party that throws
\* makes no further call, so an earlier call would show nothing else.
BreakInLastCall == broken' # broken => \E p \in Party : call[p] = Len(Calls)

=============================================================================
