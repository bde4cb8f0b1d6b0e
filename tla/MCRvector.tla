----------------------------- MODULE MCRvector -----------------------------
(* A small instance of Rvector for TLC. *)
EXTENDS Rvector

\* One group and a rest that spans bytes, for every width; bit vectors that end
\* inside a word, at its end, and after it.
MCSizesOf == [e \in 1..8 |-> CASE e = 1 -> {8, 9} [] e = 2 -> {0, 5} [] e = 3 -> {11}
                               [] e = 4 -> {3} [] e = 6 -> {6} [] e = 8 -> {2} [] OTHER -> {10}]

\* Memory full of ones, and memory with a pattern.
MCMemory == {[k \in 0..19 |-> 255], [k \in 0..19 |-> (37 * k + 11) % 256]}

\* The second list is out of range at its second index for every size.
MCIndexLists == {<<0, 1>>, <<1, 16, 0>>}

=============================================================================
