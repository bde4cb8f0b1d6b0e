----------------------------- MODULE MCTreeCache -----------------------------
(* Small instances of TreeCache for TLC. *)
EXTENDS TreeCache

MCTokens == 1..7
MCBits == {"p", "q"}
MCFilters == {{"p"}, {"q"}}

\* Tokens are random and interchangeable: of the unused ones the model draws
\* the least.
DrawLeastToken ==
    LET used == DOMAIN phi_f \cup ({arg.token} \ {NoToken})
        now == DOMAIN phi_f' \cup ({arg'.token} \ {NoToken})
    IN  \A t \in now \ used : \A u \in Token \ (used \cup now) : t < u

\* A name for a token that does not depend on its value: its place in the tree
\* in memory, or else in the tree of meta.json, or else its role.
Place(t) ==
    CASE t \in DOMAIN phi_f -> <<1, phi_f[t]>>
      [] t \notin DOMAIN phi_f /\ t \in DOMAIN meta.phi_f -> <<2, meta.phi_f[t]>>
      [] OTHER -> <<IF t = arg.token THEN 3 ELSE 4, 0>>

\* The state up to a renaming of tokens.  Two states with the same view differ
\* in the values of tokens only, and no action or property looks at those.
UpToTokenNames ==
    <<leaf_num, dirty_leaf, corrupted, root_node, root_file, pc, dirty_node,
      arg.node, Place(arg.token),
      meta.state, meta.leaf_num, meta.dirty_leaf,
      [i \in DOMAIN meta.phi_r |-> Place(meta.phi_r[i])],
      {<<Place(t), file[t]>> : t \in Token},
      {<<Place(t), holders[t]>> : t \in DOMAIN holders}>>

=============================================================================
