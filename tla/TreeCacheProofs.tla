--------------------------- MODULE TreeCacheProofs ---------------------------
(***************************************************************************)
(* Proofs about TreeCache, for every set of tokens and filters and every   *)
(* bound on the number of leaves: the shape of the tree in memory and in   *)
(* meta.json; then its files, where leaf files are complete, the internal  *)
(* nodes that a merge skips are current, a merge reads complete files only *)
(* and its result is the union of the leaves; last that TreeCache          *)
(* implements TreeCacheAbs.                                                *)
(***************************************************************************)
EXTENDS TreeCache, NumberLemmas, TLAPS

\* The types of a tree, in memory or in meta.json.
TreeTypes(n, f, r) ==
    /\ n \in Nat
    /\ r \in [NodeIds(n) -> Token]
    /\ DOMAIN f \subseteq Token
    /\ f \in [DOMAIN f -> Nat]

TreeOK(n, f, r, d) == TreeTypes(n, f, r) /\ ShapeOf(n, f, r, d)

\* The first leaf of an empty tree.
LEMMA InsertFirstKeepsTree ==
    ASSUME NEW token \in Token, NEW d, d \subseteq {}
    PROVE  TreeOK(1, [t \in {token} |-> 1], [i \in {1} |-> token], d \cup {1})
  BY DEF TreeOK, TreeTypes, ShapeOf, NodeIds, LeafIds

\* The maps after insert has split the first leaf.
LEMMA InsertSplitMaps ==
    ASSUME TreeOK(leaf_num, phi_f, phi_r, dirty_leaf), leaf_num > 0,
           NEW token \in Token \ DOMAIN phi_f, NEW new_root_token \in Token,
           InsertSplit(token, new_root_token)
    PROVE  /\ leaf_num \in Nat /\ leaf_num > 0 /\ leaf_num' = leaf_num + 1
           /\ NodeIds(leaf_num) = 1..(2 * leaf_num - 1)
           /\ 2 * (leaf_num + 1) - 1 = 2 * leaf_num + 1
           /\ NodeIds(leaf_num + 1) = 1..(2 * leaf_num + 1)
           /\ LeafIds(leaf_num) = leaf_num..(2 * leaf_num - 1)
           /\ LeafIds(leaf_num + 1) = (leaf_num + 1)..(2 * leaf_num + 1)
           /\ DOMAIN phi_r = 1..(2 * leaf_num - 1)
           /\ phi_r[leaf_num] \in DOMAIN phi_f /\ phi_f[phi_r[leaf_num]] = leaf_num /\ phi_r[leaf_num] \in Token
           /\ new_root_token \notin DOMAIN phi_f /\ new_root_token # token
           /\ token \notin DOMAIN phi_f
           /\ DOMAIN phi_r' = 1..(2 * leaf_num + 1)
           /\ phi_r'[2 * leaf_num + 1] = token
           /\ phi_r'[2 * leaf_num] = phi_r[leaf_num]
           /\ phi_r'[leaf_num] = new_root_token
           /\ \A i \in 1..(2 * leaf_num - 1) : i # leaf_num => phi_r'[i] = phi_r[i]
           /\ DOMAIN phi_f' = DOMAIN phi_f \cup {token, new_root_token}
           /\ phi_f'[token] = 2 * leaf_num + 1
           /\ phi_f'[new_root_token] = leaf_num
           /\ phi_f'[phi_r[leaf_num]] = 2 * leaf_num
           /\ \A t \in DOMAIN phi_f : t # phi_r[leaf_num] => phi_f'[t] = phi_f[t]
  <1> DEFINE L == leaf_num
             ori == phi_r[L]
  <1>1. /\ L \in Nat /\ L > 0 /\ leaf_num' = L + 1
        /\ NodeIds(L) = 1..(2 * L - 1)
        /\ 2 * (L + 1) - 1 = 2 * L + 1
        /\ NodeIds(L + 1) = 1..(2 * L + 1)
        /\ LeafIds(L) = L..(2 * L - 1)
        /\ LeafIds(L + 1) = (L + 1)..(2 * L + 1)
        /\ DOMAIN phi_r = 1..(2 * L - 1)
    BY DEF TreeOK, TreeTypes, ShapeOf, NodeIds, LeafIds, InsertSplit
  <1>2. /\ ori \in DOMAIN phi_f /\ phi_f[ori] = L /\ ori \in Token
        /\ new_root_token \notin DOMAIN phi_f /\ new_root_token # token
        /\ token \notin DOMAIN phi_f
    BY <1>1 DEF TreeOK, TreeTypes, ShapeOf, InsertSplit
  <1>3. /\ DOMAIN phi_r' = 1..(2 * L + 1)
        /\ phi_r'[2 * L + 1] = token
        /\ phi_r'[2 * L] = ori
        /\ phi_r'[L] = new_root_token
        /\ \A i \in 1..(2 * L - 1) : i # L => phi_r'[i] = phi_r[i]
    BY <1>1 DEF InsertSplit, Put
  <1>4. /\ DOMAIN phi_f' = DOMAIN phi_f \cup {token, new_root_token}
        /\ phi_f'[token] = 2 * L + 1
        /\ phi_f'[new_root_token] = L
        /\ phi_f'[ori] = 2 * L
        /\ \A t \in DOMAIN phi_f : t # ori => phi_f'[t] = phi_f[t]
    BY <1>1, <1>2 DEF InsertSplit, Put
  <1>5. QED
    BY <1>1, <1>2, <1>3, <1>4

\* insert splits the first leaf: the old leaf, the new one and the new internal
\* token keep the two maps inverse to each other.
LEMMA InsertSplitKeepsTree ==
    ASSUME TreeOK(leaf_num, phi_f, phi_r, dirty_leaf), leaf_num > 0,
           NEW token \in Token \ DOMAIN phi_f, NEW new_root_token \in Token,
           InsertSplit(token, new_root_token)
    PROVE  TreeOK(leaf_num, phi_f, phi_r, dirty_leaf)'
  <1> DEFINE L == leaf_num
             ori == phi_r[L]
  <1>1. /\ L \in Nat /\ L > 0 /\ leaf_num' = L + 1
        /\ NodeIds(L) = 1..(2 * L - 1)
        /\ 2 * (L + 1) - 1 = 2 * L + 1
        /\ NodeIds(L + 1) = 1..(2 * L + 1)
        /\ LeafIds(L) = L..(2 * L - 1)
        /\ LeafIds(L + 1) = (L + 1)..(2 * L + 1)
        /\ DOMAIN phi_r = 1..(2 * L - 1)
    BY InsertSplitMaps
  <1>2. /\ ori \in DOMAIN phi_f /\ phi_f[ori] = L /\ ori \in Token
        /\ new_root_token \notin DOMAIN phi_f /\ new_root_token # token
        /\ token \notin DOMAIN phi_f
    BY InsertSplitMaps
  <1>3. /\ DOMAIN phi_r' = 1..(2 * L + 1)
        /\ phi_r'[2 * L + 1] = token
        /\ phi_r'[2 * L] = ori
        /\ phi_r'[L] = new_root_token
        /\ \A i \in 1..(2 * L - 1) : i # L => phi_r'[i] = phi_r[i]
    BY InsertSplitMaps
  <1>4. /\ DOMAIN phi_f' = DOMAIN phi_f \cup {token, new_root_token}
        /\ phi_f'[token] = 2 * L + 1
        /\ phi_f'[new_root_token] = L
        /\ phi_f'[ori] = 2 * L
        /\ \A t \in DOMAIN phi_f : t # ori => phi_f'[t] = phi_f[t]
    BY InsertSplitMaps
  <1>5. TreeTypes(leaf_num, phi_f, phi_r)'
    <2>1. phi_r' \in [1..(2 * L + 1) -> Token]
      BY <1>1, <1>2, <1>3 DEF TreeOK, TreeTypes, InsertSplit, Put
    <2>2. phi_f' \in [DOMAIN phi_f' -> Nat]
      BY <1>1, <1>2, <1>4 DEF TreeOK, TreeTypes, InsertSplit, Put
    <2>3. DOMAIN phi_f' \subseteq Token
      BY <1>4 DEF TreeOK, TreeTypes
    <2>4. QED
      BY <1>1, <2>1, <2>2, <2>3, SMTT(20) DEF TreeTypes
  <1>6. ASSUME NEW i \in DOMAIN phi_r'
        PROVE  phi_r'[i] \in DOMAIN phi_f' /\ phi_f'[phi_r'[i]] = i
    <2>1. CASE i \in {L, 2 * L, 2 * L + 1}
      BY <2>1, <1>1, <1>2, <1>3, <1>4
    <2>2. CASE i \notin {L, 2 * L, 2 * L + 1}
      <3>0. i \in 1..(2 * L + 1)
        BY <1>3
      <3>1a. i \in 1..(2 * L - 1) /\ i # L
        BY <3>0, <2>2, <1>1
      <3>1. i \in 1..(2 * L - 1) /\ i # L /\ phi_r'[i] = phi_r[i]
        BY <3>1a, <1>3
      <3>2. phi_r[i] \in DOMAIN phi_f /\ phi_f[phi_r[i]] = i
        BY <3>1, <1>1 DEF TreeOK, ShapeOf
      <3>3. QED
        BY <3>1, <3>2, <1>2, <1>4
    <2>3. QED
      BY <2>1, <2>2
  <1>7. ASSUME NEW t \in DOMAIN phi_f'
        PROVE  phi_f'[t] \in DOMAIN phi_r' /\ phi_r'[phi_f'[t]] = t
    <2>1. CASE t \in {token, new_root_token, ori}
      BY <2>1, <1>1, <1>2, <1>3, <1>4
    <2>2. CASE t \notin {token, new_root_token, ori}
      <3>1. t \in DOMAIN phi_f /\ phi_f'[t] = phi_f[t]
        BY <2>2, <1>4
      <3>2. phi_f[t] \in 1..(2 * L - 1) /\ phi_r[phi_f[t]] = t /\ phi_f[t] # L
        BY <3>1, <2>2, <1>1 DEF TreeOK, ShapeOf
      <3>3. QED
        BY <3>1, <3>2, <1>1, <1>3
    <2>3. QED
      BY <2>1, <2>2
  <1>8. dirty_leaf' \subseteq LeafIds(leaf_num')
    <2>1. dirty_leaf \subseteq L..(2 * L - 1)
      BY <1>1 DEF TreeOK, ShapeOf
    <2>2. dirty_leaf' \subseteq (dirty_leaf \ {L}) \cup {2 * L, 2 * L + 1}
      BY DEF InsertSplit, Put
    <2>3. QED
      BY <1>1, <2>1, <2>2
  <1>9. QED
    BY <1>1, <1>3, <1>5, <1>6, <1>7, <1>8 DEF TreeOK, ShapeOf

\* The nodes and tokens that remove moves: the last internal node, its children, and
\* the child that takes its place.
LastNode == leaf_num - 1
InternalToken == phi_r[LastNode]
RightToken == phi_r[2 * LastNode + 1]
Moved(del_token) == phi_f[del_token] \notin {2 * LastNode, 2 * LastNode + 1}
KeptToken(del_token) == IF phi_f[del_token] = 2 * LastNode THEN RightToken ELSE phi_r[2 * LastNode]

\* The maps after remove.
LEMMA RemoveCollapseMaps ==
    ASSUME TreeOK(leaf_num, phi_f, phi_r, dirty_leaf), leaf_num > 1,
           NEW del_token \in LeafTokens, RemoveCollapse(del_token)
    PROVE  /\ leaf_num \in Nat /\ leaf_num' = LastNode
           /\ NodeIds(leaf_num) = 1..(2 * LastNode + 1) /\ 2 * LastNode + 1 = 2 * leaf_num - 1
           /\ NodeIds(LastNode) = 1..(2 * LastNode - 1) /\ 2 * LastNode = 2 * leaf_num - 2
           /\ LeafIds(leaf_num) = leaf_num..(2 * LastNode + 1)
           /\ LeafIds(LastNode) = LastNode..(2 * LastNode - 1)
           /\ DOMAIN phi_r = 1..(2 * LastNode + 1)
           /\ LastNode \in 1..(2 * LastNode - 1)
           /\ del_token \in DOMAIN phi_f /\ phi_f[del_token] \in leaf_num..(2 * LastNode + 1)
           /\ phi_r[phi_f[del_token]] = del_token
           /\ InternalToken \in DOMAIN phi_f /\ phi_f[InternalToken] = LastNode
           /\ phi_r[2 * LastNode] \in DOMAIN phi_f /\ phi_f[phi_r[2 * LastNode]] = 2 * LastNode
           /\ RightToken \in DOMAIN phi_f /\ phi_f[RightToken] = 2 * LastNode + 1
           /\ KeptToken(del_token) \in DOMAIN phi_f
           /\ KeptToken(del_token) \notin {InternalToken, del_token}
           /\ Moved(del_token) => RightToken \notin {InternalToken, del_token, KeptToken(del_token)}
           /\ phi_f[KeptToken(del_token)] \in {2 * LastNode, 2 * LastNode + 1}
           /\ DOMAIN phi_r' = 1..(2 * LastNode - 1)
           /\ phi_r'[LastNode] = KeptToken(del_token)
           /\ Moved(del_token) =>
                 /\ phi_r'[phi_f[del_token]] = RightToken
                 /\ phi_f[del_token] \in 1..(2 * LastNode - 1) /\ phi_f[del_token] # LastNode
           /\ \A i \in 1..(2 * LastNode - 1) :
                 i # LastNode /\ (Moved(del_token) => i # phi_f[del_token]) => phi_r'[i] = phi_r[i]
           /\ DOMAIN phi_f' = DOMAIN phi_f \ {InternalToken, del_token}
           /\ phi_f'[KeptToken(del_token)] = LastNode
           /\ Moved(del_token) => phi_f'[RightToken] = phi_f[del_token]
           /\ \A t \in DOMAIN phi_f' :
                 t # KeptToken(del_token) /\ (Moved(del_token) => t # RightToken) => phi_f'[t] = phi_f[t]
  <1> DEFINE L == leaf_num
             del_id == phi_f[del_token]
             cid == L - 1
             left == 2 * cid
             right == 2 * cid + 1
             int == phi_r[cid]
             lt == phi_r[left]
             rt == phi_r[right]
             moved == del_id \notin {left, right}
             kept_token == IF del_id = left THEN rt ELSE lt
  <1>1. /\ L \in Nat /\ L > 1 /\ leaf_num' = L - 1
        /\ NodeIds(L) = 1..right /\ right = 2 * L - 1 /\ left = 2 * L - 2
        /\ NodeIds(L - 1) = 1..(left - 1)
        /\ LeafIds(L) = L..right
        /\ LeafIds(L - 1) = cid..(left - 1)
        /\ DOMAIN phi_r = 1..right
        /\ cid \in 1..(left - 1)
    <2>1. L \in Nat /\ L > 1 /\ leaf_num' = L - 1
      BY DEF TreeOK, TreeTypes, RemoveCollapse
    <2>2. right = 2 * L - 1 /\ left = 2 * L - 2 /\ 2 * (L - 1) - 1 = left - 1
      BY <2>1
    <2>3. NodeIds(L) = 1..right /\ LeafIds(L) = L..right
      BY <2>1, <2>2 DEF NodeIds, LeafIds
    <2>4. L - 1 # 0 /\ cid \in 1..(left - 1)
      BY <2>1
    <2>5. NodeIds(L - 1) = 1..(left - 1) /\ LeafIds(L - 1) = cid..(left - 1)
      BY <2>2, <2>4 DEF NodeIds, LeafIds
    <2>6. QED
      BY <2>1, <2>2, <2>3, <2>4, <2>5 DEF TreeOK, ShapeOf
  <1>2. /\ del_token \in DOMAIN phi_f /\ del_id \in L..right /\ phi_r[del_id] = del_token
        /\ int \in DOMAIN phi_f /\ phi_f[int] = cid
        /\ lt \in DOMAIN phi_f /\ phi_f[lt] = left
        /\ rt \in DOMAIN phi_f /\ phi_f[rt] = right
    <2>1. del_token \in DOMAIN phi_f /\ del_id >= L
      BY DEF LeafTokens
    <2>2. del_id \in 1..right /\ phi_r[del_id] = del_token
      BY <2>1, <1>1 DEF TreeOK, ShapeOf
    <2>3. cid \in DOMAIN phi_r /\ left \in DOMAIN phi_r /\ right \in DOMAIN phi_r
      BY <1>1
    <2>4. QED
      BY <1>1, <2>1, <2>2, <2>3 DEF TreeOK, ShapeOf
  <1>3. /\ kept_token \in DOMAIN phi_f /\ kept_token \notin {int, del_token}
        /\ moved => rt \notin {int, del_token, kept_token}
        /\ phi_f[kept_token] \in {left, right}
    BY <1>1, <1>2
  <1>4. /\ DOMAIN phi_r' = 1..(left - 1)
        /\ phi_r'[cid] = kept_token
        /\ moved => phi_r'[del_id] = rt /\ del_id \in 1..(left - 1) /\ del_id # cid
        /\ \A i \in 1..(left - 1) : i # cid /\ (moved => i # del_id) => phi_r'[i] = phi_r[i]
    <2>1. CASE moved
      <3>1. phi_r' = Drop(Put(Put(phi_r, del_id, rt), cid, kept_token), {left, right})
        BY <2>1 DEF RemoveCollapse
      <3>2. del_id \in 1..(left - 1) /\ del_id # cid
        <4>1. del_id \in L..right /\ del_id # left /\ del_id # right
          BY <2>1, <1>2
        <4>2. QED
          BY <4>1, <1>1
      <3>3. DOMAIN phi_r' = 1..(left - 1)
        BY <3>1, <3>2, <1>1 DEF Put, Drop
      <3>4. QED
        BY <2>1, <3>1, <3>2, <3>3, <1>1 DEF Put, Drop
    <2>2. CASE ~moved
      <3>1. phi_r' = Drop(Put(phi_r, cid, kept_token), {left, right})
        BY <2>2 DEF RemoveCollapse
      <3>3. DOMAIN phi_r' = 1..(left - 1)
        BY <3>1, <1>1 DEF Put, Drop
      <3>4. QED
        BY <2>2, <3>1, <3>3, <1>1 DEF Put, Drop
    <2>3. QED
      BY <2>1, <2>2
  <1>5. /\ DOMAIN phi_f' = DOMAIN phi_f \ {int, del_token}
        /\ phi_f'[kept_token] = cid
        /\ moved => phi_f'[rt] = del_id
        /\ \A t \in DOMAIN phi_f' : t # kept_token /\ (moved => t # rt) => phi_f'[t] = phi_f[t]
    <2>1. CASE moved
      <3>1. phi_f' = Drop(Put(Put(phi_f, rt, del_id), kept_token, cid), {int, del_token})
        BY <2>1 DEF RemoveCollapse
      <3>2. QED
        BY <2>1, <3>1, <1>2, <1>3 DEF Put, Drop
    <2>2. CASE ~moved
      <3>1. phi_f' = Drop(Put(phi_f, kept_token, cid), {int, del_token})
        BY <2>2 DEF RemoveCollapse
      <3>2. QED
        BY <2>2, <3>1, <1>2, <1>3 DEF Put, Drop
    <2>3. QED
      BY <2>1, <2>2
  <1>6. QED
    BY <1>1, <1>2, <1>3, <1>4, <1>5 DEF LastNode, InternalToken, RightToken, Moved, KeptToken

\* remove collapses the last internal node, whichever leaf is deleted.
LEMMA RemoveCollapseKeepsTree ==
    ASSUME TreeOK(leaf_num, phi_f, phi_r, dirty_leaf), leaf_num > 1,
           NEW del_token \in LeafTokens, RemoveCollapse(del_token)
    PROVE  TreeOK(leaf_num, phi_f, phi_r, dirty_leaf)'
  <1> DEFINE L == leaf_num
             del_id == phi_f[del_token]
             cid == L - 1
             left == 2 * cid
             right == 2 * cid + 1
             int == phi_r[cid]
             lt == phi_r[left]
             rt == phi_r[right]
             moved == del_id \notin {left, right}
             kept_token == IF del_id = left THEN rt ELSE lt
  <1>1. /\ L \in Nat /\ L > 1 /\ leaf_num' = L - 1
        /\ NodeIds(L) = 1..right /\ right = 2 * L - 1 /\ left = 2 * L - 2
        /\ NodeIds(L - 1) = 1..(left - 1)
        /\ LeafIds(L) = L..right
        /\ LeafIds(L - 1) = cid..(left - 1)
        /\ DOMAIN phi_r = 1..right
        /\ cid \in 1..(left - 1)
    BY RemoveCollapseMaps DEF LastNode, InternalToken, RightToken, Moved, KeptToken
  <1>2. /\ del_token \in DOMAIN phi_f /\ del_id \in L..right /\ phi_r[del_id] = del_token
        /\ int \in DOMAIN phi_f /\ phi_f[int] = cid
        /\ lt \in DOMAIN phi_f /\ phi_f[lt] = left
        /\ rt \in DOMAIN phi_f /\ phi_f[rt] = right
    BY RemoveCollapseMaps DEF LastNode, InternalToken, RightToken, Moved, KeptToken
  <1>3. /\ kept_token \in DOMAIN phi_f /\ kept_token \notin {int, del_token}
        /\ moved => rt \notin {int, del_token, kept_token}
        /\ phi_f[kept_token] \in {left, right}
    BY RemoveCollapseMaps DEF LastNode, InternalToken, RightToken, Moved, KeptToken
  <1>4. /\ DOMAIN phi_r' = 1..(left - 1)
        /\ phi_r'[cid] = kept_token
        /\ moved => phi_r'[del_id] = rt /\ del_id \in 1..(left - 1) /\ del_id # cid
        /\ \A i \in 1..(left - 1) : i # cid /\ (moved => i # del_id) => phi_r'[i] = phi_r[i]
    BY RemoveCollapseMaps DEF LastNode, InternalToken, RightToken, Moved, KeptToken
  <1>5. /\ DOMAIN phi_f' = DOMAIN phi_f \ {int, del_token}
        /\ phi_f'[kept_token] = cid
        /\ moved => phi_f'[rt] = del_id
        /\ \A t \in DOMAIN phi_f' : t # kept_token /\ (moved => t # rt) => phi_f'[t] = phi_f[t]
    BY RemoveCollapseMaps DEF LastNode, InternalToken, RightToken, Moved, KeptToken
  <1>6. TreeTypes(leaf_num, phi_f, phi_r)'
    <2>1. \A i \in DOMAIN phi_r : phi_r[i] \in Token
      BY DEF TreeOK, TreeTypes
    <2>2. \A i \in 1..(left - 1) : phi_r'[i] \in Token
      <3>1. kept_token \in Token /\ rt \in Token
        BY <1>2, <1>3 DEF TreeOK, TreeTypes
      <3>2. \A i \in 1..(left - 1) : i \in DOMAIN phi_r
        BY <1>1
      <3>3. QED
        BY <3>1, <3>2, <2>1, <1>4
    <2>3. phi_r' = [i \in DOMAIN phi_r' |-> phi_r'[i]]
      BY DEF RemoveCollapse, Drop
    <2>4. phi_f' = [t \in DOMAIN phi_f' |-> phi_f'[t]]
      BY DEF RemoveCollapse, Drop
    <2>5. \A t \in DOMAIN phi_f : phi_f[t] \in Nat
      BY DEF TreeOK, TreeTypes
    <2>6. del_id \in Nat /\ cid \in Nat
      BY <1>1, <1>2
    <2>7. \A t \in DOMAIN phi_f' : phi_f'[t] \in Nat
      BY <2>5, <2>6, <1>5
    <2>8. DOMAIN phi_f' \subseteq Token
      BY <1>5 DEF TreeOK, TreeTypes
    <2>9. phi_r' \in [1..(left - 1) -> Token]
      BY <1>4, <2>2, <2>3
    <2>10. phi_f' \in [DOMAIN phi_f' -> Nat]
      BY <2>4, <2>7
    <2>11. leaf_num' \in Nat /\ NodeIds(leaf_num') = 1..(left - 1)
      BY <1>1
    <2>12. QED
      BY <2>8, <2>9, <2>10, <2>11 DEF TreeTypes
  <1>7. ASSUME NEW i \in DOMAIN phi_r'
        PROVE  phi_r'[i] \in DOMAIN phi_f' /\ phi_f'[phi_r'[i]] = i
    <2>1. CASE i = cid \/ (moved /\ i = del_id)
      <3>1. CASE i = cid
        BY <3>1, <1>3, <1>4, <1>5
      <3>2. CASE moved /\ i = del_id
        BY <3>2, <1>2, <1>3, <1>4, <1>5
      <3> QED BY <2>1, <3>1, <3>2
    <2>2. CASE i # cid /\ (moved => i # del_id)
      <3>1. i \in 1..(left - 1) /\ phi_r'[i] = phi_r[i]
        BY <2>2, <1>4
      <3>2. i \in DOMAIN phi_r /\ i < left /\ i # del_id
        BY <3>1, <2>2, <1>1
      <3>3. phi_r[i] \in DOMAIN phi_f /\ phi_f[phi_r[i]] = i
        BY <3>2 DEF TreeOK, ShapeOf
      <3>4. phi_r[i] \notin {int, del_token, kept_token, rt}
        <4>1. phi_f[int] # i /\ phi_f[del_token] # i
          BY <3>2, <2>2, <1>2
        <4>2. phi_f[kept_token] # i /\ phi_f[rt] # i
          BY <3>1, <1>1, <1>2, <1>3
        <4> QED BY <3>3, <4>1, <4>2
      <3>5. QED
        BY <3>1, <3>3, <3>4, <1>5
    <2>3. QED
      BY <2>1, <2>2
  <1>8. ASSUME NEW t \in DOMAIN phi_f'
        PROVE  phi_f'[t] \in DOMAIN phi_r' /\ phi_r'[phi_f'[t]] = t
    <2>1. CASE t = kept_token \/ (moved /\ t = rt)
      BY <2>1, <1>1, <1>3, <1>4, <1>5
    <2>2. CASE t # kept_token /\ (moved => t # rt)
      <3>1. t \in DOMAIN phi_f /\ t \notin {int, del_token} /\ phi_f'[t] = phi_f[t]
        BY <2>2, <1>5
      <3>2. phi_f[t] \in 1..right /\ phi_r[phi_f[t]] = t
        BY <3>1, <1>1 DEF TreeOK, ShapeOf
      <3>3. phi_f[t] # cid /\ phi_f[t] # del_id
        BY <3>1, <3>2, <1>2
      <3>4. phi_f[t] # left
        BY <3>1, <3>2, <3>3, <2>2, <1>2
      <3>5. phi_f[t] # right
        BY <3>1, <3>2, <3>3, <2>2, <1>2
      <3>6. phi_f[t] \in 1..(left - 1)
        BY <3>2, <3>4, <3>5, <1>1
      <3>7. QED
        BY <3>1, <3>2, <3>3, <3>6, <1>4
    <2>3. QED
      BY <2>1, <2>2
  <1>9. dirty_leaf' \subseteq LeafIds(leaf_num')
    <2>1. dirty_leaf \subseteq L..right
      BY <1>1 DEF TreeOK, ShapeOf
    <2>2. dirty_leaf' \subseteq ((dirty_leaf \cup {del_id}) \ {left, right}) \cup {cid}
      BY DEF RemoveCollapse
    <2>3. QED
      BY <2>1, <2>2, <1>1, <1>2
  <1>10. QED
    BY <1>1, <1>4, <1>6, <1>7, <1>8, <1>9 DEF TreeOK, ShapeOf

-----------------------------------------------------------------------------
\* The inductive invariant.  Both trees, the one in memory and the one in
\* meta.json, are well formed at every step, also while an operation is between
\* _mark_corrupted and _mark_valid; the token an operation works on is where the
\* operation expects it; and memory and meta.json agree whenever the cache is
\* neither inside an operation nor corrupted.

DataTypes ==
    /\ dirty_node \subseteq Nat
    /\ corrupted \in BOOLEAN
    /\ root_node \in Memory
    /\ meta.state \in {"absent", "valid", "dirty", "malformed"}
    /\ file \in [Token -> Contents]
    /\ root_file \in Contents
    /\ pc \in PcValues
    /\ arg \in [token : Token \cup {NoToken}, node : SUBSET Bit]

ArgOK ==
    /\ pc = "insert_map" => arg.token \in Token \ DOMAIN phi_f
    /\ pc \in {"update_save", "update_mark", "remove_map"} => arg.token \in LeafTokens
    /\ pc = "load_save" => root_node \in SUBSET Bit

MemoryTree == TreeOK(leaf_num, phi_f, phi_r, dirty_leaf)
MetaTree == TreeOK(meta.leaf_num, meta.phi_f, meta.phi_r, meta.dirty_leaf)

MetaAgrees ==
    pc \in {"idle", "load_save"} /\ ~corrupted /\ meta.state # "absent" =>
        /\ meta.state = "valid"
        /\ meta.leaf_num = leaf_num /\ meta.phi_f = phi_f /\ meta.phi_r = phi_r
        /\ \/ meta.dirty_leaf = dirty_leaf
           \/ pc = "idle" /\ dirty_leaf = LeafIds(leaf_num) /\ NoRootOnDisk

IInv == DataTypes /\ ArgOK /\ MemoryTree /\ MetaTree /\ MetaAgrees

LEMMA EmptyTreeOK == TreeOK(0, EmptyMap, EmptyMap, {})
  BY DEF TreeOK, TreeTypes, ShapeOf, NodeIds, LeafIds, EmptyMap

LEMMA InitIInv == Init => IInv
  <1> SUFFICES ASSUME Init PROVE IInv
    OBVIOUS
  <1>1. DataTypes
    <2>1. file \in [Token -> Contents] /\ root_file \in Contents
      BY DEF Init, Contents
    <2>2. arg \in [token : Token \cup {NoToken}, node : SUBSET Bit]
      BY DEF Init, NoArg
    <2>3. meta.state = "absent" /\ corrupted \in BOOLEAN
      BY DEF Init, EmptyMeta
    <2>4. QED
      BY <2>1, <2>2, <2>3 DEF Init, DataTypes, PcValues, Memory
  <1>2. MemoryTree /\ MetaTree
    BY EmptyTreeOK DEF Init, MemoryTree, MetaTree, EmptyMeta
  <1>3. QED
    BY <1>1, <1>2 DEF IInv, Init, ArgOK, MetaAgrees

\* Entering an operation: only corrupted, meta.json, pc and arg change.
LEMMA EnterKeepsIInv ==
    ASSUME IInv, NEW label, NEW a, Enter(label, a),
           label \in {"insert_save", "update_save", "remove_map", "merge"},
           a \in [token : Token \cup {NoToken}, node : SUBSET Bit],
           label \in {"update_save", "remove_map"} => a.token \in LeafTokens
    PROVE  IInv'
  <1>1. /\ corrupted' = TRUE /\ meta' = Meta("dirty") /\ pc' = label /\ arg' = a
        /\ UNCHANGED <<leaf_num, phi_f, phi_r, dirty_leaf, root_node, file, root_file,
                       dirty_node, holders>>
    BY DEF Enter, MarkCorrupted, tree
  <1>2. DataTypes'
    BY <1>1 DEF IInv, DataTypes, Contents, PcValues, Meta
  <1>3. ArgOK'
    BY <1>1 DEF IInv, ArgOK, LeafTokens
  <1>4. MemoryTree' /\ MetaTree'
    BY <1>1 DEF IInv, MemoryTree, MetaTree, Meta
  <1>5. MetaAgrees'
    BY <1>1 DEF MetaAgrees
  <1>6. QED
    BY <1>2, <1>3, <1>4, <1>5 DEF IInv

LEMMA InsertKeepsIInv ==
    ASSUME IInv, Insert PROVE IInv'
  <1>1. ASSUME NEW c \in Filters, InsertBegin(c) PROVE IInv'
    <2>1. [token |-> NoToken, node |-> c] \in [token : Token \cup {NoToken}, node : SUBSET Bit]
      BY FilterAssumption
    <2>2. QED
      BY <1>1, <2>1, EnterKeepsIInv DEF InsertBegin
  <1>2. ASSUME NEW token \in Token, InsertSave(token) PROVE IInv'
    <2>1. /\ pc' = "insert_map" /\ token \notin DOMAIN phi_f
          /\ arg' = [arg EXCEPT !.token = token]
          /\ file' = [file EXCEPT ![token] = Torn]
          /\ UNCHANGED <<leaf_num, phi_f, phi_r, dirty_leaf, corrupted, root_node, meta,
                         root_file, dirty_node, holders>>
      BY <1>2 DEF InsertSave, tree
    <2>2. DataTypes' /\ arg'.token = token
      BY <2>1 DEF IInv, DataTypes, Contents, PcValues
    <2>3. QED
      BY <2>1, <2>2 DEF IInv, ArgOK, MemoryTree, MetaTree, MetaAgrees
  <1>3. ASSUME InsertMap PROVE IInv'
    <2>1. /\ pc = "insert_map" /\ pc' = "mark_valid"
          /\ arg.token \in Token \ DOMAIN phi_f
          /\ file' = [file EXCEPT ![arg.token] = arg.node]
          /\ UNCHANGED <<corrupted, root_node, meta, root_file, arg, dirty_node, holders>>
      BY <1>3 DEF InsertMap, IInv, ArgOK
    <2>2. DataTypes'
      BY <2>1 DEF IInv, DataTypes, Contents, PcValues
    <2>3. MemoryTree'
      <3>1. CASE leaf_num = 0 /\ InsertFirst(arg.token)
        <4>1. dirty_leaf \subseteq {}
          BY <3>1 DEF IInv, MemoryTree, TreeOK, ShapeOf, LeafIds
        <4>2. TreeOK(1, [t \in {arg.token} |-> 1], [i \in {1} |-> arg.token], dirty_leaf \cup {1})
          BY <2>1, <4>1, InsertFirstKeepsTree
        <4>3. QED
          BY <3>1, <4>2 DEF MemoryTree, InsertFirst
      <3>2. CASE leaf_num > 0 /\ \E t \in Token : InsertSplit(arg.token, t)
        BY <2>1, <3>2, InsertSplitKeepsTree DEF IInv, MemoryTree
      <3>3. QED
        BY <1>3, <3>1, <3>2 DEF InsertMap
    <2>4. QED
      BY <2>1, <2>2, <2>3 DEF IInv, ArgOK, MetaTree, MetaAgrees
  <1>4. QED
    BY <1>1, <1>2, <1>3 DEF Insert

LEMMA UpdateKeepsIInv ==
    ASSUME IInv, Update PROVE IInv'
  <1>1. ASSUME NEW t \in Token, NEW c \in Filters, UpdateBegin(t, c) PROVE IInv'
    <2>1. [token |-> t, node |-> c] \in [token : Token \cup {NoToken}, node : SUBSET Bit]
      BY FilterAssumption
    <2>2. QED
      BY <1>1, <2>1, EnterKeepsIInv DEF UpdateBegin
  <1>2. ASSUME UpdateSave PROVE IInv'
    <2>1. /\ pc = "update_save" /\ pc' = "update_mark" /\ arg.token \in LeafTokens
          /\ file' = [file EXCEPT ![arg.token] = Torn]
          /\ UNCHANGED <<leaf_num, phi_f, phi_r, dirty_leaf, corrupted, root_node, meta,
                         root_file, arg, dirty_node, holders>>
      BY <1>2 DEF UpdateSave, tree, IInv, ArgOK
    <2>2. DataTypes'
      BY <2>1 DEF IInv, DataTypes, Contents, PcValues
    <2>3. QED
      BY <2>1, <2>2 DEF IInv, ArgOK, LeafTokens, MemoryTree, MetaTree, MetaAgrees
  <1>3. ASSUME UpdateMark PROVE IInv'
    <2>1. /\ pc = "update_mark" /\ pc' = "mark_valid" /\ arg.token \in LeafTokens
          /\ file' = [file EXCEPT ![arg.token] = arg.node]
          /\ dirty_leaf' = dirty_leaf \cup {phi_f[arg.token]}
          /\ UNCHANGED <<leaf_num, phi_f, phi_r, corrupted, root_node, meta,
                         root_file, arg, dirty_node, holders>>
      BY <1>3 DEF UpdateMark, IInv, ArgOK
    <2>2. DataTypes'
      BY <2>1 DEF IInv, DataTypes, Contents, PcValues
    <2>3. phi_f[arg.token] \in LeafIds(leaf_num)
      BY <2>1 DEF IInv, MemoryTree, TreeOK, TreeTypes, ShapeOf, LeafTokens, NodeIds, LeafIds
    <2>4. MemoryTree'
      BY <2>1, <2>3 DEF IInv, MemoryTree, TreeOK, TreeTypes, ShapeOf
    <2>5. QED
      BY <2>1, <2>2, <2>4 DEF IInv, ArgOK, MetaTree, MetaAgrees
  <1>4. QED
    BY <1>1, <1>2, <1>3 DEF Update

LEMMA RemoveKeepsIInv ==
    ASSUME IInv, Remove PROVE IInv'
  <1>1. ASSUME NEW t \in Token, RemoveBegin(t) PROVE IInv'
    <2>1. [token |-> t, node |-> {}] \in [token : Token \cup {NoToken}, node : SUBSET Bit]
      OBVIOUS
    <2>2. QED
      BY <1>1, <2>1, EnterKeepsIInv DEF RemoveBegin
  <1>2. ASSUME RemoveMap PROVE IInv'
    <2>1. /\ pc = "remove_map" /\ pc' = "mark_valid" /\ arg.token \in LeafTokens
          /\ UNCHANGED <<corrupted, root_node, meta, root_file, arg, dirty_node, holders>>
      BY <1>2 DEF RemoveMap, IInv, ArgOK
    <2>2. file' \in [Token -> Contents]
      BY <1>2 DEF RemoveMap, RemoveLast, RemoveCollapse, IInv, DataTypes, Contents
    <2>3. DataTypes'
      BY <2>1, <2>2 DEF IInv, DataTypes, Contents, PcValues
    <2>4. MemoryTree'
      <3>1. CASE leaf_num = 1 /\ RemoveLast
        BY <3>1, EmptyTreeOK DEF RemoveLast, MemoryTree
      <3>2. CASE leaf_num > 1 /\ RemoveCollapse(arg.token)
        BY <3>2, <2>1, RemoveCollapseKeepsTree DEF IInv, MemoryTree
      <3>3. QED
        BY <1>2, <3>1, <3>2 DEF RemoveMap
    <2>5. QED
      BY <2>1, <2>3, <2>4 DEF IInv, ArgOK, MetaTree, MetaAgrees
  <1>3. QED
    BY <1>1, <1>2 DEF Remove

LEMMA MergeKeepsIInv ==
    ASSUME IInv, Merge PROVE IInv'
  <1>1. CASE MergeBegin
    <2>1. NoArg \in [token : Token \cup {NoToken}, node : SUBSET Bit]
      BY DEF NoArg
    <2>2. QED
      BY <1>1, <2>1, EnterKeepsIInv DEF MergeBegin
  <1>2. ASSUME leaf_num' = leaf_num, phi_f' = phi_f, phi_r' = phi_r, dirty_leaf' = {}
        PROVE  MemoryTree'
    BY <1>2 DEF IInv, MemoryTree, TreeOK, TreeTypes, ShapeOf
  <1>3. CASE MergeEmpty
    <2>1. DataTypes'
      BY <1>3 DEF MergeEmpty, Publish, IInv, DataTypes, Contents, PcValues, Memory
    <2>2. QED
      BY <1>2, <1>3, <2>1 DEF MergeEmpty, IInv, ArgOK, MetaTree, MetaAgrees
  <1>4. CASE MergeSingle
    <2>1. phi_r[1] \in Token
      BY <1>4 DEF MergeSingle, IInv, MemoryTree, TreeOK, TreeTypes, NodeIds
    <2>2. IsFilter(file[phi_r[1]]) => file[phi_r[1]] \in SUBSET Bit
      BY <2>1 DEF IInv, DataTypes, Contents, IsFilter
    <2>3. DataTypes'
      BY <1>4, <2>2 DEF MergeSingle, Publish, IInv, DataTypes, Contents, PcValues, Memory
    <2>4. QED
      BY <1>2, <1>4, <2>3 DEF MergeSingle, IInv, ArgOK, MetaTree, MetaAgrees
  <1>5. CASE MergeCollect
    <2>1. Ancestors(leaf_num, dirty_leaf) \subseteq Nat
      BY DEF Ancestors
    <2>2. /\ pc' = "merge_loop" /\ dirty_node' \subseteq Nat /\ dirty_leaf' = {}
          /\ UNCHANGED <<leaf_num, phi_f, phi_r, corrupted, root_node, meta, file,
                         root_file, arg, holders>>
      BY <1>5, <2>1 DEF MergeCollect, disk
    <2>3. DataTypes'
      BY <2>2 DEF IInv, DataTypes, Contents, PcValues
    <2>4. QED
      BY <1>2, <2>2, <2>3 DEF IInv, ArgOK, MetaTree, MetaAgrees
  <1>6. ASSUME NEW n \in 1..(leaf_num - 1), MergeNode(n) PROVE IInv'
    <2> DEFINE lc == file[phi_r[2 * n]]
               rc == file[phi_r[2 * n + 1]]
    <2>1. /\ pc' = pc /\ pc = "merge_loop" /\ IsFilter(lc) /\ IsFilter(rc)
          /\ file' = [file EXCEPT ![phi_r[n]] = lc \cup rc]
          /\ dirty_node' = dirty_node \ {n}
          /\ \/ root_node' = lc \cup rc /\ root_file' = lc \cup rc
             \/ UNCHANGED <<root_node, root_file>>
          /\ UNCHANGED <<leaf_num, phi_f, phi_r, dirty_leaf, corrupted, meta, arg, holders>>
      BY <1>6 DEF MergeNode, Publish, tree
    <2>2. leaf_num \in Nat /\ phi_r \in [NodeIds(leaf_num) -> Token]
      BY DEF IInv, MemoryTree, TreeOK, TreeTypes
    <2>3. /\ n \in NodeIds(leaf_num) /\ 2 * n \in NodeIds(leaf_num)
          /\ 2 * n + 1 \in NodeIds(leaf_num)
      BY <2>2 DEF NodeIds
    <2>4. phi_r[n] \in Token /\ phi_r[2 * n] \in Token /\ phi_r[2 * n + 1] \in Token
      BY <2>2, <2>3
    <2>5. lc \in SUBSET Bit /\ rc \in SUBSET Bit
      BY <2>1, <2>4 DEF IInv, DataTypes, Contents, IsFilter
    <2>6. lc \cup rc \in SUBSET Bit
      BY <2>5
    <2>7. file' \in [Token -> Contents] /\ root_file' \in Contents
      BY <2>1, <2>6 DEF IInv, DataTypes, Contents
    <2>8. root_node' \in Memory
      BY <2>1, <2>6 DEF IInv, DataTypes, Memory
    <2>9. DataTypes'
      BY <2>1, <2>7, <2>8 DEF IInv, DataTypes
    <2>10. QED
      BY <2>1, <2>9 DEF IInv, ArgOK, LeafTokens, MemoryTree, MetaTree, MetaAgrees
  <1>7. CASE MergeEnd
    <2>1. /\ pc' = "mark_valid"
          /\ UNCHANGED <<leaf_num, phi_f, phi_r, dirty_leaf, corrupted, root_node, meta, file,
                         root_file, arg, dirty_node, holders>>
      BY <1>7 DEF MergeEnd, tree, disk
    <2>2. DataTypes'
      BY <2>1 DEF IInv, DataTypes, Contents, PcValues
    <2>3. QED
      BY <2>1, <2>2 DEF IInv, ArgOK, LeafTokens, MemoryTree, MetaTree, MetaAgrees
  <1>8. QED
    BY <1>1, <1>3, <1>4, <1>5, <1>6, <1>7 DEF Merge

LEMMA MarkValidKeepsIInv ==
    ASSUME IInv, MarkValid PROVE IInv'
  <1>1. /\ pc' = "idle" /\ corrupted' = FALSE /\ meta' = Meta("valid") /\ arg' = NoArg
        /\ UNCHANGED <<leaf_num, phi_f, phi_r, dirty_leaf, root_node, file, root_file,
                       dirty_node>>
    BY DEF MarkValid, tree
  <1>2. arg' \in [token : Token \cup {NoToken}, node : SUBSET Bit] /\ corrupted' \in BOOLEAN
    BY <1>1 DEF NoArg
  <1>3. DataTypes'
    BY <1>1, <1>2 DEF IInv, DataTypes, Contents, PcValues, Meta
  <1>4. MemoryTree' /\ MetaTree' /\ MetaAgrees' /\ ArgOK'
    BY <1>1 DEF IInv, MemoryTree, MetaTree, MetaAgrees, Meta, ArgOK
  <1>5. QED
    BY <1>3, <1>4 DEF IInv

LEMMA FailKeepsIInv ==
    ASSUME IInv, Fail PROVE IInv'
  <1>1. NoArg \in [token : Token \cup {NoToken}, node : SUBSET Bit]
    BY DEF NoArg
  <1>2. CASE RaiseIOError
    <2>1. /\ pc' = "idle" /\ corrupted' = TRUE /\ arg' = NoArg /\ dirty_node' = {}
          /\ UNCHANGED <<leaf_num, phi_f, phi_r, dirty_leaf, root_file, holders>>
          /\ root_node' = root_node \/ root_node' \in Memory
          /\ meta' = meta \/ meta' = EmptyMeta("malformed")
          /\ file' = file \/ file' = [file EXCEPT ![arg.token] = NoFile]
      BY <1>2 DEF RaiseIOError, RootLeft, Memory, tree
    <2>2. MetaTree' /\ meta'.state \in {"absent", "valid", "dirty", "malformed"}
      <3>1. CASE meta' = meta
        BY <3>1 DEF IInv, DataTypes, MetaTree
      <3>2. CASE meta' = EmptyMeta("malformed")
        BY <3>2, EmptyTreeOK DEF MetaTree, EmptyMeta
      <3>3. QED
        BY <2>1, <3>1, <3>2
    <2>3. file' \in [Token -> Contents]
      BY <2>1 DEF IInv, DataTypes, Contents
    <2>4. DataTypes'
      BY <1>1, <2>1, <2>2, <2>3 DEF IInv, DataTypes, PcValues
    <2>5. QED
      BY <2>1, <2>2, <2>4 DEF IInv, ArgOK, MemoryTree, MetaAgrees
  <1>3. CASE RaiseMetaError
    <2>1. /\ pc = "idle" /\ corrupted' = TRUE
          /\ meta' = meta \/ meta' = EmptyMeta("malformed")
          /\ UNCHANGED <<leaf_num, phi_f, phi_r, dirty_leaf, root_node, file, root_file, pc,
                         arg, dirty_node, holders>>
      BY <1>3 DEF RaiseMetaError, tree
    <2>2. MetaTree' /\ meta'.state \in {"absent", "valid", "dirty", "malformed"}
      <3>1. CASE meta' = meta
        BY <3>1 DEF IInv, DataTypes, MetaTree
      <3>2. CASE meta' = EmptyMeta("malformed")
        BY <3>2, EmptyTreeOK DEF MetaTree, EmptyMeta
      <3>3. QED
        BY <2>1, <3>1, <3>2
    <2>3. DataTypes'
      BY <2>1, <2>2 DEF IInv, DataTypes
    <2>4. QED
      BY <2>1, <2>2, <2>3 DEF IInv, ArgOK, MemoryTree, MetaAgrees
  <1>4. CASE Crash
    <2>1. /\ pc' = "down" /\ corrupted' \in BOOLEAN /\ arg' = NoArg /\ dirty_node' = {}
          /\ leaf_num' = 0 /\ phi_f' = EmptyMap /\ phi_r' = EmptyMap /\ dirty_leaf' = {}
          /\ root_node' = {}
          /\ root_file' \in {root_file, Torn}
          /\ meta' = meta \/ meta' = EmptyMeta("malformed")
          /\ UNCHANGED <<file, holders>>
      BY <1>4 DEF Crash
    <2>2. MetaTree' /\ meta'.state \in {"absent", "valid", "dirty", "malformed"}
      <3>1. CASE meta' = meta
        BY <3>1 DEF IInv, DataTypes, MetaTree
      <3>2. CASE meta' = EmptyMeta("malformed")
        BY <3>2, EmptyTreeOK DEF MetaTree, EmptyMeta
      <3>3. QED
        BY <2>1, <3>1, <3>2
    <2>3. DataTypes'
      BY <1>1, <2>1, <2>2 DEF IInv, DataTypes, Contents, PcValues, Memory
    <2>4. MemoryTree'
      BY <2>1, EmptyTreeOK DEF MemoryTree
    <2>5. QED
      BY <2>1, <2>2, <2>3, <2>4 DEF IInv, ArgOK, MetaAgrees
  <1>5. QED
    BY <1>2, <1>3, <1>4 DEF Fail

\* The constructor installs the tree of meta.json; when it cannot find a root it
\* only adds leaves to the dirty set.
LEMMA LoadTreeKeepsIInv ==
    ASSUME IInv, LoadTree, Acceptable(meta), pc' \in {"idle", "load_save"},
           \/ dirty_leaf' = meta.dirty_leaf
           \/ /\ pc' = "idle" /\ meta.leaf_num > 1 /\ RootSource = "none"
              /\ dirty_leaf' = meta.dirty_leaf \cup LeafIds(meta.leaf_num),
           root_node' \in Memory, pc' = "load_save" => root_node' \in SUBSET Bit
    PROVE  IInv'
  <1>1. /\ leaf_num' = meta.leaf_num /\ phi_f' = meta.phi_f /\ phi_r' = meta.phi_r
        /\ corrupted' = FALSE
        /\ UNCHANGED <<meta, file, root_file, arg, dirty_node, holders>>
    BY DEF LoadTree
  <1>2. MemoryTree'
    BY <1>1 DEF IInv, MetaTree, MemoryTree, TreeOK, TreeTypes, ShapeOf
  <1>3. corrupted' \in BOOLEAN /\ pc' \in PcValues
    BY <1>1 DEF PcValues
  <1>4. DataTypes'
    BY <1>1, <1>3 DEF IInv, DataTypes
  <1>5. \/ dirty_leaf' = meta.dirty_leaf
        \/ pc' = "idle" /\ dirty_leaf' = LeafIds(leaf_num)' /\ NoRootOnDisk'
    <2>1. meta.dirty_leaf \subseteq LeafIds(meta.leaf_num)
      BY DEF Acceptable
    <2>2. LeafIds(leaf_num)' = LeafIds(meta.leaf_num)
      BY <1>1 DEF LeafIds
    <2>3. QED
      BY <1>1, <2>1, <2>2 DEF RootSource, NoRootOnDisk
  <1>6. MetaAgrees'
    BY <1>1, <1>5 DEF MetaAgrees, Acceptable
  <1>7. QED
    BY <1>1, <1>2, <1>4, <1>6 DEF IInv, ArgOK, MetaTree

LEMMA LoadKeepsIInv ==
    ASSUME IInv, Load PROVE IInv'
  <1>1. CASE LoadNew
    <2>1. /\ pc' = "idle" /\ meta.state = "absent" /\ root_node' \in Memory
          /\ UNCHANGED <<leaf_num, phi_f, phi_r, dirty_leaf, corrupted, meta, file,
                         root_file, arg, dirty_node, holders>>
      BY <1>1 DEF LoadNew, tree, disk
    <2>2. DataTypes'
      BY <2>1 DEF IInv, DataTypes, PcValues
    <2>3. QED
      BY <2>1, <2>2 DEF IInv, ArgOK, MemoryTree, MetaTree, MetaAgrees
  <1>2. CASE LoadEmpty
    BY <1>2, LoadTreeKeepsIInv DEF LoadEmpty
  <1>3. CASE LoadRootFiles
    <2>1. root_file \in SUBSET Bit
      BY <1>3 DEF LoadRootFiles, IsFilter, IInv, DataTypes, Contents
    <2>2. QED
      BY <1>3, <2>1, LoadTreeKeepsIInv DEF LoadRootFiles, Memory
  <1>4. CASE LoadNodeOne
    <2>1. 1 \in NodeIds(meta.leaf_num) /\ meta.phi_r \in [NodeIds(meta.leaf_num) -> Token]
      BY <1>4 DEF LoadNodeOne, IInv, MetaTree, TreeOK, TreeTypes, NodeIds
    <2>2. meta.phi_r[1] \in Token
      BY <2>1
    <2>3. file[meta.phi_r[1]] \in SUBSET Bit
      BY <1>4, <2>2 DEF LoadNodeOne, IsFilter, IInv, DataTypes, Contents
    <2>4. QED
      BY <1>4, <2>3, LoadTreeKeepsIInv DEF LoadNodeOne, Memory
  <1>5. CASE LoadSave
    <2>1. /\ pc = "load_save" /\ pc' = "idle" /\ root_file' = root_node
          /\ UNCHANGED <<leaf_num, phi_f, phi_r, dirty_leaf, corrupted, root_node, meta, file,
                         arg, dirty_node, holders>>
      BY <1>5 DEF LoadSave, tree
    <2>2. DataTypes'
      BY <2>1 DEF IInv, ArgOK, DataTypes, Contents, PcValues
    <2>3. QED
      BY <2>1, <2>2 DEF IInv, ArgOK, MemoryTree, MetaTree, MetaAgrees
  <1>6. CASE LoadNoRoot
    BY <1>6, LoadTreeKeepsIInv DEF LoadNoRoot
  <1>7. CASE LoadRefuse
    <2>1. /\ pc' = "refused"
          /\ UNCHANGED <<leaf_num, phi_f, phi_r, dirty_leaf, corrupted, root_node, meta, file,
                         root_file, arg, dirty_node, holders>>
      BY <1>7 DEF LoadRefuse, tree, disk
    <2>2. DataTypes'
      BY <2>1 DEF IInv, DataTypes, PcValues
    <2>3. QED
      BY <2>1, <2>2 DEF IInv, ArgOK, MemoryTree, MetaTree, MetaAgrees
  <1>8. QED
    BY <1>1, <1>2, <1>3, <1>4, <1>5, <1>6, <1>7 DEF Load

LEMMA NextIInv == IInv /\ [Next]_vars => IInv'
  <1> SUFFICES ASSUME IInv, [Next]_vars PROVE IInv'
    OBVIOUS
  <1>1. CASE Next
    BY <1>1, InsertKeepsIInv, UpdateKeepsIInv, RemoveKeepsIInv, MergeKeepsIInv,
       MarkValidKeepsIInv, FailKeepsIInv, LoadKeepsIInv DEF Next
  <1>2. CASE UNCHANGED vars
    BY <1>2 DEF vars, tree, disk, IInv, DataTypes, ArgOK, LeafTokens, MemoryTree,
       MetaTree, MetaAgrees, NoRootOnDisk
  <1>3. QED
    BY <1>1, <1>2

LEMMA SpecIInv == Spec => []IInv
  BY InitIInv, NextIInv, PTL DEF Spec

-----------------------------------------------------------------------------
\* Every variable keeps its type in every behaviour.
THEOREM TypeCorrect == Spec => []TypeOK
  <1>1. IInv => TypeOK
    <2> SUFFICES ASSUME IInv PROVE TypeOK
      OBVIOUS
    <2>1. TreeTypes(leaf_num, phi_f, phi_r) /\ dirty_leaf \subseteq LeafIds(leaf_num)
      BY DEF IInv, MemoryTree, TreeOK, ShapeOf
    <2>2. dirty_leaf \subseteq Nat
      BY <2>1 DEF TreeTypes, LeafIds
    <2>3. QED
      BY <2>1, <2>2 DEF IInv, DataTypes, TreeTypes, TypeOK
  <1>2. QED
    BY <1>1, SpecIInv, PTL

\* phi_f and phi_r stay inverse to each other over the ids 1..2*leaf_num-1, and
\* only leaves are dirty, at every step of insert, update, remove and execute_merge,
\* after every failure and every restart, for any number of leaves.
THEOREM TreeShapeAlways == Spec => []TreeShape
  <1>1. IInv => TreeShape
    BY DEF IInv, MemoryTree, TreeOK, TreeShape
  <1>2. QED
    BY <1>1, SpecIInv, PTL

\* Every meta.json that _mark_valid wrote passes all checks of the constructor.
THEOREM ValidMetaAlwaysAcceptable == Spec => []ValidMetaIsAcceptable
  <1>1. IInv => ValidMetaIsAcceptable
    <2> SUFFICES ASSUME IInv, meta.state = "valid" PROVE Acceptable(meta)
      BY DEF ValidMetaIsAcceptable
    <2>1. ShapeOf(meta.leaf_num, meta.phi_f, meta.phi_r, meta.dirty_leaf)
      BY DEF IInv, MetaTree, TreeOK
    <2>2. QED
      BY <2>1 DEF ShapeOf, Acceptable
  <1>2. QED
    BY <1>1, SpecIInv, PTL

\* While the cache accepts operations a restart would load exactly the tree in
\* memory and no fewer dirty leaves than meta.json records.
THEOREM MetaAlwaysMatchesMemory == Spec => []MetaMatchesMemory
  <1>1. IInv => MetaMatchesMemory
    BY DEF IInv, MetaAgrees, MetaMatchesMemory, Usable
  <1>2. QED
    BY <1>1, SpecIInv, PTL

-----------------------------------------------------------------------------
\* The files.


\* A node whose file is the OR of the complete files of its children.
Current(r, m) ==
    /\ IsFilter(file[r[2 * m]]) /\ IsFilter(file[r[2 * m + 1]])
    /\ file[r[m]] = file[r[2 * m]] \cup file[r[2 * m + 1]]

\* Apart from the tokens in X, leaves have a complete file, and only nodes have one.
FilesIn(n, f, X) ==
    \A t \in Token \ X :
        /\ t \in DOMAIN f /\ f[t] >= n => IsFilter(file[t])
        /\ file[t] # NoFile => t \in DOMAIN f

\* Apart from the nodes in X, internal nodes that no dirty leaf is below are current.
CleanIn(n, r, d, X) == \A m \in (1..(n - 1)) \ (Ancestors(n, d) \cup X) : Current(r, m)

\* What the disk holds of a tree that is between two operations.
Intact(n, f, r, d) ==
    /\ FilesIn(n, f, {}) /\ CleanIn(n, r, d, {})
    /\ n > 0 /\ d = {} => root_file = file[r[1]]

\* No operation has changed anything yet, or it has changed everything.
Whole ==
    \/ pc \in {"insert_save", "update_save", "remove_map", "merge", "mark_valid"}
    \/ pc \in {"idle", "load_save"} /\ ~corrupted

\* The nodes that the merge has still to compute are closed under taking parents, all
\* others are current.
LoopOK ==
    /\ leaf_num > 1 /\ dirty_leaf = {} /\ dirty_node \subseteq 1..(leaf_num - 1)
    /\ \A m \in dirty_node : m > 1 => m \div 2 \in dirty_node
    /\ \A m \in (1..(leaf_num - 1)) \ dirty_node : Current(phi_r, m)
    /\ 1 \notin dirty_node => root_node = root_file /\ root_file = file[phi_r[1]]

MemoryFiles ==
    /\ Whole => /\ Intact(leaf_num, phi_f, phi_r, dirty_leaf)
                /\ leaf_num > 0 /\ dirty_leaf = {} => root_node = root_file
    /\ pc = "insert_map" =>
           FilesIn(leaf_num, phi_f, {arg.token}) /\ CleanIn(leaf_num, phi_r, dirty_leaf, {})
    /\ pc = "update_mark" =>
           /\ FilesIn(leaf_num, phi_f, {arg.token})
           /\ CleanIn(leaf_num, phi_r, dirty_leaf, {phi_f[arg.token] \div 2})
    /\ pc = "merge_loop" => FilesIn(leaf_num, phi_f, {}) /\ LoopOK
    /\ pc = "load_save" => dirty_leaf # {} /\ ~corrupted
    /\ pc = "down" => leaf_num = 0 /\ phi_f = EmptyMap

\* meta.json is valid only between operations, and what it describes is on disk.
MetaFiles ==
    /\ meta.state = "valid" =>
           /\ Intact(meta.leaf_num, meta.phi_f, meta.phi_r, meta.dirty_leaf)
           /\ pc \in {"down", "refused", "load_save", "idle"}
    /\ pc = "load_save" => meta.dirty_leaf # {}

FileInv == MemoryFiles /\ MetaFiles

-----------------------------------------------------------------------------
\* Ancestors

LEMMA AncestorsClosed ==
    ASSUME NEW n \in Nat, NEW D \in SUBSET LeafIds(n)
    PROVE  /\ Ancestors(n, D) \subseteq 1..(n - 1)
           /\ \A m \in D \cup Ancestors(n, D) : m \div 2 > 0 => m \div 2 \in Ancestors(n, D)
<1>1. Ancestors(n, D) \subseteq 1..(n - 1)
  BY DEF Ancestors
<1>2. ASSUME NEW m \in D \cup Ancestors(n, D), m \div 2 > 0
      PROVE  m \div 2 \in Ancestors(n, D)
  <2>1. m \in Nat /\ m <= 2 * n - 1 /\ n > 0
    BY <1>1 DEF LeafIds
  <2>2. m \div 2 \in 1..(n - 1)
    BY <2>1, <1>2
  <2>3. ASSUME NEW S \in SUBSET (1..(n - 1)), AboveClosed(S, D) PROVE m \div 2 \in S
    <3>1. m \in D \cup S
      BY <2>3 DEF Ancestors
    <3> QED BY <3>1, <2>3, <1>2 DEF AboveClosed
  <2> QED BY <2>2, <2>3 DEF Ancestors
<1> QED BY <1>1, <1>2

LEMMA AncestorsLeast ==
    ASSUME NEW n, NEW D, NEW S \in SUBSET (1..(n - 1)), AboveClosed(S, D)
    PROVE  Ancestors(n, D) \subseteq S
<1> SUFFICES ASSUME NEW m \in Ancestors(n, D) PROVE m \in S
  OBVIOUS
<1> QED BY DEF Ancestors

\* Nothing is above no leaf, and the root is above every leaf.
LEMMA AncestorsOfNone == \A n : Ancestors(n, {}) = {}
<1> TAKE n
<1>1. AboveClosed({}, {})
  BY DEF AboveClosed
<1> QED BY <1>1, AncestorsLeast, {} \in SUBSET (1..(n - 1))

LEMMA RootIsAbove ==
    ASSUME NEW n \in Nat, n > 1, NEW D \in SUBSET LeafIds(n), D # {}
    PROVE  1 \in Ancestors(n, D)
<1> DEFINE A == Ancestors(n, D)
<1>1. A \subseteq 1..(n - 1) /\ \A m \in D \cup A : m \div 2 > 0 => m \div 2 \in A
  BY AncestorsClosed
<1> HIDE DEF A
<1>2. PICK d \in D : TRUE
  OBVIOUS
<1>3. d \div 2 \in A
  BY <1>1, <1>2 DEF LeafIds
<1>4. PICK m \in A : \A k \in A : m <= k
  BY <1>1, <1>3, Extremes, A \subseteq 0..n
<1>5. m = 1
  BY <1>1, <1>4, m \div 2 > 0 => m <= m \div 2
<1> QED BY <1>4, <1>5 DEF A

-----------------------------------------------------------------------------
\* What the operations do to the files

\* A split makes the new internal node and everything above it dirty.
LEMMA InsertSplitKeepsFiles ==
    ASSUME TreeOK(leaf_num, phi_f, phi_r, dirty_leaf), leaf_num > 0,
           NEW token \in Token \ DOMAIN phi_f, NEW new_root_token \in Token,
           InsertSplit(token, new_root_token),
           file \in [Token -> Contents], NEW c \in SUBSET Bit, file' = [file EXCEPT ![token] = c],
           FilesIn(leaf_num, phi_f, {token}), CleanIn(leaf_num, phi_r, dirty_leaf, {})
    PROVE  FilesIn(leaf_num, phi_f, {})' /\ CleanIn(leaf_num, phi_r, dirty_leaf, {})' /\ dirty_leaf' # {}
<1> DEFINE L == leaf_num
           A == Ancestors(L, dirty_leaf)
           B == Ancestors(L + 1, dirty_leaf')
<1>1. IsFilter(c) /\ file'[token] = c /\ \A t \in Token : t # token => file'[t] = file[t]
  BY MarkAssumption DEF IsFilter
<1>2. /\ L \in Nat /\ L > 0 /\ leaf_num' = L + 1
      /\ LeafIds(L) = L..(2 * L - 1) /\ LeafIds(L + 1) = (L + 1)..(2 * L + 1)
      /\ \A i \in 1..(2 * L - 1) : i # L => phi_r'[i] = phi_r[i]
      /\ \A i \in 1..(2 * L - 1) : phi_r[i] \in Token /\ phi_r[i] # token
  <2>1. DOMAIN phi_r = 1..(2 * L - 1)
    BY InsertSplitMaps
  <2>2. \A i \in DOMAIN phi_r : phi_r[i] \in Token /\ phi_r[i] \in DOMAIN phi_f
    BY DEF TreeOK, ShapeOf, TreeTypes
  <2>3. /\ L \in Nat /\ L > 0 /\ leaf_num' = L + 1
        /\ LeafIds(L) = L..(2 * L - 1) /\ LeafIds(L + 1) = (L + 1)..(2 * L + 1)
        /\ \A i \in 1..(2 * L - 1) : i # L => phi_r'[i] = phi_r[i]
    BY InsertSplitMaps
  <2> QED BY <2>1, <2>2, <2>3
<1>10. /\ DOMAIN phi_f' = DOMAIN phi_f \cup {token, new_root_token}
       /\ phi_f'[token] = 2 * L + 1 /\ phi_f'[new_root_token] = L
       /\ phi_f[phi_r[L]] = L /\ \A t \in DOMAIN phi_f : t # phi_r[L] => phi_f'[t] = phi_f[t]
  BY InsertSplitMaps
<1>3. FilesIn(leaf_num, phi_f, {})'
  <2> SUFFICES ASSUME NEW t \in Token
               PROVE  /\ t \in DOMAIN phi_f' /\ phi_f'[t] >= L + 1 => IsFilter(file'[t])
                      /\ file'[t] # NoFile => t \in DOMAIN phi_f'
    BY <1>2 DEF FilesIn, IsFilter
  <2>1. CASE t = token
    BY <2>1, <1>1, <1>10
  <2>2. CASE t # token /\ t = new_root_token
    BY <2>2, <1>1, <1>2, <1>10
  <2>3. CASE t \notin {token, new_root_token}
    <3>1. t \in DOMAIN phi_f /\ phi_f[t] >= L => IsFilter(file[t])
      BY <2>3 DEF FilesIn
    <3>2. file[t] # NoFile => t \in DOMAIN phi_f
      BY <2>3 DEF FilesIn
    <3>3. t \in DOMAIN phi_f' <=> t \in DOMAIN phi_f
      BY <2>3, <1>10
    <3>4. t \in DOMAIN phi_f => phi_f[t] \in Nat
      BY DEF TreeOK, TreeTypes
    <3>5. t \in DOMAIN phi_f /\ phi_f'[t] >= L + 1 => phi_f[t] >= L
      BY <1>2, <1>10, <3>4
    <3> QED BY <2>3, <1>1, <3>1, <3>2, <3>3, <3>5
  <2> QED BY <2>1, <2>2, <2>3
<1>4. dirty_leaf \subseteq LeafIds(L) /\ dirty_leaf' \subseteq LeafIds(L + 1)
  BY <1>2, InsertSplitKeepsTree DEF TreeOK, ShapeOf
<1>5. /\ 2 * L + 1 \in dirty_leaf' /\ (L \in dirty_leaf => 2 * L \in dirty_leaf')
      /\ dirty_leaf \ {L} \subseteq dirty_leaf'
  BY DEF InsertSplit
<1>6. B \subseteq 1..L /\ \A m \in dirty_leaf' \cup B : m \div 2 > 0 => m \div 2 \in B
  BY <1>2, <1>4, AncestorsClosed
<1> HIDE DEF B
<1>7. L \in B /\ (L \div 2 > 0 => L \div 2 \in B)
  BY <1>2, <1>5, <1>6, (2 * L + 1) \div 2 = L
<1>8. A \subseteq B
  <2> DEFINE S == B \cap 1..(L - 1)
  <2>1. ASSUME NEW m \in dirty_leaf \cup S, m \div 2 > 0 PROVE m \div 2 \in S
    <3>1. m \in dirty_leaf' \cup B
      BY <1>5, <1>7
    <3>2. m \in Nat /\ m <= 2 * L - 1
      BY <1>2, <1>4
    <3> QED BY <1>2, <1>6, <2>1, <3>1, <3>2
  <2>2. AboveClosed(S, dirty_leaf)
    BY <2>1 DEF AboveClosed
  <2> QED BY <2>2, AncestorsLeast
<1>9. ASSUME NEW m \in 1..L, m \notin B PROVE Current(phi_r, m)'
  <2>1. m \in 1..(L - 1) /\ m \notin A /\ 2 * m # L /\ 2 * m + 1 # L
    <3>1. m # L /\ m \notin A
      BY <1>7, <1>8, <1>9
    <3>2. m # L \div 2
      BY <1>2, <1>7, <1>9
    <3> QED BY <1>2, <3>1, <3>2
  <2>2. Current(phi_r, m)
    BY <2>1 DEF CleanIn
  <2>3. \A i \in {m, 2 * m, 2 * m + 1} : file'[phi_r'[i]] = file[phi_r[i]]
    BY <1>1, <1>2, <2>1
  <2> QED BY <2>2, <2>3 DEF Current, IsFilter
<1> QED BY <1>2, <1>3, <1>5, <1>9 DEF CleanIn, B

\* After a collapse the promoted leaf, and the one that took the place of the leaf that
\* left, are dirty.
LEMMA RemoveCollapseKeepsFiles ==
    ASSUME TreeOK(leaf_num, phi_f, phi_r, dirty_leaf), leaf_num > 1,
           NEW del_token \in LeafTokens, RemoveCollapse(del_token), file \in [Token -> Contents],
           FilesIn(leaf_num, phi_f, {}), CleanIn(leaf_num, phi_r, dirty_leaf, {})
    PROVE  FilesIn(leaf_num, phi_f, {})' /\ CleanIn(leaf_num, phi_r, dirty_leaf, {})' /\ dirty_leaf' # {}
<1> DEFINE C == LastNode
           del_id == phi_f[del_token]
           kept == KeptToken(del_token)
           A == Ancestors(leaf_num, dirty_leaf)
           B == Ancestors(C, dirty_leaf')
<1>1. /\ C \in Nat /\ C > 0 /\ leaf_num = C + 1 /\ leaf_num' = C
      /\ LeafIds(leaf_num) = (C + 1)..(2 * C + 1) /\ LeafIds(C) = C..(2 * C - 1)
  <2>1. /\ leaf_num \in Nat /\ leaf_num' = LastNode
        /\ LeafIds(leaf_num) = leaf_num..(2 * LastNode + 1)
        /\ LeafIds(LastNode) = LastNode..(2 * LastNode - 1)
    BY RemoveCollapseMaps
  <2> QED BY <2>1 DEF LastNode
<1>2. /\ del_id \in (C + 1)..(2 * C + 1) /\ InternalToken # del_token
      /\ phi_f[InternalToken] = C /\ InternalToken \in DOMAIN phi_f
      /\ kept \notin {InternalToken, del_token} /\ phi_f[kept] \in {2 * C, 2 * C + 1}
      /\ kept \in DOMAIN phi_f
      /\ RightToken \in DOMAIN phi_f /\ phi_f[RightToken] = 2 * C + 1
  <2>1. /\ phi_f[del_token] \in leaf_num..(2 * LastNode + 1)
        /\ InternalToken \in DOMAIN phi_f /\ phi_f[InternalToken] = LastNode
        /\ RightToken \in DOMAIN phi_f /\ phi_f[RightToken] = 2 * LastNode + 1
    BY RemoveCollapseMaps
  <2>2. /\ KeptToken(del_token) \in DOMAIN phi_f
        /\ KeptToken(del_token) \notin {InternalToken, del_token}
        /\ phi_f[KeptToken(del_token)] \in {2 * LastNode, 2 * LastNode + 1}
    BY RemoveCollapseMaps
  <2>3. phi_f[del_token] \in (C + 1)..(2 * C + 1)
    BY <1>1, <2>1
  <2>4. InternalToken # del_token
    BY <1>1, <2>1, <2>3
  <2> QED BY <2>1, <2>2, <2>3, <2>4
<1>3. /\ DOMAIN phi_r = 1..(2 * C + 1)
      /\ \A i \in 1..(2 * C - 1) :
            i # C /\ (Moved(del_token) => i # del_id) => phi_r'[i] = phi_r[i]
  BY RemoveCollapseMaps
<1>4. /\ DOMAIN phi_f' = DOMAIN phi_f \ {InternalToken, del_token}
      /\ \A t \in DOMAIN phi_f' :
            t # kept /\ (Moved(del_token) => t # RightToken) => phi_f'[t] = phi_f[t]
  BY RemoveCollapseMaps
<1>5. /\ InternalToken \in Token /\ del_token \in Token
      /\ \A t \in Token : file'[t] = IF t \in {InternalToken, del_token} THEN NoFile ELSE file[t]
  <2>1. InternalToken \in Token /\ del_token \in Token
    BY <1>2 DEF TreeOK, TreeTypes, LeafTokens
  <2>2. file' = [file EXCEPT ![del_token] = NoFile, ![InternalToken] = NoFile]
    BY DEF RemoveCollapse, InternalToken, LastNode
  <2> QED BY <2>1, <2>2
<1>6. /\ \A i \in 1..(2 * C + 1) : phi_r[i] \in Token /\ phi_r[i] \in DOMAIN phi_f /\ phi_f[phi_r[i]] = i
      /\ \A t \in DOMAIN phi_f : phi_f[t] \in Nat /\ phi_r[phi_f[t]] = t
      /\ DOMAIN phi_f \subseteq Token /\ dirty_leaf \subseteq LeafIds(leaf_num)
  BY <1>3 DEF TreeOK, TreeTypes, ShapeOf
<1>7. FilesIn(leaf_num, phi_f, {})'
  <2> SUFFICES ASSUME NEW t \in Token
               PROVE  /\ t \in DOMAIN phi_f' /\ phi_f'[t] >= C => IsFilter(file'[t])
                      /\ file'[t] # NoFile => t \in DOMAIN phi_f'
    BY <1>1 DEF FilesIn, IsFilter
  <2>1. /\ t \in DOMAIN phi_f /\ phi_f[t] >= C + 1 => IsFilter(file[t])
        /\ file[t] # NoFile => t \in DOMAIN phi_f
    BY <1>1 DEF FilesIn
  <2>2. file'[t] # NoFile => t \in DOMAIN phi_f'
    BY <1>4, <1>5, <2>1
  <2>3. ASSUME t \in DOMAIN phi_f', phi_f'[t] >= C PROVE IsFilter(file'[t])
    <3>1. t \in DOMAIN phi_f /\ file'[t] = file[t]
      BY <1>4, <1>5, <2>3
    <3>2. phi_f[t] # C
      BY <1>2, <1>6, <2>3, <1>4, <3>1
    <3>3. CASE t = kept \/ t = RightToken
      BY <1>1, <1>2, <2>1, <3>1, <3>3
    <3>4. CASE t # kept /\ t # RightToken
      BY <1>1, <1>4, <1>6, <2>1, <2>3, <3>1, <3>2, <3>4
    <3> QED BY <3>3, <3>4
  <2> QED BY <2>2, <2>3
<1>8. /\ C \in dirty_leaf' /\ (Moved(del_token) => del_id \in dirty_leaf')
      /\ dirty_leaf \ {2 * C, 2 * C + 1} \subseteq dirty_leaf'
  BY DEF RemoveCollapse, LastNode, Moved
<1>9. dirty_leaf' \subseteq LeafIds(C)
  BY <1>1, RemoveCollapseKeepsTree DEF TreeOK, ShapeOf
<1>10. B \subseteq 1..(C - 1) /\ \A m \in dirty_leaf' \cup B : m \div 2 > 0 => m \div 2 \in B
  BY <1>1, <1>9, AncestorsClosed
<1> HIDE DEF B, C
<1>11. A \subseteq B \cup {C}
  <2> DEFINE S == B \cup {C}
  <2>1. ASSUME NEW m \in dirty_leaf \cup S, m \div 2 > 0 PROVE m \div 2 \in S
    <3>1. CASE m \in {2 * C, 2 * C + 1}
      BY <1>1, <3>1
    <3>2. CASE m \notin {2 * C, 2 * C + 1}
      BY <1>8, <1>10, <2>1, <3>2
    <3> QED BY <3>1, <3>2
  <2>2. AboveClosed(S, dirty_leaf)
    BY <2>1 DEF AboveClosed
  <2>3. S \in SUBSET (1..(leaf_num - 1))
    BY <1>1, <1>10
  <2> QED BY <2>2, <2>3, AncestorsLeast
<1>12. ASSUME NEW m \in 1..(C - 1), m \notin B PROVE Current(phi_r, m)'
  <2>1. m \in 1..(leaf_num - 1) /\ m \notin A /\ m # C
    BY <1>1, <1>11, <1>12
  <2>2. Current(phi_r, m)
    BY <2>1 DEF CleanIn
  <2>3. ASSUME NEW i \in {m, 2 * m, 2 * m + 1} PROVE file'[phi_r'[i]] = file[phi_r[i]]
    <3>0. /\ i \in 1..(2 * C - 1)
          /\ i # m => i \div 2 = m
      BY <1>1
    <3>1. i \in 1..(2 * C - 1) /\ i # C
      <4>1. C \div 2 > 0 => C \div 2 \in B
        BY <1>8, <1>10
      <4> QED BY <1>1, <1>12, <3>0, <4>1
    <3>2. Moved(del_token) => i # del_id
      <4>1. Moved(del_token) => (del_id \div 2 > 0 => del_id \div 2 \in B)
        BY <1>8, <1>10
      <4> QED BY <1>1, <1>2, <1>12, <3>0, <4>1
    <3>3. i # del_id
      BY <1>1, <3>1, <3>2 DEF Moved, C
    <3>4. phi_r'[i] = phi_r[i] /\ phi_r[i] \in Token
      BY <1>1, <1>3, <1>6, <3>1, <3>2
    <3>5. phi_f[phi_r[i]] = i
      <4>1. i \in 1..(2 * C + 1)
        BY <1>1, <3>1
      <4> QED BY <1>6, <4>1
    <3>6. phi_r[i] \notin {InternalToken, del_token}
      BY <1>2, <3>1, <3>3, <3>5
    <3> QED BY <1>5, <3>4, <3>6
  <2> QED BY <2>2, <2>3 DEF Current, IsFilter
<1> QED BY <1>1, <1>7, <1>8, <1>12 DEF CleanIn, B, C

\* More dirty leaves, more nodes above them.
LEMMA AncestorsGrow ==
    ASSUME NEW n, NEW D, NEW E, D \subseteq E
    PROVE  Ancestors(n, D) \subseteq Ancestors(n, E)
  BY DEF Ancestors, AboveClosed

\* Every id of a tree has a token of its own.
LEMMA TokensOfNodes ==
    ASSUME NEW n, NEW f, NEW r, NEW d, TreeOK(n, f, r, d)
    PROVE  /\ n \in Nat /\ DOMAIN r = NodeIds(n) /\ d \subseteq LeafIds(n)
           /\ \A i \in NodeIds(n) : r[i] \in Token /\ r[i] \in DOMAIN f /\ f[r[i]] = i
           /\ \A t \in DOMAIN f : t \in Token /\ f[t] \in NodeIds(n) /\ r[f[t]] = t
  BY DEF TreeOK, TreeTypes, ShapeOf

\* The ids of a node and of its children.
LEMMA IdsOfNode ==
    ASSUME NEW n \in Nat, NEW m \in 1..(n - 1)
    PROVE  {m, 2 * m, 2 * m + 1} \subseteq NodeIds(n)
  BY DEF NodeIds

-----------------------------------------------------------------------------
\* The inductive step

\* Only a cache between two operations is entered, and meta.json is then not valid.
LEMMA EnterKeepsFiles ==
    ASSUME FileInv, NEW label, NEW a, Enter(label, a),
           label \in {"insert_save", "update_save", "remove_map", "merge"}
    PROVE  FileInv'
<1>1. /\ pc = "idle" /\ ~corrupted /\ meta'.state = "dirty" /\ pc' = label
      /\ UNCHANGED <<leaf_num, phi_f, phi_r, dirty_leaf, root_node, file, root_file>>
  BY DEF Enter, MarkCorrupted, Meta, tree
<1>2. /\ Intact(leaf_num, phi_f, phi_r, dirty_leaf)
      /\ leaf_num > 0 /\ dirty_leaf = {} => root_node = root_file
  BY <1>1 DEF FileInv, MemoryFiles, Whole
<1>3. Intact(leaf_num, phi_f, phi_r, dirty_leaf)'
  BY <1>1, <1>2 DEF Intact, FilesIn, CleanIn, Current, IsFilter
<1> QED BY <1>1, <1>2, <1>3 DEF FileInv, MemoryFiles, MetaFiles

\* insert writes the new leaf's file before the leaf is in the maps.
LEMMA InsertKeepsFiles ==
    ASSUME IInv, FileInv, Insert PROVE FileInv'
<1>1. ASSUME NEW c \in Filters, InsertBegin(c) PROVE FileInv'
  BY <1>1, EnterKeepsFiles DEF InsertBegin
<1>2. ASSUME NEW token \in Token, InsertSave(token) PROVE FileInv'
  <2>1. /\ pc = "insert_save" /\ pc' = "insert_map" /\ token \notin DOMAIN phi_f
        /\ arg'.token = token
        /\ file' = [file EXCEPT ![token] = Torn]
        /\ UNCHANGED <<leaf_num, phi_f, phi_r, dirty_leaf, meta>>
    BY <1>2 DEF InsertSave, tree, IInv, DataTypes
  <2>2. \A t \in Token : t # token => file'[t] = file[t]
    BY <2>1 DEF IInv, DataTypes
  <2>3. FilesIn(leaf_num, phi_f, {}) /\ CleanIn(leaf_num, phi_r, dirty_leaf, {}) /\ meta.state # "valid"
    BY <2>1 DEF FileInv, MemoryFiles, MetaFiles, Whole, Intact
  <2>4. FilesIn(leaf_num, phi_f, {token})'
    BY <2>1, <2>2, <2>3 DEF FilesIn, IsFilter
  <2>5. ASSUME NEW m \in 1..(leaf_num - 1), Current(phi_r, m) PROVE Current(phi_r, m)'
    <3>1. leaf_num \in Nat /\ \A i \in NodeIds(leaf_num) : phi_r[i] \in Token /\ phi_r[i] \in DOMAIN phi_f
      BY TokensOfNodes DEF IInv, MemoryTree
    <3>2. \A i \in {m, 2 * m, 2 * m + 1} : phi_r[i] \in Token /\ phi_r[i] # token
      BY <2>1, <3>1, IdsOfNode
    <3> QED BY <2>1, <2>2, <2>5, <3>2 DEF Current, IsFilter
  <2>6. CleanIn(leaf_num, phi_r, dirty_leaf, {})'
    BY <2>1, <2>3, <2>5 DEF CleanIn
  <2> QED BY <2>1, <2>3, <2>4, <2>6 DEF FileInv, MemoryFiles, MetaFiles, Whole
<1>3. ASSUME InsertMap PROVE FileInv'
  <2>1. /\ pc = "insert_map" /\ pc' = "mark_valid" /\ meta' = meta
        /\ arg.token \in Token \ DOMAIN phi_f /\ arg.node \in SUBSET Bit
        /\ file' = [file EXCEPT ![arg.token] = arg.node]
        /\ file \in [Token -> Contents]
    BY <1>3 DEF InsertMap, IInv, ArgOK, DataTypes
  <2>2. /\ FilesIn(leaf_num, phi_f, {arg.token}) /\ CleanIn(leaf_num, phi_r, dirty_leaf, {})
        /\ meta.state # "valid"
    BY <2>1 DEF FileInv, MemoryFiles, MetaFiles, Whole, Intact
  <2>3. FilesIn(leaf_num, phi_f, {})' /\ CleanIn(leaf_num, phi_r, dirty_leaf, {})' /\ dirty_leaf' # {}
    <3>1. CASE leaf_num = 0 /\ InsertFirst(arg.token)
      <4>1. leaf_num' = 1 /\ DOMAIN phi_f' = {arg.token} /\ dirty_leaf' # {}
        BY <3>1 DEF InsertFirst
      <4>2. DOMAIN phi_f = {}
        BY <3>1, TokensOfNodes DEF IInv, MemoryTree, NodeIds
      <4>3. \A t \in Token : t # arg.token => file'[t] = NoFile
        BY <2>1, <2>2, <4>2 DEF FilesIn
      <4>4. IsFilter(file'[arg.token])
        BY <2>1, MarkAssumption DEF IsFilter
      <4>5. FilesIn(leaf_num, phi_f, {})'
        BY <4>1, <4>3, <4>4 DEF FilesIn, IsFilter
      <4>6. CleanIn(leaf_num, phi_r, dirty_leaf, {})'
        BY <4>1 DEF CleanIn
      <4> QED BY <4>1, <4>5, <4>6
    <3>2. CASE leaf_num > 0 /\ \E t \in Token : InsertSplit(arg.token, t)
      <4>1. PICK t \in Token : InsertSplit(arg.token, t)
        BY <3>2
      <4>2. TreeOK(leaf_num, phi_f, phi_r, dirty_leaf)
        BY DEF IInv, MemoryTree
      <4> QED BY <2>1, <2>2, <3>2, <4>1, <4>2, InsertSplitKeepsFiles
    <3> QED BY <1>3, <3>1, <3>2 DEF InsertMap
  <2> QED BY <2>1, <2>2, <2>3 DEF FileInv, MemoryFiles, MetaFiles, Whole, Intact
<1> QED BY <1>1, <1>2, <1>3 DEF Insert

\* update tears the file of one leaf; until the leaf is dirty its parent may be stale.
LEMMA UpdateKeepsFiles ==
    ASSUME IInv, FileInv, Update PROVE FileInv'
<1>1. ASSUME NEW t \in Token, NEW c \in Filters, UpdateBegin(t, c) PROVE FileInv'
  BY <1>1, EnterKeepsFiles DEF UpdateBegin
<1> DEFINE id == phi_f[arg.token]
<1>2. ASSUME pc \in {"update_save", "update_mark"}, NEW content,
             file' = [file EXCEPT ![arg.token] = content],
             UNCHANGED <<leaf_num, phi_f, phi_r>>
      PROVE  /\ id \in LeafIds(leaf_num)
             /\ \A t \in Token : t # arg.token => file'[t] = file[t]
             /\ file'[arg.token] = content /\ arg.token \in DOMAIN phi_f
             /\ \A m \in (1..(leaf_num - 1)) \ {id \div 2} : Current(phi_r, m) => Current(phi_r, m)'
  <2>1. arg.token \in LeafTokens /\ file \in [Token -> Contents]
    BY <1>2 DEF IInv, ArgOK, DataTypes
  <2>2. /\ leaf_num \in Nat
        /\ \A i \in NodeIds(leaf_num) : phi_r[i] \in Token /\ phi_r[i] \in DOMAIN phi_f /\ phi_f[phi_r[i]] = i
        /\ \A t \in DOMAIN phi_f : t \in Token /\ phi_f[t] \in NodeIds(leaf_num) /\ phi_r[phi_f[t]] = t
    BY TokensOfNodes DEF IInv, MemoryTree
  <2>3. arg.token \in DOMAIN phi_f /\ id \in LeafIds(leaf_num)
    BY <2>1, <2>2 DEF LeafTokens, NodeIds, LeafIds
  <2>4. /\ \A t \in Token : t # arg.token => file'[t] = file[t]
        /\ file'[arg.token] = content
    BY <1>2, <2>1, <2>2, <2>3
  <2>5. ASSUME NEW m \in (1..(leaf_num - 1)) \ {id \div 2}, Current(phi_r, m)
        PROVE  Current(phi_r, m)'
    <3>1. id \notin {m, 2 * m, 2 * m + 1}
      BY <2>2, <2>3, <2>5 DEF LeafIds
    <3>2. \A i \in {m, 2 * m, 2 * m + 1} : phi_r[i] \in Token /\ phi_r[i] # arg.token
      BY <2>2, <3>1, IdsOfNode
    <3> QED BY <1>2, <2>4, <2>5, <3>2 DEF Current, IsFilter
  <2> QED BY <2>3, <2>4, <2>5
<1> HIDE DEF id
<1>3. CASE UpdateSave
  <2>1. /\ pc = "update_save" /\ pc' = "update_mark" /\ arg' = arg
        /\ file' = [file EXCEPT ![arg.token] = Torn]
        /\ UNCHANGED <<leaf_num, phi_f, phi_r, dirty_leaf, meta>>
    BY <1>3 DEF UpdateSave, tree
  <2>2. FilesIn(leaf_num, phi_f, {}) /\ CleanIn(leaf_num, phi_r, dirty_leaf, {}) /\ meta.state # "valid"
    BY <2>1 DEF FileInv, MemoryFiles, MetaFiles, Whole, Intact
  <2>3. FilesIn(leaf_num, phi_f, {arg.token})'
    BY <1>2, <2>1, <2>2 DEF FilesIn, IsFilter
  <2>4. CleanIn(leaf_num, phi_r, dirty_leaf, {id \div 2})'
    BY <1>2, <2>1, <2>2 DEF CleanIn, id
  <2> QED BY <2>1, <2>2, <2>3, <2>4 DEF FileInv, MemoryFiles, MetaFiles, Whole, id
<1>4. CASE UpdateMark
  <2>1. /\ pc = "update_mark" /\ pc' = "mark_valid" /\ dirty_leaf' = dirty_leaf \cup {id}
        /\ file' = [file EXCEPT ![arg.token] = arg.node] /\ arg.node \in SUBSET Bit
        /\ UNCHANGED <<leaf_num, phi_f, phi_r, meta>>
    BY <1>4 DEF UpdateMark, id, IInv, DataTypes
  <2>2. /\ FilesIn(leaf_num, phi_f, {arg.token})
        /\ CleanIn(leaf_num, phi_r, dirty_leaf, {id \div 2}) /\ meta.state # "valid"
    BY <2>1 DEF FileInv, MemoryFiles, MetaFiles, Whole, Intact, id
  <2>3. FilesIn(leaf_num, phi_f, {})'
    <3>1. IsFilter(arg.node)
      BY <2>1, MarkAssumption DEF IsFilter
    <3> QED BY <1>2, <2>1, <2>2, <3>1 DEF FilesIn, IsFilter
  <2>4. /\ Ancestors(leaf_num, dirty_leaf) \subseteq Ancestors(leaf_num, dirty_leaf')
        /\ id \div 2 > 0 => id \div 2 \in Ancestors(leaf_num, dirty_leaf')
    <3>1. leaf_num \in Nat /\ dirty_leaf \subseteq LeafIds(leaf_num)
      BY TokensOfNodes DEF IInv, MemoryTree
    <3>2. dirty_leaf' \in SUBSET LeafIds(leaf_num) /\ id \in dirty_leaf'
      BY <1>2, <2>1, <3>1
    <3> QED BY <2>1, <3>1, <3>2, AncestorsGrow, AncestorsClosed
  <2>5. CleanIn(leaf_num, phi_r, dirty_leaf, {})'
    <3> SUFFICES ASSUME NEW m \in (1..(leaf_num - 1)) \ Ancestors(leaf_num, dirty_leaf')
                 PROVE  Current(phi_r, m)'
      BY <2>1 DEF CleanIn
    <3>1. m \notin Ancestors(leaf_num, dirty_leaf) /\ m # id \div 2
      BY <2>4
    <3>2. Current(phi_r, m)
      BY <2>2, <3>1 DEF CleanIn
    <3> QED BY <1>2, <2>1, <3>1, <3>2
  <2> QED BY <2>1, <2>2, <2>3, <2>5 DEF FileInv, MemoryFiles, MetaFiles, Whole, Intact
<1> QED BY <1>1, <1>3, <1>4 DEF Update

\* remove unlinks the files of the tokens that leave the maps, and of no other.
LEMMA RemoveKeepsFiles ==
    ASSUME IInv, FileInv, Remove PROVE FileInv'
<1>1. ASSUME NEW t \in Token, RemoveBegin(t) PROVE FileInv'
  BY <1>1, EnterKeepsFiles DEF RemoveBegin
<1>2. CASE RemoveMap
  <2>1. /\ pc = "remove_map" /\ pc' = "mark_valid" /\ meta' = meta /\ arg.token \in LeafTokens
        /\ file \in [Token -> Contents] /\ TreeOK(leaf_num, phi_f, phi_r, dirty_leaf)
    BY <1>2 DEF RemoveMap, IInv, ArgOK, DataTypes, MemoryTree
  <2>2. FilesIn(leaf_num, phi_f, {}) /\ CleanIn(leaf_num, phi_r, dirty_leaf, {}) /\ meta.state # "valid"
    BY <2>1 DEF FileInv, MemoryFiles, MetaFiles, Whole, Intact
  <2>3. CASE leaf_num = 1 /\ RemoveLast
    <3>1. leaf_num' = 0 /\ DOMAIN phi_f' = {} /\ file' = [file EXCEPT ![arg.token] = NoFile]
      BY <2>3 DEF RemoveLast, EmptyMap
    <3>2. \A t \in DOMAIN phi_f : t = arg.token
      <4>1. \A t \in DOMAIN phi_f : phi_f[t] \in NodeIds(1) /\ phi_r[phi_f[t]] = t
        BY <2>1, <2>3, TokensOfNodes
      <4>2. NodeIds(1) = {1}
        BY DEF NodeIds
      <4> QED BY <2>1, <4>1, <4>2 DEF LeafTokens
    <3>3. \A t \in Token : file'[t] = NoFile
      BY <2>1, <2>2, <3>1, <3>2 DEF FilesIn
    <3>4. FilesIn(leaf_num, phi_f, {})' /\ CleanIn(leaf_num, phi_r, dirty_leaf, {})'
      BY <3>1, <3>3 DEF FilesIn, CleanIn
    <3> QED BY <2>1, <2>2, <3>1, <3>4 DEF FileInv, MemoryFiles, MetaFiles, Whole, Intact
  <2>4. CASE leaf_num > 1 /\ RemoveCollapse(arg.token)
    <3>1. FilesIn(leaf_num, phi_f, {})' /\ CleanIn(leaf_num, phi_r, dirty_leaf, {})' /\ dirty_leaf' # {}
      BY <2>1, <2>2, <2>4, RemoveCollapseKeepsFiles
    <3> QED BY <2>1, <2>2, <3>1 DEF FileInv, MemoryFiles, MetaFiles, Whole, Intact
  <2> QED BY <1>2, <2>3, <2>4 DEF RemoveMap
<1> QED BY <1>1, <1>2 DEF Remove

\* A merge recomputes the nodes above the dirty leaves, children first, and the root last.
LEMMA MergeKeepsFiles ==
    ASSUME IInv, FileInv, Merge PROVE FileInv'
<1>0. /\ leaf_num \in Nat /\ dirty_leaf \subseteq LeafIds(leaf_num)
      /\ \A i \in NodeIds(leaf_num) : phi_r[i] \in Token /\ phi_r[i] \in DOMAIN phi_f /\ phi_f[phi_r[i]] = i
  BY TokensOfNodes DEF IInv, MemoryTree
<1>1. CASE MergeBegin
  BY <1>1, EnterKeepsFiles DEF MergeBegin
<1>2. ASSUME pc = "merge"
      PROVE  Intact(leaf_num, phi_f, phi_r, dirty_leaf) /\ meta.state # "valid"
             /\ (leaf_num > 0 /\ dirty_leaf = {} => root_node = root_file)
  BY <1>2 DEF FileInv, MemoryFiles, MetaFiles, Whole
<1>3. CASE MergeEmpty
  <2>1. /\ pc = "merge" /\ pc' = "mark_valid" /\ leaf_num = 0
        /\ UNCHANGED <<leaf_num, phi_f, phi_r, file, meta>>
    BY <1>3 DEF MergeEmpty
  <2>2. Intact(leaf_num, phi_f, phi_r, dirty_leaf)'
    BY <1>2, <2>1 DEF Intact, FilesIn, CleanIn, IsFilter
  <2> QED BY <1>2, <2>1, <2>2 DEF FileInv, MemoryFiles, MetaFiles, Whole
<1>4. CASE MergeSingle
  <2>1. /\ pc = "merge" /\ pc' = "mark_valid" /\ leaf_num = 1
        /\ UNCHANGED <<leaf_num, phi_f, phi_r, file, meta>>
    BY <1>4 DEF MergeSingle
  <2>2. root_file' = file[phi_r[1]] /\ root_node' = root_file'
    BY <1>2, <1>4, <2>1 DEF MergeSingle, Publish, Intact
  <2>3. Intact(leaf_num, phi_f, phi_r, dirty_leaf)'
    BY <1>2, <2>1, <2>2 DEF Intact, FilesIn, CleanIn, IsFilter
  <2> QED BY <1>2, <2>1, <2>2, <2>3 DEF FileInv, MemoryFiles, MetaFiles, Whole
<1>5. CASE MergeCollect
  <2> DEFINE A == Ancestors(leaf_num, dirty_leaf)
  <2>1. /\ pc = "merge" /\ pc' = "merge_loop" /\ leaf_num > 1 /\ dirty_leaf' = {} /\ dirty_node' = A
        /\ UNCHANGED <<leaf_num, phi_f, phi_r, file, meta, root_node, root_file>>
    BY <1>5 DEF MergeCollect, disk
  <2>2. A \subseteq 1..(leaf_num - 1) /\ \A m \in A : m \div 2 > 0 => m \div 2 \in A
    BY <1>0, AncestorsClosed
  <2>3. 1 \notin A => dirty_leaf = {}
    BY <1>0, <2>1, RootIsAbove
  <2>4. FilesIn(leaf_num, phi_f, {})' /\ \A m \in (1..(leaf_num - 1)) \ A : Current(phi_r, m)'
    BY <1>2, <2>1 DEF Intact, FilesIn, CleanIn, Current, IsFilter
  <2>5. 1 \notin A => root_node = root_file /\ root_file = file[phi_r[1]]
    BY <1>0, <1>2, <2>1, <2>3 DEF Intact
  <2> HIDE DEF A
  <2>6. \A m \in A : m > 1 => m \div 2 \in A
    BY <2>2
  <2>7. LoopOK'
    BY <2>1, <2>2, <2>4, <2>5, <2>6 DEF LoopOK
  <2> QED BY <1>2, <2>1, <2>4, <2>7 DEF FileInv, MemoryFiles, MetaFiles, Whole
<1>6. ASSUME pc = "merge_loop"
      PROVE  FilesIn(leaf_num, phi_f, {}) /\ LoopOK /\ meta.state # "valid"
  BY <1>6 DEF FileInv, MemoryFiles, MetaFiles
<1>7. ASSUME NEW n \in 1..(leaf_num - 1), MergeNode(n) PROVE FileInv'
  <2> DEFINE lc == file[phi_r[2 * n]]
             rc == file[phi_r[2 * n + 1]]
  <2>1. /\ pc = "merge_loop" /\ pc' = pc /\ IsGreatest(n, dirty_node) /\ dirty_node' = dirty_node \ {n}
        /\ IsFilter(lc) /\ IsFilter(rc) /\ file' = [file EXCEPT ![phi_r[n]] = lc \cup rc]
        /\ UNCHANGED <<leaf_num, phi_f, phi_r, dirty_leaf, meta>>
    BY <1>7 DEF MergeNode, tree
  <2>2. /\ n = 1 => root_node' = lc \cup rc /\ root_file' = lc \cup rc
        /\ n # 1 => UNCHANGED <<root_node, root_file>>
    BY <1>7 DEF MergeNode, Publish
  <2>3. FilesIn(leaf_num, phi_f, {}) /\ LoopOK /\ meta.state # "valid"
    BY <1>6, <2>1
  <2>4. /\ phi_r[n] \in Token /\ phi_r[n] \in DOMAIN phi_f /\ phi_f[phi_r[n]] = n
        /\ \A i \in NodeIds(leaf_num) : i # n => file'[phi_r[i]] = file[phi_r[i]]
        /\ file'[phi_r[n]] = lc \cup rc
        /\ \A t \in Token : t # phi_r[n] => file'[t] = file[t]
    <3>1. n \in NodeIds(leaf_num) /\ file \in [Token -> Contents]
      BY <1>0, <1>7, IdsOfNode DEF IInv, DataTypes
    <3>2. phi_r[n] \in Token /\ phi_r[n] \in DOMAIN phi_f /\ phi_f[phi_r[n]] = n
      BY <1>0, <3>1
    <3> QED BY <1>0, <2>1, <3>1, <3>2
  <2>5. {2 * n, 2 * n + 1, 1} \subseteq NodeIds(leaf_num) /\ lc \in SUBSET Bit /\ rc \in SUBSET Bit
    <3>1. {2 * n, 2 * n + 1, 1} \subseteq NodeIds(leaf_num)
      BY <1>0, <1>7 DEF NodeIds
    <3> QED BY <1>0, <2>1, <3>1 DEF IsFilter, IInv, DataTypes, Contents
  <2> HIDE DEF lc, rc
  <2>6. FilesIn(leaf_num, phi_f, {})'
    <3>1. ~(phi_f[phi_r[n]] >= leaf_num)
      BY <1>0, <2>4
    <3> QED BY <2>1, <2>3, <2>4, <3>1 DEF FilesIn
  <2>7. ASSUME NEW m \in (1..(leaf_num - 1)) \ dirty_node' PROVE Current(phi_r, m)'
    <3>1. CASE m = n
      <4>1. file'[phi_r[2 * n]] = lc /\ file'[phi_r[2 * n + 1]] = rc
        BY <1>0, <2>4, <2>5, <1>7 DEF lc, rc
      <4> QED BY <2>1, <2>4, <3>1, <4>1 DEF Current, IsFilter
    <3>2. CASE m # n
      <4>1. m \notin dirty_node /\ Current(phi_r, m)
        BY <2>1, <2>3, <2>7, <3>2 DEF LoopOK
      <4>2. 2 * m # n /\ 2 * m + 1 # n
        <5>1. n \in dirty_node /\ (n > 1 => n \div 2 \in dirty_node)
          BY <2>1, <2>3 DEF LoopOK, IsGreatest
        <5> QED BY <4>1, <5>1, <2>7, <1>0
      <4>3. \A i \in {m, 2 * m, 2 * m + 1} : file'[phi_r[i]] = file[phi_r[i]]
        BY <1>0, <2>4, <3>2, <4>2, IdsOfNode, m \in 1..(leaf_num - 1)
      <4> QED BY <2>1, <4>1, <4>3 DEF Current, IsFilter
    <3> QED BY <3>1, <3>2
  <2>8. ASSUME NEW m \in dirty_node', m > 1 PROVE m \div 2 \in dirty_node'
    <3>1. m \in dirty_node /\ m # n /\ m <= n /\ m \in 1..(leaf_num - 1) /\ m \div 2 \in dirty_node
      BY <2>1, <2>3, <2>8 DEF LoopOK, IsGreatest
    <3> QED BY <1>0, <2>1, <2>8, <3>1
  <2>9. 1 \notin dirty_node' => root_node' = root_file' /\ root_file' = file'[phi_r[1]]
    <3>1. CASE n = 1
      BY <2>2, <2>4, <3>1
    <3>2. CASE n # 1
      <4>1. 1 \notin dirty_node' => 1 \notin dirty_node
        BY <2>1, <3>2
      <4> QED BY <2>2, <2>3, <2>4, <2>5, <3>2, <4>1 DEF LoopOK
    <3> QED BY <3>1, <3>2
  <2>10. LoopOK'
    BY <2>1, <2>3, <2>7, <2>8, <2>9 DEF LoopOK
  <2> QED BY <2>1, <2>3, <2>6, <2>10 DEF FileInv, MemoryFiles, MetaFiles, Whole
<1>8. CASE MergeEnd
  <2>1. /\ pc = "merge_loop" /\ pc' = "mark_valid" /\ dirty_node = {}
        /\ UNCHANGED <<leaf_num, phi_f, phi_r, dirty_leaf, file, meta, root_node, root_file>>
    BY <1>8 DEF MergeEnd, tree, disk
  <2>2. FilesIn(leaf_num, phi_f, {}) /\ LoopOK /\ meta.state # "valid"
    BY <1>6, <2>1
  <2>3. Intact(leaf_num, phi_f, phi_r, dirty_leaf)' /\ root_node' = root_file'
    BY <2>1, <2>2 DEF Intact, LoopOK, FilesIn, CleanIn, Current, IsFilter
  <2> QED BY <2>1, <2>2, <2>3 DEF FileInv, MemoryFiles, MetaFiles, Whole
<1> QED BY <1>1, <1>3, <1>4, <1>5, <1>7, <1>8 DEF Merge

\* _mark_valid saves a description of files that are all in place.
LEMMA MarkValidKeepsFiles ==
    ASSUME FileInv, MarkValid PROVE FileInv'
<1>1. /\ pc = "mark_valid" /\ pc' = "idle" /\ meta' = Meta("valid") /\ corrupted' = FALSE
      /\ UNCHANGED <<leaf_num, phi_f, phi_r, dirty_leaf, root_node, file, root_file>>
  BY DEF MarkValid, tree
<1>2. /\ Intact(leaf_num, phi_f, phi_r, dirty_leaf)
      /\ leaf_num > 0 /\ dirty_leaf = {} => root_node = root_file
  BY <1>1 DEF FileInv, MemoryFiles, Whole
<1>3. Intact(leaf_num, phi_f, phi_r, dirty_leaf)'
  BY <1>1, <1>2 DEF Intact, FilesIn, CleanIn, Current, IsFilter
<1>4. /\ meta'.leaf_num = leaf_num' /\ meta'.phi_f = phi_f' /\ meta'.phi_r = phi_r'
      /\ meta'.dirty_leaf = dirty_leaf'
  BY <1>1 DEF Meta
<1>5. MemoryFiles'
  BY <1>1, <1>2, <1>3 DEF MemoryFiles
<1>6. MetaFiles'
  BY <1>1, <1>3, <1>4 DEF MetaFiles
<1> QED BY <1>5, <1>6 DEF FileInv

\* The files of the tree in meta.json do not change under it.
LEMMA MetaStaysIntact ==
    ASSUME Intact(meta.leaf_num, meta.phi_f, meta.phi_r, meta.dirty_leaf),
           meta' = meta, file' = file, root_file' = root_file \/ meta.dirty_leaf # {}
    PROVE  Intact(meta.leaf_num, meta.phi_f, meta.phi_r, meta.dirty_leaf)'
  BY DEF Intact, FilesIn, CleanIn, Current, IsFilter

\* An error leaves the cache corrupted and meta.json not valid; a crash forgets the
\* memory and leaves the disk.
LEMMA FailKeepsFiles ==
    ASSUME FileInv, Fail PROVE FileInv'
<1>1. CASE RaiseIOError
  <2>1. /\ pc' = "idle" /\ corrupted' = TRUE /\ pc \notin {"idle", "down", "refused", "load_save"}
        /\ meta' = meta \/ meta'.state = "malformed"
    BY <1>1 DEF RaiseIOError, EmptyMeta
  <2>2. meta'.state # "valid"
    BY <2>1 DEF FileInv, MetaFiles
  <2> QED BY <2>1, <2>2 DEF FileInv, MemoryFiles, MetaFiles, Whole
<1>2. CASE RaiseMetaError
  <2>1. /\ pc' = "idle" /\ corrupted' = TRUE
        /\ meta' = meta \/ meta'.state = "malformed"
        /\ file' = file /\ root_file' = root_file
    BY <1>2 DEF RaiseMetaError, EmptyMeta
  <2>2. meta'.state = "valid" => Intact(meta.leaf_num, meta.phi_f, meta.phi_r, meta.dirty_leaf)'
    BY <2>1, MetaStaysIntact DEF FileInv, MetaFiles
  <2> QED BY <2>1, <2>2 DEF FileInv, MemoryFiles, MetaFiles, Whole
<1>3. CASE Crash
  <2>1. /\ pc' = "down" /\ leaf_num' = 0 /\ phi_f' = EmptyMap /\ file' = file
        /\ root_file' = root_file \/ pc = "load_save"
        /\ meta' = meta \/ meta'.state = "malformed"
    BY <1>3 DEF Crash, EmptyMeta
  <2>2. MemoryFiles'
    BY <2>1 DEF MemoryFiles, Whole
  <2>3. meta'.state = "valid" => Intact(meta.leaf_num, meta.phi_f, meta.phi_r, meta.dirty_leaf)'
    BY <2>1, MetaStaysIntact DEF FileInv, MetaFiles
  <2> QED BY <2>1, <2>2, <2>3 DEF FileInv, MetaFiles
<1> QED BY <1>1, <1>2, <1>3 DEF Fail

\* A cache whose constructor succeeded serves files that the previous process finished.
LEMMA LoadKeepsFiles ==
    ASSUME IInv, FileInv, Load PROVE FileInv'
<1>1. CASE LoadNew
  <2>1. /\ pc = "down" /\ pc' = "idle" /\ meta' = meta /\ meta.state = "absent"
        /\ \A t \in Token : file[t] = NoFile
        /\ UNCHANGED <<leaf_num, phi_f, phi_r, dirty_leaf, file, root_file>>
    BY <1>1 DEF LoadNew, tree, disk
  <2>2. leaf_num = 0 /\ DOMAIN phi_f = {}
    BY <2>1 DEF FileInv, MemoryFiles, EmptyMap
  <2>3. Intact(leaf_num, phi_f, phi_r, dirty_leaf)'
    BY <2>1, <2>2 DEF Intact, FilesIn, CleanIn
  <2> QED BY <2>1, <2>2, <2>3 DEF FileInv, MemoryFiles, MetaFiles
<1>2. ASSUME pc = "down", Acceptable(meta), LoadTree, pc' \in {"idle", "load_save"},
             pc' = "load_save" => meta.dirty_leaf # {},
             \/ /\ dirty_leaf' = meta.dirty_leaf
                /\ leaf_num' > 0 /\ dirty_leaf' = {} => root_node' = root_file
             \/ dirty_leaf' = meta.dirty_leaf \cup LeafIds(meta.leaf_num) /\ meta.leaf_num > 1
      PROVE  FileInv'
  <2>1. /\ leaf_num' = meta.leaf_num /\ phi_f' = meta.phi_f /\ phi_r' = meta.phi_r
        /\ corrupted' = FALSE
        /\ UNCHANGED <<meta, file, root_file>>
    BY <1>2 DEF LoadTree
  <2>2. meta.state = "valid" /\ Intact(meta.leaf_num, meta.phi_f, meta.phi_r, meta.dirty_leaf)
    BY <1>2 DEF Acceptable, FileInv, MetaFiles
  <2>3. MetaFiles'
    BY <1>2, <2>1, <2>2, MetaStaysIntact DEF MetaFiles
  <2>4. meta.leaf_num > 1 => LeafIds(meta.leaf_num) # {}
    BY DEF IInv, MetaTree, TreeOK, TreeTypes, LeafIds
  <2>5. FilesIn(leaf_num, phi_f, {})'
    BY <2>1, <2>2 DEF Intact, FilesIn, IsFilter
  <2>6. CleanIn(leaf_num, phi_r, dirty_leaf, {})'
    <3>1. Ancestors(meta.leaf_num, meta.dirty_leaf) \subseteq Ancestors(meta.leaf_num, dirty_leaf')
      BY <1>2, AncestorsGrow
    <3>2. CleanIn(meta.leaf_num, meta.phi_r, dirty_leaf', {})
      BY <2>2, <3>1 DEF Intact, CleanIn
    <3> QED BY <2>1, <3>2 DEF CleanIn, Current, IsFilter
  <2>7. /\ leaf_num' > 0 /\ dirty_leaf' = {} => root_file' = file'[phi_r'[1]] /\ root_node' = root_file'
        /\ pc' = "load_save" => dirty_leaf' # {} /\ ~corrupted'
    BY <1>2, <2>1, <2>2, <2>4 DEF Intact
  <2>8. MemoryFiles'
    BY <1>2, <2>5, <2>6, <2>7 DEF MemoryFiles, Intact
  <2> QED BY <2>3, <2>8 DEF FileInv
<1>3. CASE LoadEmpty
  <2>1. pc' = "idle" /\ dirty_leaf' = meta.dirty_leaf /\ leaf_num' = 0
    BY <1>3 DEF LoadEmpty, LoadTree
  <2> QED BY <1>2, <1>3, <2>1 DEF LoadEmpty
<1>4. CASE LoadRootFiles
  BY <1>2, <1>4 DEF LoadRootFiles
<1>5. CASE LoadNodeOne
  <2>1. meta.dirty_leaf # {}
    BY <1>5 DEF LoadNodeOne, RootSource, Acceptable, FileInv, MetaFiles, Intact
  <2> QED BY <1>2, <1>5, <2>1 DEF LoadNodeOne
<1>6. CASE LoadSave
  <2>1. /\ pc = "load_save" /\ pc' = "idle"
        /\ UNCHANGED <<leaf_num, phi_f, phi_r, dirty_leaf, corrupted, meta, file>>
    BY <1>6 DEF LoadSave, tree
  <2>2. dirty_leaf # {} /\ meta.dirty_leaf # {}
    BY <2>1 DEF FileInv, MemoryFiles, MetaFiles
  <2>3. meta.state = "valid" => Intact(meta.leaf_num, meta.phi_f, meta.phi_r, meta.dirty_leaf)'
    BY <2>1, <2>2, MetaStaysIntact DEF FileInv, MetaFiles
  <2>4. ~corrupted => Intact(leaf_num, phi_f, phi_r, dirty_leaf)'
    BY <2>1, <2>2 DEF FileInv, MemoryFiles, Whole, Intact, FilesIn, CleanIn, Current, IsFilter
  <2>5. MemoryFiles'
    BY <2>1, <2>2, <2>4 DEF MemoryFiles, Whole
  <2>6. ~corrupted
    BY <2>1 DEF FileInv, MemoryFiles
  <2> QED BY <2>1, <2>2, <2>3, <2>5, <2>6 DEF FileInv, MetaFiles
<1>7. CASE LoadNoRoot
  BY <1>2, <1>7 DEF LoadNoRoot
<1>8. CASE LoadRefuse
  <2>1. /\ pc' = "refused" /\ UNCHANGED <<file, root_file, meta>>
    BY <1>8 DEF LoadRefuse, disk
  <2>2. meta.state = "valid" => Intact(meta.leaf_num, meta.phi_f, meta.phi_r, meta.dirty_leaf)'
    BY <2>1, MetaStaysIntact DEF FileInv, MetaFiles
  <2> QED BY <2>1, <2>2 DEF FileInv, MemoryFiles, MetaFiles, Whole
<1> QED BY <1>1, <1>3, <1>4, <1>5, <1>6, <1>7, <1>8 DEF Load

LEMMA InitFileInv == Init => FileInv
  BY DEF Init, FileInv, MemoryFiles, MetaFiles, Whole, EmptyMeta

LEMMA NextFileInv == IInv /\ FileInv /\ [Next]_vars => FileInv'
<1> SUFFICES ASSUME IInv, FileInv, [Next]_vars PROVE FileInv'
  OBVIOUS
<1>1. CASE Next
  BY <1>1, InsertKeepsFiles, UpdateKeepsFiles, RemoveKeepsFiles, MergeKeepsFiles,
     MarkValidKeepsFiles, FailKeepsFiles, LoadKeepsFiles DEF Next
<1>2. CASE UNCHANGED vars
  BY <1>2 DEF vars, tree, disk, FileInv, MemoryFiles, MetaFiles, Whole, LoopOK, Intact,
     FilesIn, CleanIn, Current, IsFilter
<1> QED BY <1>1, <1>2

LEMMA SpecFileInv == Spec => [](IInv /\ FileInv)
<1>1. Init => IInv /\ FileInv
  BY InitIInv, InitFileInv
<1>2. (IInv /\ FileInv) /\ [Next]_vars => (IInv /\ FileInv)'
  BY NextIInv, NextFileInv
<1> QED BY <1>1, <1>2, PTL DEF Spec

\* When every internal node of a heap is the union of its children, the root is the union
\* of the leaves: the greatest node that holds a bit is a leaf, and the least is the root.
LEMMA HeapUnion ==
    ASSUME NEW n \in Nat, n > 0, NEW g,
           \A m \in 1..(n - 1) : g[m] = g[2 * m] \cup g[2 * m + 1]
    PROVE  g[1] = UNION {g[i] : i \in n..(2 * n - 1)}
<1> DEFINE N == 2 * n - 1
           Holds(b) == {i \in 1..N : b \in g[i]}
<1>1. N \in Nat /\ N >= 1 /\ \A i \in 1..(n - 1) : {i, 2 * i, 2 * i + 1} \subseteq 1..N
  OBVIOUS
<1>2. \A b : Holds(b) \in SUBSET (0..N) /\ Holds(b) \in SUBSET (1..N)
  BY <1>1
<1>3. \A b : \A i \in 1..(n - 1) : i \in Holds(b) <=> 2 * i \in Holds(b) \/ 2 * i + 1 \in Holds(b)
  BY <1>1
<1>4. \A b : b \in g[1] <=> 1 \in Holds(b)
  BY <1>1
<1>5. \A b : b \in UNION {g[i] : i \in n..N} <=> \E i \in n..N : i \in Holds(b)
  BY <1>1
<1> HIDE DEF Holds
<1>6. ASSUME NEW b, 1 \in Holds(b) PROVE \E i \in n..N : i \in Holds(b)
  <2>1. PICK i \in Holds(b) : \A j \in Holds(b) : j <= i
    BY <1>1, <1>2, <1>6, Extremes
  <2>2. ~(i \in 1..(n - 1)) /\ i \in 1..N
    BY <1>2, <1>3, <2>1
  <2> QED BY <1>1, <2>2
<1>7. ASSUME NEW b, NEW k \in Holds(b) PROVE 1 \in Holds(b)
  <2>1. PICK i \in Holds(b) : \A j \in Holds(b) : i <= j
    BY <1>1, <1>2, Extremes
  <2>2. i \in 1..N
    BY <1>2
  <2>3. CASE i > 1
    <3>1. /\ i \div 2 \in 1..(n - 1) /\ i \div 2 < i
          /\ i = 2 * (i \div 2) \/ i = 2 * (i \div 2) + 1
      BY <1>1, <2>2, <2>3
    <3>2. i \div 2 \in Holds(b)
      BY <1>3, <2>1, <3>1
    <3> QED BY <2>1, <2>2, <3>1, <3>2
  <2> QED BY <2>1, <2>2, <2>3
<1>8. \A b : b \in g[1] <=> b \in UNION {g[i] : i \in n..N}
  BY <1>4, <1>5, <1>6, <1>7
<1> QED BY <1>8

LeavesOf(n, f) == {t \in DOMAIN f : f[t] >= n}

LEMMA RootIsUnion ==
    ASSUME NEW n, NEW f, NEW r, NEW d, TreeOK(n, f, r, d), n > 0, NEW fl,
           \A m \in 1..(n - 1) : fl[r[m]] = fl[r[2 * m]] \cup fl[r[2 * m + 1]]
    PROVE  fl[r[1]] = UNION {fl[t] : t \in LeavesOf(n, f)}
<1> DEFINE g == [i \in 1..(2 * n - 1) |-> fl[r[i]]]
<1>1. /\ n \in Nat
      /\ \A i \in 1..(2 * n - 1) : r[i] \in DOMAIN f /\ f[r[i]] = i
      /\ \A t \in DOMAIN f : f[t] \in 1..(2 * n - 1) /\ r[f[t]] = t
  <2>1. n \in Nat /\ NodeIds(n) = 1..(2 * n - 1)
    BY TokensOfNodes DEF NodeIds
  <2>2. /\ \A i \in NodeIds(n) : r[i] \in DOMAIN f /\ f[r[i]] = i
        /\ \A t \in DOMAIN f : f[t] \in NodeIds(n) /\ r[f[t]] = t
    BY TokensOfNodes
  <2> QED BY <2>1, <2>2
<1>2. g[1] = UNION {g[i] : i \in n..(2 * n - 1)}
  <2>1. \A m \in 1..(n - 1) : {m, 2 * m, 2 * m + 1} \subseteq 1..(2 * n - 1)
    BY <1>1
  <2>2. \A m \in 1..(n - 1) : g[m] = g[2 * m] \cup g[2 * m + 1]
    BY <2>1
  <2> HIDE DEF g
  <2> QED BY <1>1, <2>2, HeapUnion
<1>3. g[1] = fl[r[1]]
  BY <1>1
<1>4. \A b : (\E i \in n..(2 * n - 1) : b \in g[i]) <=> (\E t \in LeavesOf(n, f) : b \in fl[t])
  <2>1. \A i \in n..(2 * n - 1) : r[i] \in LeavesOf(n, f) /\ g[i] = fl[r[i]]
    BY <1>1 DEF LeavesOf
  <2>2. \A t \in LeavesOf(n, f) : f[t] \in n..(2 * n - 1) /\ g[f[t]] = fl[t]
    BY <1>1 DEF LeavesOf
  <2> HIDE DEF g
  <2> QED BY <2>1, <2>2
<1>5. \A b : b \in UNION {g[i] : i \in n..(2 * n - 1)} <=> b \in UNION {fl[t] : t \in LeavesOf(n, f)}
  <2> HIDE DEF g
  <2> QED BY <1>4
<1> HIDE DEF g
<1>6. UNION {g[i] : i \in n..(2 * n - 1)} = UNION {fl[t] : t \in LeavesOf(n, f)}
  BY <1>5
<1> QED BY <1>2, <1>3, <1>6

-----------------------------------------------------------------------------
\* A cache that accepts operations has the complete file of every leaf and no file of
\* a token that left the tree, whatever crashed or failed before (insert, update and
\* remove of _tree_cache.py write and unlink files between _mark_corrupted and
\* _mark_valid).
THEOREM FilesAlwaysMatchTree == Spec => []FilesMatchTree
<1>1. IInv /\ FileInv => FilesMatchTree
  <2> SUFFICES ASSUME IInv, FileInv, Usable PROVE FilesMatchTree
    BY DEF FilesMatchTree
  <2>1. FilesIn(leaf_num, phi_f, {})
    BY DEF FileInv, MemoryFiles, Whole, Usable, Intact
  <2>2. DOMAIN phi_f \subseteq Token
    BY DEF IInv, MemoryTree, TreeOK, TreeTypes
  <2> QED BY <2>1, <2>2 DEF FilesIn, FilesMatchTree, LeafTokens
<1> QED BY <1>1, SpecFileInv, PTL

\* Every internal node that execute_merge would skip holds the OR of its children.
THEOREM CleanNodesAreAlwaysCurrent == Spec => []CleanNodesAreCurrent
<1>1. FileInv => CleanNodesAreCurrent
  BY DEF FileInv, MemoryFiles, Whole, Usable, Intact, CleanIn, Current, CleanNodesAreCurrent
<1> QED BY <1>1, SpecFileInv, PTL

\* The loop of execute_merge finds every file it reads, complete: a child of the node
\* it recomputes is a leaf or was recomputed before, or is above no dirty leaf.
THEOREM MergeAlwaysReadsCompleteFiles == Spec => []MergeReadsCompleteFiles
<1>1. IInv /\ FileInv => MergeReadsCompleteFiles
  <2> SUFFICES ASSUME IInv, FileInv, pc = "merge_loop", NEW n \in dirty_node,
                      IsGreatest(n, dirty_node), NEW i \in {2 * n, 2 * n + 1}
               PROVE  IsFilter(file[phi_r[i]])
    BY DEF MergeReadsCompleteFiles
  <2>1. FilesIn(leaf_num, phi_f, {}) /\ LoopOK
    BY DEF FileInv, MemoryFiles
  <2>2. /\ leaf_num \in Nat
        /\ \A k \in NodeIds(leaf_num) : phi_r[k] \in Token /\ phi_r[k] \in DOMAIN phi_f /\ phi_f[phi_r[k]] = k
    BY TokensOfNodes DEF IInv, MemoryTree
  <2>3. n \in 1..(leaf_num - 1) /\ i \in NodeIds(leaf_num)
    BY <2>1, <2>2, IdsOfNode DEF LoopOK
  <2>4. CASE i >= leaf_num
    BY <2>1, <2>2, <2>3, <2>4 DEF FilesIn
  <2>5. CASE i < leaf_num
    <3>1. i \in 1..(leaf_num - 1) /\ i \notin dirty_node
      BY <2>2, <2>3, <2>5 DEF IsGreatest
    <3>2. Current(phi_r, i)
      BY <2>1, <3>1 DEF LoopOK
    <3>3. file[phi_r[2 * i]] \in Contents /\ file[phi_r[2 * i + 1]] \in Contents
      BY <2>2, <3>1, IdsOfNode DEF IInv, DataTypes
    <3>4. file[phi_r[i]] \in SUBSET Bit
      BY <3>2, <3>3 DEF Current, Contents, IsFilter
    <3> QED BY <3>4, MarkAssumption DEF IsFilter
  <2> QED BY <2>2, <2>3, <2>4, <2>5 DEF NodeIds
<1> QED BY <1>1, SpecFileInv, PTL

\* A cache with leaves and nothing dirty answers queries from the OR of exactly the
\* current leaves, in memory and in the root files: execute_merge loses no leaf and
\* keeps none that left, for any number of leaves and in any order of the operations,
\* errors, crashes and restarts before it.
THEOREM CleanRootIsAlwaysUnionOfLeaves == Spec => []CleanRootIsUnionOfLeaves
<1>1. IInv /\ FileInv => CleanRootIsUnionOfLeaves
  <2> SUFFICES ASSUME IInv, FileInv, Usable, leaf_num > 0, dirty_leaf = {}
               PROVE  root_node = LeafUnion /\ root_file = LeafUnion
    BY DEF CleanRootIsUnionOfLeaves
  <2>1. Intact(leaf_num, phi_f, phi_r, dirty_leaf) /\ root_node = root_file
    BY DEF FileInv, MemoryFiles, Whole, Usable
  <2>2. \A m \in 1..(leaf_num - 1) : Current(phi_r, m)
    BY <2>1, AncestorsOfNone DEF Intact, CleanIn
  <2>3. file[phi_r[1]] = UNION {file[t] : t \in LeavesOf(leaf_num, phi_f)}
    <3>1. TreeOK(leaf_num, phi_f, phi_r, dirty_leaf)
      BY DEF IInv, MemoryTree
    <3>2. \A m \in 1..(leaf_num - 1) :
              file[phi_r[m]] = file[phi_r[2 * m]] \cup file[phi_r[2 * m + 1]]
      BY <2>2 DEF Current
    <3> QED BY <3>1, <3>2, RootIsUnion
  <2>4. LeafTokens = LeavesOf(leaf_num, phi_f)
    BY DEF LeafTokens, LeavesOf
  <2> QED BY <2>1, <2>3, <2>4 DEF Intact, LeafUnion
<1> QED BY <1>1, SpecFileInv, PTL

-----------------------------------------------------------------------------
\* The refinement of TreeCacheAbs

Ops == {"insert_save", "insert_map", "update_save", "update_mark", "remove_map",
        "merge", "merge_loop", "mark_valid"}

\* What the operation that _mark_valid is about to complete did to the leaves.
Effect ==
    \/ LeafFilters = holders
    \/ \E t \in Token \ DOMAIN holders, c \in Filters :
           LeafFilters = [u \in DOMAIN holders \cup {t} |-> IF u = t THEN c ELSE holders[u]]
    \/ \E t \in DOMAIN holders, c \in Filters : LeafFilters = [holders EXCEPT ![t] = c]
    \/ \E t \in Token \cap DOMAIN holders :
           LeafFilters = [u \in DOMAIN holders \ {t} |-> holders[u]]

\* The members of the abstract cache are the leaves of the last _mark_valid: in memory
\* until the operation that runs changes them, and in a valid meta.json.
MembersOK ==
    /\ \/ pc \in Ops \ {"update_mark", "mark_valid"} \/ pc = "load_save"
       \/ pc = "idle" /\ ~corrupted
       => holders = LeafFilters
    /\ pc = "update_mark" =>
           /\ holders = [t \in LeafTokens |-> holders[t]]
           /\ \A t \in LeafTokens \ {arg.token} : holders[t] = file[t]
    /\ pc = "mark_valid" => Effect
    /\ meta.state = "valid" => holders = [t \in LeavesOf(meta.leaf_num, meta.phi_f) |-> file[t]]
    /\ meta.state = "absent" => holders = EmptyMap
    /\ pc \in {"insert_save", "insert_map", "update_save", "update_mark"} => arg.node \in Filters

\* The file of an internal root is never written without the root files.
RootFirst(n, r) == n > 1 /\ file[r[1]] # NoFile => root_file # NoFile

\* Where meta.json and the root files can be while operations and restarts run.
RootOK ==
    /\ pc \in Ops => meta.state = "dirty"
    /\ root_file = Torn =>
           pc \in {"down", "refused"} /\ meta.state = "valid" /\ meta.leaf_num > 0
    /\ pc = "load_save" =>
           /\ root_file = NoFile /\ meta.state = "valid" /\ ~corrupted
           /\ leaf_num = 1 /\ root_node = file[phi_r[1]]
    /\ pc = "down" => ~corrupted
    /\ RootFirst(leaf_num, phi_r)
    /\ meta.state = "valid" => RootFirst(meta.leaf_num, meta.phi_r)

AbsInv == MembersOK /\ RootOK

AbsStep == [Abs!Next]_Abs!vars

LEMMA AbsStutter ==
    ASSUME AbsStatus' = AbsStatus, holders' = holders, root_file' = root_file,
           Running' = Running, Running => root_node' = root_node
    PROVE  AbsStep
  BY DEF AbsStep, Abs!vars

LEMMA OperationIsUp ==
    /\ pc \in Ops \/ (pc = "idle" /\ ~corrupted) => AbsStatus = "up" /\ Running
    /\ (pc \in Ops \/ (pc = "idle" /\ ~corrupted) => AbsStatus = "up" /\ Running)'
  BY DEF Ops, AbsStatus, Running, Usable

\* Leaves that keep their place and their file keep their filter.
LEMMA SameLeaves ==
    ASSUME leaf_num' = leaf_num, phi_f' = phi_f, \A t \in LeafTokens : file'[t] = file[t]
    PROVE  LeafTokens' = LeafTokens /\ LeafFilters' = LeafFilters
  BY DEF LeafTokens, LeafFilters

\* The leaves of a tree, and how many there are.
LEMMA LeafCount ==
    ASSUME NEW n, NEW f, NEW r, NEW d, TreeOK(n, f, r, d)
    PROVE  /\ n = 0 => LeavesOf(n, f) = {}
           /\ n = 1 => LeavesOf(n, f) = {r[1]}
           /\ n > 0 => LeavesOf(n, f) # {}
           /\ n > 1 => \A t : LeavesOf(n, f) # {t}
<1>1. /\ n \in Nat /\ DOMAIN r = NodeIds(n)
      /\ \A i \in NodeIds(n) : r[i] \in DOMAIN f /\ f[r[i]] = i
      /\ \A t \in DOMAIN f : f[t] \in NodeIds(n) /\ r[f[t]] = t
  BY TokensOfNodes
<1>2. n = 0 => LeavesOf(n, f) = {}
  BY <1>1 DEF LeavesOf, NodeIds
<1>3. n = 1 => LeavesOf(n, f) = {r[1]}
  <2>1. n = 1 => NodeIds(n) = {1}
    BY DEF NodeIds
  <2> QED BY <1>1, <2>1 DEF LeavesOf
<1>4. n > 0 => r[n] \in LeavesOf(n, f)
  BY <1>1 DEF LeavesOf, NodeIds
<1>5. n > 1 => r[n + 1] \in LeavesOf(n, f) /\ r[n + 1] # r[n]
  BY <1>1 DEF LeavesOf, NodeIds
<1> QED BY <1>1, <1>2, <1>3, <1>4, <1>5

\* The tree in memory, and the root that no operation but SYNC writes.
LEMMA MemoryTokens ==
    ASSUME IInv
    PROVE  /\ TreeOK(leaf_num, phi_f, phi_r, dirty_leaf) /\ leaf_num \in Nat
           /\ file \in [Token -> Contents]
           /\ LeafTokens = LeavesOf(leaf_num, phi_f) /\ LeafTokens \subseteq DOMAIN phi_f
           /\ DOMAIN phi_f \subseteq Token
           /\ leaf_num > 1 =>
                  phi_r[1] \in DOMAIN phi_f /\ phi_r[1] \in Token /\ phi_r[1] \notin LeafTokens
<1>1. TreeOK(leaf_num, phi_f, phi_r, dirty_leaf)
  BY DEF IInv, MemoryTree
<1>2. /\ leaf_num \in Nat
      /\ \A i \in NodeIds(leaf_num) : phi_r[i] \in Token /\ phi_r[i] \in DOMAIN phi_f /\ phi_f[phi_r[i]] = i
      /\ \A t \in DOMAIN phi_f : t \in Token
  BY <1>1, TokensOfNodes
<1>3. leaf_num > 1 => 1 \in NodeIds(leaf_num)
  BY <1>2 DEF NodeIds
<1>4. leaf_num > 1 =>
          phi_r[1] \in DOMAIN phi_f /\ phi_r[1] \in Token /\ phi_r[1] \notin LeafTokens
  BY <1>2, <1>3 DEF LeafTokens
<1> QED BY <1>1, <1>2, <1>4 DEF LeafTokens, LeavesOf, IInv, DataTypes

\* Entering an operation changes nothing a caller can see.
LEMMA EnterRefines ==
    ASSUME IInv, AbsInv, NEW label, NEW a, Enter(label, a),
           label \in {"insert_save", "update_save", "remove_map", "merge"},
           label \in {"insert_save", "update_save"} => a.node \in Filters
    PROVE  AbsInv' /\ AbsStep
<1>1. /\ pc = "idle" /\ ~corrupted /\ meta'.state = "dirty" /\ pc' = label /\ arg' = a
      /\ UNCHANGED <<leaf_num, phi_f, phi_r, dirty_leaf, root_node, file, root_file, holders>>
  BY DEF Enter, MarkCorrupted, Meta, tree
<1>2. LeafFilters' = LeafFilters
  BY <1>1, SameLeaves
<1>3. MembersOK'
  BY <1>1, <1>2 DEF AbsInv, MembersOK, Ops
<1>4. RootOK'
  BY <1>1 DEF AbsInv, RootOK, RootFirst, Ops
<1>5. AbsStep
  BY <1>1, OperationIsUp, AbsStutter DEF Ops
<1> QED BY <1>3, <1>4, <1>5 DEF AbsInv

\* The new leaf is a leaf beside the ones before it.
LEMMA InsertRefines ==
    ASSUME IInv, FileInv, AbsInv, Insert PROVE AbsInv' /\ AbsStep
<1>0. /\ TreeOK(leaf_num, phi_f, phi_r, dirty_leaf) /\ leaf_num \in Nat
      /\ file \in [Token -> Contents]
      /\ LeafTokens \subseteq DOMAIN phi_f /\ DOMAIN phi_f \subseteq Token
      /\ leaf_num > 1 => phi_r[1] \in DOMAIN phi_f /\ phi_r[1] \in Token
  BY MemoryTokens
<1>1. ASSUME NEW c \in Filters, InsertBegin(c) PROVE AbsInv' /\ AbsStep
  BY <1>1, EnterRefines DEF InsertBegin
<1>2. ASSUME NEW token \in Token, InsertSave(token) PROVE AbsInv' /\ AbsStep
  <2>1. /\ pc = "insert_save" /\ pc' = "insert_map" /\ token \notin DOMAIN phi_f
        /\ arg'.node = arg.node /\ arg'.token = token
        /\ file' = [file EXCEPT ![token] = Torn]
        /\ UNCHANGED <<leaf_num, phi_f, phi_r, dirty_leaf, meta, root_node, root_file, holders>>
    BY <1>2 DEF InsertSave, tree, IInv, DataTypes
  <2>2. \A t \in Token : t # token => file'[t] = file[t]
    BY <1>0, <2>1
  <2>3. LeafFilters' = LeafFilters
    BY <1>0, <2>1, <2>2, SameLeaves
  <2>4. MembersOK'
    BY <2>1, <2>3 DEF AbsInv, MembersOK, RootOK, Ops
  <2>5. RootOK'
    BY <1>0, <2>1, <2>2 DEF AbsInv, RootOK, RootFirst, Ops
  <2>6. AbsStep
    BY <2>1, OperationIsUp, AbsStutter DEF Ops
  <2> QED BY <2>4, <2>5, <2>6 DEF AbsInv
<1>3. ASSUME InsertMap PROVE AbsInv' /\ AbsStep
  <2>1. /\ pc = "insert_map" /\ pc' = "mark_valid"
        /\ arg.token \in Token \ DOMAIN phi_f /\ arg.node \in Filters
        /\ file' = [file EXCEPT ![arg.token] = arg.node]
        /\ UNCHANGED <<meta, root_node, root_file, arg, holders>>
    BY <1>3 DEF InsertMap, IInv, ArgOK, AbsInv, MembersOK
  <2>2. /\ \A t \in Token : t # arg.token => file'[t] = file[t]
        /\ file'[arg.token] = arg.node
    BY <1>0, <2>1
  <2>3. /\ LeafTokens' = LeafTokens \cup {arg.token}
        /\ leaf_num' > 1 =>
               \/ leaf_num > 1 /\ phi_r'[1] = phi_r[1]
               \/ phi_r'[1] \in Token \ (DOMAIN phi_f \cup {arg.token})
    <3>1. CASE leaf_num = 0 /\ InsertFirst(arg.token)
      <4>1. leaf_num' = 1 /\ phi_f' = [t \in {arg.token} |-> 1]
        BY <3>1 DEF InsertFirst
      <4>2. LeafTokens = {}
        BY <3>1, <1>0, LeafCount DEF LeafTokens, LeavesOf
      <4> QED BY <4>1, <4>2 DEF LeafTokens
    <3>2. CASE leaf_num > 0 /\ \E t \in Token : InsertSplit(arg.token, t)
      <4>1. PICK t \in Token : InsertSplit(arg.token, t)
        BY <3>2
      <4>2. /\ leaf_num' = leaf_num + 1
            /\ phi_f[phi_r[leaf_num]] = leaf_num /\ phi_r[leaf_num] \in DOMAIN phi_f
            /\ t \notin DOMAIN phi_f /\ t # arg.token
            /\ DOMAIN phi_f' = DOMAIN phi_f \cup {arg.token, t}
            /\ phi_f'[arg.token] = 2 * leaf_num + 1 /\ phi_f'[t] = leaf_num
            /\ phi_f'[phi_r[leaf_num]] = 2 * leaf_num
            /\ \A u \in DOMAIN phi_f : u # phi_r[leaf_num] => phi_f'[u] = phi_f[u]
        BY <1>0, <2>1, <3>2, <4>1, InsertSplitMaps
      <4>3. /\ phi_r'[leaf_num] = t
            /\ \A i \in 1..(2 * leaf_num - 1) : i # leaf_num => phi_r'[i] = phi_r[i]
        BY <1>0, <2>1, <3>2, <4>1, InsertSplitMaps
      <4>4. /\ \A u \in DOMAIN phi_f : phi_f[u] \in Nat /\ phi_r[phi_f[u]] = u
            /\ arg.token \notin DOMAIN phi_f
        BY <1>0, <2>1, TokensOfNodes DEF TreeOK, TreeTypes
      <4>5. \A u \in DOMAIN phi_f : phi_f'[u] >= leaf_num + 1 <=> phi_f[u] >= leaf_num
        BY <1>0, <3>2, <4>2, <4>4
      <4>6. LeafTokens' = LeafTokens \cup {arg.token}
        <5>1. phi_f'[arg.token] >= leaf_num + 1 /\ ~(phi_f'[t] >= leaf_num + 1)
          BY <1>0, <4>2
        <5> QED BY <4>2, <4>5, <5>1 DEF LeafTokens
      <4>7. CASE leaf_num = 1
        BY <4>1, <4>2, <4>3, <4>6, <4>7
      <4>8. CASE leaf_num > 1
        BY <1>0, <4>3, <4>6, <4>8
      <4> QED BY <1>0, <3>2, <4>7, <4>8
    <3> QED BY <1>3, <3>1, <3>2 DEF InsertMap
  <2>4. MembersOK'
    <3>1. holders = LeafFilters /\ meta.state = "dirty"
      BY <2>1 DEF AbsInv, MembersOK, RootOK, Ops
    <3>2. DOMAIN holders = LeafTokens /\ \A u \in LeafTokens : holders[u] = file[u]
      BY <3>1 DEF LeafFilters
    <3>3. arg.token \notin LeafTokens /\ \A u \in LeafTokens : file'[u] = file[u]
      BY <1>0, <2>1, <2>2
    <3>4. LeafFilters' = [u \in DOMAIN holders \cup {arg.token} |->
                              IF u = arg.token THEN arg.node ELSE holders[u]]
      BY <2>2, <2>3, <3>2, <3>3 DEF LeafFilters
    <3>5. Effect'
      BY <2>1, <3>2, <3>3, <3>4 DEF Effect
    <3> QED BY <2>1, <3>1, <3>5 DEF MembersOK, Ops
  <2>5. RootOK'
    <3>1. leaf_num' > 1 /\ file'[phi_r'[1]] # NoFile => root_file # NoFile
      <4>1. \A t \in Token \ (DOMAIN phi_f \cup {arg.token}) : file[t] = NoFile
        BY <2>1 DEF FileInv, MemoryFiles, FilesIn
      <4>2. leaf_num > 1 /\ file[phi_r[1]] # NoFile => root_file # NoFile
        BY DEF AbsInv, RootOK, RootFirst
      <4> QED BY <1>0, <2>1, <2>2, <2>3, <4>1, <4>2
    <3> QED BY <2>1, <3>1 DEF AbsInv, RootOK, RootFirst, Ops
  <2>6. AbsStep
    BY <2>1, OperationIsUp, AbsStutter DEF Ops
  <2> QED BY <2>4, <2>5, <2>6 DEF AbsInv
<1> QED BY <1>1, <1>2, <1>3 DEF Insert

\* update replaces the filter of one leaf.
LEMMA UpdateRefines ==
    ASSUME IInv, AbsInv, Update PROVE AbsInv' /\ AbsStep
<1>0. /\ leaf_num \in Nat /\ file \in [Token -> Contents]
      /\ LeafTokens \subseteq DOMAIN phi_f /\ DOMAIN phi_f \subseteq Token
      /\ leaf_num > 1 => phi_r[1] \in Token /\ phi_r[1] \notin LeafTokens
  BY MemoryTokens
<1>1. ASSUME NEW t \in Token, NEW c \in Filters, UpdateBegin(t, c) PROVE AbsInv' /\ AbsStep
  BY <1>1, EnterRefines DEF UpdateBegin
<1>2. CASE UpdateSave
  <2>1. /\ pc = "update_save" /\ pc' = "update_mark" /\ arg.token \in LeafTokens
        /\ file' = [file EXCEPT ![arg.token] = Torn]
        /\ UNCHANGED <<leaf_num, phi_f, phi_r, dirty_leaf, meta, root_node, root_file, holders, arg>>
    BY <1>2 DEF UpdateSave, tree, IInv, ArgOK
  <2>2. \A t \in Token : t # arg.token => file'[t] = file[t]
    BY <1>0, <2>1
  <2>3. LeafTokens' = LeafTokens
    BY <2>1 DEF LeafTokens
  <2>4. MembersOK'
    <3>1. holders = LeafFilters /\ meta.state = "dirty" /\ arg.node \in Filters
      BY <2>1 DEF AbsInv, MembersOK, RootOK, Ops
    <3>2. /\ holders = [t \in LeafTokens |-> holders[t]]
          /\ \A t \in LeafTokens \ {arg.token} : holders[t] = file'[t]
      BY <1>0, <2>2, <3>1 DEF LeafFilters
    <3> QED BY <2>1, <2>3, <3>1, <3>2 DEF MembersOK, Ops
  <2>5. RootOK'
    BY <1>0, <2>1, <2>2 DEF AbsInv, RootOK, RootFirst, Ops
  <2>6. AbsStep
    BY <2>1, OperationIsUp, AbsStutter DEF Ops
  <2> QED BY <2>4, <2>5, <2>6 DEF AbsInv
<1>3. CASE UpdateMark
  <2>1. /\ pc = "update_mark" /\ pc' = "mark_valid" /\ arg.token \in LeafTokens
        /\ file' = [file EXCEPT ![arg.token] = arg.node]
        /\ UNCHANGED <<leaf_num, phi_f, phi_r, meta, root_node, root_file, holders, arg>>
    BY <1>3 DEF UpdateMark, IInv, ArgOK
  <2>2. (\A t \in Token : t # arg.token => file'[t] = file[t]) /\ file'[arg.token] = arg.node
    BY <1>0, <2>1
  <2>3. LeafTokens' = LeafTokens
    BY <2>1 DEF LeafTokens
  <2>4. MembersOK'
    <3>1. /\ holders = [t \in LeafTokens |-> holders[t]] /\ meta.state = "dirty" /\ arg.node \in Filters
          /\ \A t \in LeafTokens \ {arg.token} : holders[t] = file[t]
      BY <2>1 DEF AbsInv, MembersOK, RootOK, Ops
    <3>2. LeafFilters' = [t \in LeafTokens |-> file'[t]]
      BY <2>3 DEF LeafFilters
    <3>3. LeafFilters' = [holders EXCEPT ![arg.token] = arg.node]
      BY <1>0, <2>1, <2>2, <3>1, <3>2
    <3>4. Effect'
      BY <2>1, <3>1, <3>3, arg.token \in DOMAIN holders DEF Effect
    <3> QED BY <2>1, <3>1, <3>4 DEF MembersOK, Ops
  <2>5. RootOK'
    BY <1>0, <2>1, <2>2 DEF AbsInv, RootOK, RootFirst, Ops
  <2>6. AbsStep
    BY <2>1, OperationIsUp, AbsStutter DEF Ops
  <2> QED BY <2>4, <2>5, <2>6 DEF AbsInv
<1> QED BY <1>1, <1>2, <1>3 DEF Update

\* remove takes one leaf away, and moves others without changing their files.
LEMMA RemoveRefines ==
    ASSUME IInv, AbsInv, Remove PROVE AbsInv' /\ AbsStep
<1>0. /\ TreeOK(leaf_num, phi_f, phi_r, dirty_leaf) /\ leaf_num \in Nat
      /\ file \in [Token -> Contents]
      /\ LeafTokens \subseteq DOMAIN phi_f /\ DOMAIN phi_f \subseteq Token
      /\ leaf_num > 1 => phi_r[1] \in DOMAIN phi_f /\ phi_r[1] \in Token
  BY MemoryTokens
<1>1. ASSUME NEW t \in Token, RemoveBegin(t) PROVE AbsInv' /\ AbsStep
  BY <1>1, EnterRefines DEF RemoveBegin
<1>2. CASE RemoveMap
  <2> DEFINE del == arg.token
  <2>1. /\ pc = "remove_map" /\ pc' = "mark_valid" /\ del \in LeafTokens
        /\ UNCHANGED <<meta, root_node, root_file, holders, arg>>
    BY <1>2 DEF RemoveMap, IInv, ArgOK
  <2>2. /\ LeafTokens' = LeafTokens \ {del}
        /\ \A t \in LeafTokens' : file'[t] = file[t]
        /\ RootFirst(leaf_num, phi_r)'
    <3>0. RootFirst(leaf_num, phi_r)
      BY DEF AbsInv, RootOK
    <3>1. CASE leaf_num = 1 /\ RemoveLast
      <4>1. leaf_num' = 0 /\ DOMAIN phi_f' = {}
        BY <3>1 DEF RemoveLast, EmptyMap
      <4>2. LeafTokens = {phi_r[1]}
        BY <1>0, <3>1, LeafCount DEF LeafTokens, LeavesOf
      <4>3. LeafTokens' = {}
        BY <4>1 DEF LeafTokens
      <4> QED BY <2>1, <4>1, <4>2, <4>3 DEF RootFirst
    <3>2. CASE leaf_num > 1 /\ RemoveCollapse(del)
      <4>1. /\ leaf_num' = LastNode /\ LastNode \in Nat /\ leaf_num = LastNode + 1
            /\ InternalToken \in DOMAIN phi_f /\ phi_f[InternalToken] = LastNode
        <5>1. /\ leaf_num' = LastNode
              /\ InternalToken \in DOMAIN phi_f /\ phi_f[InternalToken] = LastNode
          BY <1>0, <2>1, <3>2, RemoveCollapseMaps
        <5> QED BY <1>0, <3>2, <5>1 DEF LastNode
      <4>2. /\ phi_f[del] \in leaf_num..(2 * LastNode + 1)
            /\ phi_f[RightToken] = 2 * LastNode + 1
            /\ phi_f[KeptToken(del)] \in {2 * LastNode, 2 * LastNode + 1}
            /\ phi_f'[KeptToken(del)] = LastNode
            /\ Moved(del) => phi_f'[RightToken] = phi_f[del]
        BY <1>0, <2>1, <3>2, RemoveCollapseMaps
      <4>3. /\ DOMAIN phi_f' = DOMAIN phi_f \ {InternalToken, del}
            /\ \A t \in DOMAIN phi_f' :
                  t # KeptToken(del) /\ (Moved(del) => t # RightToken) => phi_f'[t] = phi_f[t]
        BY <1>0, <2>1, <3>2, RemoveCollapseMaps
      <4>4. \A t \in DOMAIN phi_f : phi_f[t] \in Nat /\ phi_r[phi_f[t]] = t
        BY <1>0, TokensOfNodes DEF TreeOK, TreeTypes
      <4>5. ASSUME NEW t \in DOMAIN phi_f' PROVE phi_f'[t] >= LastNode <=> phi_f[t] >= leaf_num
        <5>1. phi_f[t] \in Nat /\ phi_f[t] # LastNode
          BY <4>1, <4>3, <4>4, <4>5
        <5>2. CASE t = KeptToken(del)
          BY <1>0, <3>2, <4>1, <4>2, <5>2
        <5>3. CASE t # KeptToken(del) /\ Moved(del) /\ t = RightToken
          BY <1>0, <3>2, <4>1, <4>2, <5>3
        <5>4. CASE t # KeptToken(del) /\ (Moved(del) => t # RightToken)
          BY <4>1, <4>3, <4>5, <5>1, <5>4
        <5> QED BY <5>2, <5>3, <5>4
      <4>6. LeafTokens' = LeafTokens \ {del}
        <5>1. InternalToken \notin LeafTokens
          BY <4>1 DEF LeafTokens
        <5> QED BY <4>1, <4>3, <4>5, <5>1 DEF LeafTokens
      <4>7. \A t \in Token \ {InternalToken, del} : file'[t] = file[t]
        <5>1. file' = [file EXCEPT ![del] = NoFile, ![InternalToken] = NoFile]
          BY <3>2 DEF RemoveCollapse, InternalToken, LastNode
        <5> QED BY <1>0, <5>1
      <4>8. \A t \in LeafTokens' : file'[t] = file[t]
        <5>1. InternalToken \notin LeafTokens
          BY <4>1 DEF LeafTokens
        <5> QED BY <1>0, <4>6, <4>7, <5>1
      <4>9. RootFirst(leaf_num, phi_r)'
        <5> SUFFICES ASSUME LastNode > 1, file'[phi_r'[1]] # NoFile PROVE root_file # NoFile
          BY <2>1, <4>1 DEF RootFirst
        <5>1. /\ DOMAIN phi_r = 1..(2 * LastNode + 1)
              /\ \A i \in 1..(2 * LastNode - 1) :
                    i # LastNode /\ (Moved(del) => i # phi_f[del]) => phi_r'[i] = phi_r[i]
          BY <1>0, <2>1, <3>2, RemoveCollapseMaps
        <5>2. phi_r'[1] = phi_r[1]
          BY <4>1, <4>2, <5>1
        <5>3. phi_f[phi_r[1]] = 1
          BY <1>0, <4>1, <5>1, 1 \in DOMAIN phi_r DEF TreeOK, ShapeOf
        <5>4. phi_r[1] \notin {InternalToken, del}
          BY <4>1, <4>2, <5>3
        <5> QED BY <1>0, <3>0, <3>2, <4>7, <5>2, <5>4 DEF RootFirst
      <4> QED BY <4>6, <4>8, <4>9
    <3> QED BY <1>2, <3>1, <3>2 DEF RemoveMap
  <2>3. MembersOK'
    <3>1. holders = LeafFilters /\ meta.state = "dirty"
      BY <2>1 DEF AbsInv, MembersOK, RootOK, Ops
    <3>2. LeafFilters' = [t \in LeafTokens' |-> file'[t]]
      BY DEF LeafFilters
    <3>3. DOMAIN holders = LeafTokens /\ LeafFilters' = [t \in DOMAIN holders \ {del} |-> holders[t]]
      BY <2>2, <3>1, <3>2 DEF LeafFilters
    <3>4. Effect'
      BY <1>0, <2>1, <3>3 DEF Effect
    <3> QED BY <1>0, <2>1, <3>1, <3>4 DEF MembersOK, Ops
  <2>4. RootOK'
    BY <2>1, <2>2 DEF AbsInv, RootOK, RootFirst, Ops
  <2>5. AbsStep
    BY <2>1, OperationIsUp, AbsStutter DEF Ops
  <2> QED BY <2>3, <2>4, <2>5 DEF AbsInv
<1> QED BY <1>1, <1>2 DEF Remove

\* A step that makes the union of the leaves the root, in memory and on disk, is a SYNC.
LEMMA PublishRefines ==
    ASSUME AbsStatus = "up", AbsStatus' = "up", Running', holders' = holders, holders = LeafFilters,
           root_node' = LeafUnion, root_file' # Torn,
           root_file' = IF LeafTokens = {} THEN NoFile ELSE LeafUnion
    PROVE  AbsStep
<1>1. Abs!UnionOf(holders) = LeafUnion /\ DOMAIN holders = LeafTokens
  BY DEF Abs!UnionOf, LeafFilters, LeafUnion
<1> QED BY <1>1 DEF AbsStep, Abs!Next, Abs!Sync

\* execute_merge publishes the union of the leaves once, and changes no leaf.
LEMMA MergeRefines ==
    ASSUME IInv, FileInv, AbsInv, Merge PROVE AbsInv' /\ AbsStep
<1>0. /\ TreeOK(leaf_num, phi_f, phi_r, dirty_leaf) /\ leaf_num \in Nat
      /\ file \in [Token -> Contents] /\ root_file \in Contents
      /\ LeafTokens = LeavesOf(leaf_num, phi_f)
      /\ leaf_num > 1 => phi_r[1] \in Token
  BY MemoryTokens DEF IInv, DataTypes
<1>1. CASE MergeBegin
  BY <1>1, EnterRefines DEF MergeBegin
<1>2. ASSUME pc \in {"merge", "merge_loop"}, pc' \in {"merge_loop", "mark_valid"},
             \A t \in LeafTokens : file'[t] = file[t],
             UNCHANGED <<leaf_num, phi_f, phi_r, meta, holders>>,
             root_file' # Torn, RootFirst(leaf_num, phi_r)'
      PROVE  AbsInv' /\ holders = LeafFilters /\ AbsStatus = "up" /\ AbsStatus' = "up" /\ Running /\ Running'
  <2>1. LeafFilters' = LeafFilters
    BY <1>2, SameLeaves
  <2>2. holders = LeafFilters /\ meta.state = "dirty"
    BY <1>2 DEF AbsInv, MembersOK, RootOK, Ops
  <2>3. MembersOK'
    BY <1>2, <2>1, <2>2 DEF MembersOK, Effect, Ops
  <2>4. RootOK'
    BY <1>2, <2>2 DEF RootOK, Ops
  <2> QED BY <1>2, <2>2, <2>3, <2>4, OperationIsUp DEF AbsInv, Ops
<1>3. root_file # Torn \/ ~(pc \in {"merge", "merge_loop"})
  BY DEF AbsInv, RootOK
<1>4. CASE MergeEmpty
  <2>1. /\ pc = "merge" /\ pc' = "mark_valid" /\ leaf_num = 0 /\ root_node' = {} /\ root_file' = NoFile
        /\ UNCHANGED <<leaf_num, phi_f, phi_r, meta, holders, file>>
    BY <1>4 DEF MergeEmpty, Publish
  <2>2. LeafTokens = {} /\ LeafUnion = {}
    BY <1>0, <2>1, LeafCount DEF LeafUnion
  <2>3. AbsInv' /\ holders = LeafFilters /\ AbsStatus = "up" /\ AbsStatus' = "up" /\ Running /\ Running'
    BY <1>2, <2>1, MarkAssumption DEF RootFirst
  <2> QED BY <2>1, <2>2, <2>3, PublishRefines, MarkAssumption
<1>5. CASE MergeSingle
  <2>1. /\ pc = "merge" /\ pc' = "mark_valid" /\ leaf_num = 1
        /\ UNCHANGED <<leaf_num, phi_f, phi_r, meta, holders, file>>
        /\ \/ /\ IsFilter(file[phi_r[1]])
              /\ root_node' = file[phi_r[1]] /\ root_file' = file[phi_r[1]]
           \/ UNCHANGED <<root_node, root_file>>
    BY <1>5 DEF MergeSingle, Publish
  <2>2. LeafTokens = {phi_r[1]} /\ LeafUnion = file[phi_r[1]]
    BY <1>0, <2>1, LeafCount DEF LeafUnion
  <2>3. root_file' # Torn
    BY <1>3, <2>1 DEF IsFilter
  <2>4. AbsInv' /\ holders = LeafFilters /\ AbsStatus = "up" /\ AbsStatus' = "up" /\ Running /\ Running'
    BY <1>2, <2>1, <2>3 DEF RootFirst
  <2>5. CASE UNCHANGED <<root_node, root_file>>
    BY <2>1, <2>4, <2>5, AbsStutter
  <2>6. CASE root_node' = file[phi_r[1]] /\ root_file' = file[phi_r[1]]
    BY <2>1, <2>2, <2>3, <2>4, <2>6, PublishRefines
  <2> QED BY <2>1, <2>4, <2>5, <2>6
<1>6. CASE MergeCollect
  <2>1. /\ pc = "merge" /\ pc' = "merge_loop"
        /\ UNCHANGED <<leaf_num, phi_f, phi_r, meta, holders, file, root_node, root_file>>
    BY <1>6 DEF MergeCollect, disk
  <2>2. RootFirst(leaf_num, phi_r)'
    BY <2>1 DEF AbsInv, RootOK, RootFirst
  <2> QED BY <1>2, <1>3, <2>1, <2>2, AbsStutter
<1>7. ASSUME NEW n \in 1..(leaf_num - 1), MergeNode(n) PROVE AbsInv' /\ AbsStep
  <2> DEFINE lc == file[phi_r[2 * n]]
             rc == file[phi_r[2 * n + 1]]
  <2>1. /\ pc = "merge_loop" /\ pc' = "merge_loop" /\ IsGreatest(n, dirty_node)
        /\ IsFilter(lc) /\ IsFilter(rc)
        /\ file' = [file EXCEPT ![phi_r[n]] = lc \cup rc]
        /\ IF n = 1 THEN root_node' = lc \cup rc /\ root_file' = lc \cup rc
                    ELSE UNCHANGED <<root_node, root_file>>
        /\ dirty_node' = dirty_node \ {n}
        /\ UNCHANGED <<leaf_num, phi_f, phi_r, dirty_leaf, meta, holders>>
    BY <1>7 DEF MergeNode, Publish, tree
  <2>2. /\ n \in NodeIds(leaf_num) /\ 2 * n \in NodeIds(leaf_num) /\ 2 * n + 1 \in NodeIds(leaf_num)
        /\ n # 1 => 1 \in NodeIds(leaf_num)
        /\ \A i \in NodeIds(leaf_num) : phi_r[i] \in Token /\ phi_f[phi_r[i]] = i
    BY <1>0, TokensOfNodes, IdsOfNode DEF NodeIds
  <2>3. lc \cup rc \in SUBSET Bit
    <3>1. lc \in SUBSET Bit /\ rc \in SUBSET Bit
      BY <1>0, <2>1, <2>2 DEF Contents, IsFilter
    <3> HIDE DEF lc, rc
    <3> QED BY <3>1
  <2> HIDE DEF lc, rc
  <2>4. \A t \in LeafTokens : file'[t] = file[t]
    <3>1. phi_r[n] \notin LeafTokens
      BY <1>0, <2>2 DEF LeafTokens
    <3>2. LeafTokens \subseteq Token
      BY MemoryTokens
    <3> QED BY <1>0, <2>1, <3>1, <3>2
  <2>5. root_file' # Torn
    BY <1>3, <2>1, <2>3, MarkAssumption
  <2>6. RootFirst(leaf_num, phi_r)'
    <3>1. CASE n = 1
      BY <2>1, <2>3, <3>1, MarkAssumption DEF RootFirst
    <3>2. CASE n # 1
      <4>1. phi_r[1] \in Token /\ phi_r[1] # phi_r[n]
        BY <2>2, <3>2
      <4>2. file'[phi_r[1]] = file[phi_r[1]]
        BY <1>0, <2>1, <4>1
      <4> QED BY <2>1, <3>2, <4>2 DEF AbsInv, RootOK, RootFirst
    <3> QED BY <3>1, <3>2
  <2>7. AbsInv' /\ holders = LeafFilters /\ AbsStatus = "up" /\ AbsStatus' = "up" /\ Running /\ Running'
    BY <1>2, <2>1, <2>4, <2>5, <2>6
  <2>8. CASE n # 1
    BY <2>1, <2>7, <2>8, AbsStutter
  <2>9. CASE n = 1
    <3>1. LoopOK' /\ 1 \notin dirty_node'
      <4>1. FileInv'
        BY <1>7, NextFileInv DEF Next, Merge
      <4> QED BY <2>1, <2>9, <4>1 DEF FileInv, MemoryFiles
    <3>2. dirty_node' = {}
      <4>1. \A m \in dirty_node : m \in 1..(leaf_num - 1)
        <5>1. LoopOK
          BY <2>1 DEF FileInv, MemoryFiles
        <5> QED BY <5>1 DEF LoopOK
      <4> QED BY <1>0, <2>1, <2>9, <4>1 DEF IsGreatest
    <3>3. \A m \in 1..(leaf_num - 1) :
              file'[phi_r[m]] = file'[phi_r[2 * m]] \cup file'[phi_r[2 * m + 1]]
      BY <2>1, <3>1, <3>2 DEF LoopOK, Current
    <3>4. file'[phi_r[1]] = UNION {file'[t] : t \in LeavesOf(leaf_num, phi_f)}
      BY <1>0, <2>9, <3>3, RootIsUnion, leaf_num > 0
    <3>5. file'[phi_r[1]] = LeafUnion
      BY <1>0, <2>4, <3>4 DEF LeafUnion
    <3>6. root_node' = LeafUnion /\ root_file' = LeafUnion
      BY <2>1, <3>1, <3>5 DEF LoopOK
    <3>7. LeafTokens # {}
      BY <1>0, <2>9, LeafCount, leaf_num > 0
    <3> QED BY <2>1, <2>5, <2>7, <3>6, <3>7, PublishRefines
  <2> QED BY <2>7, <2>8, <2>9
<1>8. CASE MergeEnd
  <2>1. /\ pc = "merge_loop" /\ pc' = "mark_valid"
        /\ UNCHANGED <<leaf_num, phi_f, phi_r, meta, holders, file, root_node, root_file>>
    BY <1>8 DEF MergeEnd, tree, disk
  <2>2. RootFirst(leaf_num, phi_r)'
    BY <2>1 DEF AbsInv, RootOK, RootFirst
  <2> QED BY <1>2, <1>3, <2>1, <2>2, AbsStutter
<1> QED BY <1>1, <1>4, <1>5, <1>6, <1>7, <1>8 DEF Merge

\* _mark_valid is where the change that an operation made to the leaves takes effect.
LEMMA MarkValidRefines ==
    ASSUME IInv, AbsInv, MarkValid PROVE AbsInv' /\ AbsStep
<1>1. /\ pc = "mark_valid" /\ pc' = "idle" /\ meta' = Meta("valid") /\ corrupted' = FALSE
      /\ holders' = LeafFilters
      /\ UNCHANGED <<leaf_num, phi_f, phi_r, root_node, file, root_file>>
  BY DEF MarkValid, tree
<1>2. LeafFilters' = LeafFilters
  BY <1>1, SameLeaves
<1>3. /\ meta'.state = "valid" /\ meta'.leaf_num = leaf_num /\ meta'.phi_f = phi_f
      /\ meta'.phi_r = phi_r
  BY <1>1 DEF Meta
<1>4. LeafFilters = [t \in LeavesOf(leaf_num, phi_f) |-> file[t]]
  BY DEF LeafFilters, LeafTokens, LeavesOf
<1>5. LeavesOf(meta'.leaf_num, meta'.phi_f) = LeavesOf(leaf_num, phi_f)
  BY <1>3 DEF LeavesOf
<1>6. MembersOK'
  BY <1>1, <1>2, <1>3, <1>4, <1>5 DEF MembersOK, Ops
<1>7. RootOK'
  BY <1>1, <1>3 DEF AbsInv, RootOK, RootFirst, Ops
<1>8. AbsStep
  <2>1. AbsStatus = "up" /\ AbsStatus' = "up" /\ Running /\ Running'
    BY <1>1, OperationIsUp DEF Ops
  <2>2. Effect
    BY <1>1 DEF AbsInv, MembersOK
  <2>3. CASE LeafFilters = holders
    BY <1>1, <2>1, <2>3, AbsStutter
  <2>4. ASSUME NEW t \in Token \ DOMAIN holders, NEW c \in Filters,
               LeafFilters = [u \in DOMAIN holders \cup {t} |-> IF u = t THEN c ELSE holders[u]]
        PROVE  AbsStep
    BY <1>1, <2>1, <2>4 DEF AbsStep, Abs!Next, Abs!Join
  <2>5. ASSUME NEW t \in DOMAIN holders, NEW c \in Filters,
               LeafFilters = [holders EXCEPT ![t] = c]
        PROVE  AbsStep
    <3>1. t \in Token
      BY <2>5, MemoryTokens DEF LeafFilters
    <3> QED BY <1>1, <2>1, <2>5, <3>1 DEF AbsStep, Abs!Next, Abs!Update
  <2>6. ASSUME NEW t \in Token \cap DOMAIN holders,
               LeafFilters = [u \in DOMAIN holders \ {t} |-> holders[u]]
        PROVE  AbsStep
    BY <1>1, <2>1, <2>6 DEF AbsStep, Abs!Next, Abs!Quit
  <2> QED BY <2>2, <2>3, <2>4, <2>5, <2>6 DEF Effect
<1> QED BY <1>6, <1>7, <1>8 DEF AbsInv

\* An error or a crash breaks the cache, unless the process stops between operations.
LEMMA FailRefines ==
    ASSUME IInv, AbsInv, Fail PROVE AbsInv' /\ AbsStep
<1>1. CASE RaiseIOError
  <2>1. /\ pc \in Ops /\ pc' = "idle" /\ corrupted' = TRUE
        /\ meta' = meta \/ meta'.state = "malformed"
        /\ file' = file \/ (pc = "insert_map" /\ file' = [file EXCEPT ![arg.token] = NoFile])
        /\ root_node' = root_node \/ root_node' \in Memory
        /\ UNCHANGED <<leaf_num, phi_f, phi_r, root_file, holders>>
    BY <1>1 DEF RaiseIOError, RootLeft, Memory, EmptyMeta, Ops, tree
  <2>2. meta'.state \in {"dirty", "malformed"} /\ root_file # Torn
    BY <2>1 DEF AbsInv, RootOK, Ops
  <2>3. RootFirst(leaf_num, phi_r)'
    <3>1. leaf_num > 1 => phi_r[1] \in Token
      BY MemoryTokens
    <3>2. leaf_num > 1 /\ file'[phi_r[1]] # NoFile => file[phi_r[1]] # NoFile
      BY <2>1, <3>1 DEF IInv, DataTypes
    <3> QED BY <2>1, <3>2 DEF AbsInv, RootOK, RootFirst
  <2>4. AbsInv'
    BY <2>1, <2>2, <2>3 DEF AbsInv, MembersOK, RootOK, Ops
  <2>5. AbsStatus = "up" /\ AbsStatus' = "broken" /\ Running /\ Running'
    BY <2>1, <2>2, OperationIsUp DEF AbsStatus, Running, Usable
  <2>6. AbsStep
    BY <2>1, <2>5 DEF AbsStep, Abs!Next, Abs!Break
  <2> QED BY <2>4, <2>6
<1>2. CASE RaiseMetaError
  <2>1. /\ pc = "idle" /\ ~corrupted /\ pc' = "idle" /\ corrupted' = TRUE
        /\ meta' = meta \/ meta' = EmptyMeta("malformed")
        /\ UNCHANGED <<leaf_num, phi_f, phi_r, root_node, file, root_file, holders>>
    BY <1>2 DEF RaiseMetaError, tree
  <2>2. AbsStatus = "up" /\ Running /\ Running' /\ root_file # Torn
    BY <2>1, OperationIsUp DEF Running, AbsInv, RootOK
  <2>3. CASE meta' = meta
    <3>1. meta.state \in {"absent", "valid"} /\ AbsStatus' = "refusing"
      BY <2>1, <2>2, <2>3 DEF AbsStatus, Running, Usable, IInv, MetaAgrees
    <3>2. LeavesOf(meta.leaf_num, meta.phi_f)' = LeavesOf(meta.leaf_num, meta.phi_f)
      BY <2>3 DEF LeavesOf
    <3>3. AbsInv'
      BY <2>1, <2>3, <3>2 DEF AbsInv, MembersOK, RootOK, RootFirst, Ops
    <3>4. AbsStep
      BY <2>1, <2>2, <3>1 DEF AbsStep, Abs!Next, Abs!Refuse
    <3> QED BY <3>3, <3>4
  <2>4. CASE meta' = EmptyMeta("malformed")
    <3>1. meta'.state = "malformed" /\ AbsStatus' = "broken"
      BY <2>1, <2>4 DEF AbsStatus, Running, Usable, EmptyMeta
    <3>2. AbsInv'
      BY <2>1, <2>2, <3>1 DEF AbsInv, MembersOK, RootOK, RootFirst, Ops
    <3>3. AbsStep
      BY <2>1, <2>2, <3>1 DEF AbsStep, Abs!Next, Abs!Break
    <3> QED BY <3>2, <3>3
  <2> QED BY <2>1, <2>3, <2>4
<1>3. CASE Crash
  <2>1. /\ pc \in Ops \cup {"idle", "load_save"} /\ pc' = "down"
        /\ leaf_num' = 0 /\ corrupted' = FALSE
        /\ root_file' = root_file \/ (pc = "load_save" /\ root_file' = Torn)
        /\ meta' = meta \/ ((Usable \/ pc = "mark_valid") /\ meta'.state = "malformed")
        /\ UNCHANGED <<file, holders>>
    BY <1>3 DEF Crash, IInv, DataTypes, PcValues, Ops, EmptyMeta
  <2>2. /\ pc = "load_save" =>
               root_file = NoFile /\ meta' = meta /\ meta.state = "valid" /\ meta.leaf_num = 1
        /\ root_file # Torn /\ ~Running'
    BY <2>1 DEF AbsInv, RootOK, IInv, MetaAgrees, Ops, Running, Usable
  <2>3. MembersOK'
    <3>1. meta' = meta => LeavesOf(meta.leaf_num, meta.phi_f)' = LeavesOf(meta.leaf_num, meta.phi_f)
      BY DEF LeavesOf
    <3> QED BY <2>1, <3>1 DEF AbsInv, MembersOK, Ops
  <2>4. RootOK'
    BY <2>1, <2>2, MarkAssumption DEF AbsInv, RootOK, RootFirst, Ops
  <2>5. CASE AbsStatus' = "broken"
    <3>1. /\ AbsStatus \in {"up", "broken", "down"}
          /\ (IF root_file = Torn THEN NoFile ELSE root_file)' = root_file
      <4>1. AbsStatus # "refusing"
        BY <2>1, <2>2, <2>5, MarkAssumption DEF AbsStatus, Running, Usable
      <4> QED BY <2>1, <2>2, <4>1 DEF AbsStatus
    <3> QED BY <2>1, <2>2, <2>3, <2>4, <2>5, <3>1 DEF AbsInv, AbsStep, Abs!Next, Abs!Die
  <2>6. CASE AbsStatus' # "broken"
    <3>1. AbsStatus' = "down" /\ meta' = meta /\ meta.state \in {"absent", "valid"} /\ root_file' = root_file
      BY <2>1, <2>2, <2>6 DEF AbsStatus, Running
    <3>2. CASE pc = "load_save"
      <4>1. AbsStatus = "down" /\ ~Running /\ Running' = Running
        BY <2>1, <2>2, <3>1, <3>2 DEF AbsStatus, Running
      <4> QED BY <2>1, <2>2, <2>3, <2>4, <3>1, <4>1, AbsStutter DEF AbsInv
    <3>3. CASE pc # "load_save"
      <4>1. pc = "idle"
        BY <2>1, <3>1, <3>3 DEF AbsInv, RootOK, Ops
      <4>2. AbsStatus \in {"up", "refusing"}
        BY <2>2, <3>1, <4>1 DEF AbsStatus, Running
      <4> QED BY <2>1, <2>2, <2>3, <2>4, <3>1, <4>2 DEF AbsInv, AbsStep, Abs!Next, Abs!Stop
    <3> QED BY <3>2, <3>3
  <2> QED BY <2>5, <2>6
<1> QED BY <1>1, <1>2, <1>3 DEF Fail

\* The constructor serves the aggregate on disk, or what TreeCacheAbs lists instead.
LEMMA LoadRefines ==
    ASSUME IInv, FileInv, AbsInv, Load PROVE AbsInv' /\ AbsStep
<1>1. CASE LoadNew
  <2>1. /\ pc = "down" /\ pc' = "idle" /\ meta.state = "absent" /\ root_file = NoFile
        /\ root_node' \in Memory
        /\ UNCHANGED <<leaf_num, phi_f, phi_r, corrupted, meta, file, root_file, holders>>
    BY <1>1 DEF LoadNew, tree, disk
  <2>2. /\ leaf_num = 0 /\ phi_f = EmptyMap /\ holders = EmptyMap /\ ~corrupted
    BY <2>1 DEF FileInv, MemoryFiles, AbsInv, MembersOK, RootOK
  <2>3. LeafFilters' = EmptyMap
    BY <2>1, <2>2 DEF LeafFilters, LeafTokens, EmptyMap
  <2>4. AbsInv'
    BY <2>1, <2>2, <2>3, MarkAssumption DEF AbsInv, MembersOK, RootOK, RootFirst, Ops
  <2>5. AbsStatus = "down" /\ AbsStatus' = "up" /\ Running'
    BY <2>1, <2>2, MarkAssumption DEF AbsStatus, Running, Usable
  <2>6. DOMAIN holders = {} /\ ~Abs!OnlyOne
    BY <2>2 DEF EmptyMap, Abs!OnlyOne
  <2> QED BY <2>1, <2>2, <2>4, <2>5, <2>6 DEF AbsStep, Abs!Next, Abs!Start, Abs!StartAggregates
<1>2. ASSUME pc = "down", Acceptable(meta), LoadTree, pc' = "idle", root_file # Torn
      PROVE  /\ AbsInv' /\ AbsStatus = "down" /\ AbsStatus' = "up" /\ Running'
             /\ UNCHANGED <<root_file, holders>>
  <2>1. /\ leaf_num' = meta.leaf_num /\ phi_f' = meta.phi_f /\ phi_r' = meta.phi_r
        /\ corrupted' = FALSE /\ meta.state = "valid"
        /\ UNCHANGED <<meta, file, root_file, holders>>
    BY <1>2 DEF LoadTree, Acceptable
  <2>2. holders = [t \in LeavesOf(meta.leaf_num, meta.phi_f) |-> file[t]]
    BY <2>1 DEF AbsInv, MembersOK
  <2>3. LeafFilters' = holders
    BY <2>1, <2>2 DEF LeafFilters, LeafTokens, LeavesOf
  <2>4. LeavesOf(meta.leaf_num, meta.phi_f)' = LeavesOf(meta.leaf_num, meta.phi_f)
    BY <2>1 DEF LeavesOf
  <2>5. MembersOK'
    BY <1>2, <2>1, <2>2, <2>3, <2>4 DEF MembersOK, Ops
  <2>6. RootOK'
    BY <1>2, <2>1 DEF AbsInv, RootOK, RootFirst, Ops
  <2> QED BY <1>2, <2>1, <2>5, <2>6 DEF AbsInv, AbsStatus, Running, Usable
<1>3. ASSUME Acceptable(meta)
      PROVE  /\ meta.leaf_num \in Nat
             /\ meta.leaf_num = 0 => DOMAIN holders = {} /\ ~Abs!OnlyOne
             /\ meta.leaf_num > 0 => DOMAIN holders # {}
             /\ meta.leaf_num > 1 => ~Abs!OnlyOne
  <2>1. DOMAIN holders = LeavesOf(meta.leaf_num, meta.phi_f)
    BY <1>3 DEF Acceptable, AbsInv, MembersOK
  <2>2. TreeOK(meta.leaf_num, meta.phi_f, meta.phi_r, meta.dirty_leaf) /\ meta.leaf_num \in Nat
    BY DEF IInv, MetaTree, TreeOK, TreeTypes
  <2> QED BY <2>1, <2>2, LeafCount DEF Abs!OnlyOne
<1>4. CASE LoadEmpty
  <2>1. /\ pc = "down" /\ Acceptable(meta) /\ LoadTree /\ pc' = "idle" /\ meta.leaf_num = 0
        /\ root_node' \in Memory
    BY <1>4 DEF LoadEmpty
  <2>2. root_file # Torn
    BY <1>3, <2>1 DEF AbsInv, RootOK
  <2>3. /\ AbsInv' /\ AbsStatus = "down" /\ AbsStatus' = "up" /\ Running'
        /\ UNCHANGED <<root_file, holders>>
    BY <1>2, <2>1, <2>2
  <2>4. Abs!StartAggregates = Memory /\ ~Abs!OnlyOne
    BY <1>3, <2>1 DEF Abs!StartAggregates
  <2> QED BY <2>1, <2>3, <2>4 DEF AbsStep, Abs!Next, Abs!Start
<1>5. CASE LoadRootFiles
  <2>1. /\ pc = "down" /\ Acceptable(meta) /\ LoadTree /\ pc' = "idle" /\ meta.leaf_num > 0
        /\ root_node' = root_file /\ IsFilter(root_file)
    BY <1>5 DEF LoadRootFiles
  <2>2. root_file # Torn /\ root_file # NoFile
    BY <2>1 DEF IsFilter
  <2>3. /\ AbsInv' /\ AbsStatus = "down" /\ AbsStatus' = "up" /\ Running'
        /\ UNCHANGED <<root_file, holders>>
    BY <1>2, <2>1, <2>2
  <2>4. Abs!StartAggregates = {root_file}
    BY <1>3, <2>1, <2>2 DEF Abs!StartAggregates
  <2> QED BY <2>1, <2>2, <2>3, <2>4 DEF AbsStep, Abs!Next, Abs!Start
<1>6. CASE LoadNodeOne
  <2>1. /\ pc = "down" /\ pc' = "load_save" /\ meta.state = "valid" /\ meta.leaf_num > 0
        /\ root_file = NoFile /\ file[meta.phi_r[1]] # NoFile
        /\ leaf_num' = meta.leaf_num /\ phi_f' = meta.phi_f /\ phi_r' = meta.phi_r
        /\ corrupted' = FALSE /\ root_node' = file[meta.phi_r[1]]
        /\ UNCHANGED <<meta, file, root_file, holders>>
    BY <1>6 DEF LoadNodeOne, LoadTree, RootSource, Acceptable
  <2>2. meta.leaf_num = 1
    BY <1>3, <1>6, <2>1 DEF LoadNodeOne, AbsInv, RootOK, RootFirst
  <2>3. holders = [t \in LeavesOf(meta.leaf_num, meta.phi_f) |-> file[t]]
    BY <2>1 DEF AbsInv, MembersOK
  <2>4. LeafFilters' = holders
    BY <2>1, <2>3 DEF LeafFilters, LeafTokens, LeavesOf
  <2>5. LeavesOf(meta.leaf_num, meta.phi_f)' = LeavesOf(meta.leaf_num, meta.phi_f)
    BY <2>1 DEF LeavesOf
  <2>6. MembersOK'
    BY <2>1, <2>3, <2>4, <2>5 DEF MembersOK, Ops
  <2>7. RootOK'
    BY <2>1, <2>2, MarkAssumption DEF RootOK, RootFirst, Ops
  <2>8. AbsStatus = "down" /\ AbsStatus' = "down" /\ ~Running /\ Running' = Running
    BY <2>1, MarkAssumption DEF AbsStatus, Running
  <2> QED BY <2>1, <2>6, <2>7, <2>8, AbsStutter DEF AbsInv
<1>7. CASE LoadSave
  <2>1. /\ pc = "load_save" /\ pc' = "idle" /\ root_file' = root_node
        /\ UNCHANGED <<leaf_num, phi_f, phi_r, corrupted, root_node, meta, file, holders>>
    BY <1>7 DEF LoadSave, tree
  <2>2. /\ root_file = NoFile /\ meta.state = "valid" /\ ~corrupted
        /\ leaf_num = 1 /\ root_node = file[phi_r[1]] /\ holders = LeafFilters
        /\ meta.leaf_num = 1
    BY <2>1 DEF AbsInv, RootOK, MembersOK, Ops, IInv, MetaAgrees
  <2>3. root_node \in SUBSET Bit /\ root_node # Torn
    BY <2>1, MarkAssumption DEF IInv, ArgOK
  <2>4. LeafFilters' = LeafFilters
    BY <2>1, SameLeaves
  <2>5. LeavesOf(meta.leaf_num, meta.phi_f)' = LeavesOf(meta.leaf_num, meta.phi_f)
    BY <2>1 DEF LeavesOf
  <2>6. MembersOK'
    BY <2>1, <2>2, <2>4, <2>5 DEF AbsInv, MembersOK, Ops
  <2>7. RootOK'
    BY <2>1, <2>2, <2>3 DEF RootOK, RootFirst, Ops
  <2>8. DOMAIN holders = {phi_r[1]} /\ Abs!UnionOf(holders) = root_node
    <3>1. LeafTokens = {phi_r[1]}
      BY <2>2, MemoryTokens, LeafCount
    <3> QED BY <2>2, <3>1 DEF LeafFilters, Abs!UnionOf
  <2>9. Abs!StartAggregates = {root_node} /\ Abs!OnlyOne
    <3>1. Abs!OnlyOne
      BY <2>2, <2>8, MemoryTokens DEF LeafFilters, Abs!OnlyOne
    <3> QED BY <2>2, <2>8, <3>1, MarkAssumption DEF Abs!StartAggregates
  <2>10. AbsStatus = "down" /\ AbsStatus' = "up" /\ Running'
    BY <2>1, <2>2, MarkAssumption DEF AbsStatus, Running, Usable
  <2> QED BY <2>1, <2>2, <2>3, <2>6, <2>7, <2>8, <2>9, <2>10, MarkAssumption
          DEF AbsInv, AbsStep, Abs!Next, Abs!Start
<1>8. CASE LoadNoRoot
  <2>1. /\ pc = "down" /\ Acceptable(meta) /\ LoadTree /\ pc' = "idle" /\ meta.leaf_num > 1
        /\ root_node' \in Memory /\ root_file = NoFile
    BY <1>8 DEF LoadNoRoot, RootSource
  <2>2. /\ AbsInv' /\ AbsStatus = "down" /\ AbsStatus' = "up" /\ Running'
        /\ UNCHANGED <<root_file, holders>>
    BY <1>2, <2>1, MarkAssumption
  <2>3. Abs!StartAggregates = Memory /\ ~Abs!OnlyOne
    BY <1>3, <2>1, MarkAssumption DEF Abs!StartAggregates
  <2> QED BY <2>1, <2>2, <2>3, MarkAssumption DEF AbsStep, Abs!Next, Abs!Start
<1>9. CASE LoadRefuse
  <2>1. /\ pc = "down" /\ pc' = "refused"
        /\ UNCHANGED <<leaf_num, phi_f, phi_r, corrupted, root_node, meta, file, root_file, holders>>
    BY <1>9 DEF LoadRefuse, tree, disk
  <2>2. LeavesOf(meta.leaf_num, meta.phi_f)' = LeavesOf(meta.leaf_num, meta.phi_f)
    BY <2>1 DEF LeavesOf
  <2>3. MembersOK'
    BY <2>1, <2>2 DEF AbsInv, MembersOK, Ops
  <2>4. RootOK'
    BY <2>1 DEF AbsInv, RootOK, RootFirst, Ops
  <2>5. AbsStatus \in {"down", "broken"} /\ AbsStatus' = "broken" /\ ~Running'
    BY <2>1 DEF AbsStatus, Running
  <2> QED BY <2>1, <2>3, <2>4, <2>5 DEF AbsInv, AbsStep, Abs!Next, Abs!Die
<1> QED BY <1>1, <1>4, <1>5, <1>6, <1>7, <1>8, <1>9 DEF Load

LEMMA NextRefines == IInv /\ FileInv /\ AbsInv /\ [Next]_vars => AbsInv' /\ AbsStep
<1> SUFFICES ASSUME IInv, FileInv, AbsInv, [Next]_vars PROVE AbsInv' /\ AbsStep
  OBVIOUS
<1>1. CASE Next
  BY <1>1, InsertRefines, UpdateRefines, RemoveRefines, MergeRefines, MarkValidRefines,
     FailRefines, LoadRefines DEF Next
<1>2. CASE UNCHANGED vars
  <2>1. UNCHANGED <<leaf_num, phi_f, phi_r, corrupted, root_node, meta, file, root_file,
                    pc, arg, holders>>
    BY <1>2 DEF vars, tree, disk
  <2>2. LeafFilters' = LeafFilters /\ LeafTokens' = LeafTokens
    BY <2>1, SameLeaves
  <2>3. Effect' <=> Effect
    BY <2>1, <2>2 DEF Effect
  <2>4. LeavesOf(meta.leaf_num, meta.phi_f)' = LeavesOf(meta.leaf_num, meta.phi_f)
    BY <2>1 DEF LeavesOf
  <2>5. MembersOK'
    BY <2>1, <2>2, <2>3, <2>4 DEF AbsInv, MembersOK, Ops
  <2>6. RootOK'
    BY <2>1 DEF AbsInv, RootOK, RootFirst, Ops
  <2>7. AbsStatus' = AbsStatus /\ Running' = Running
    BY <2>1 DEF AbsStatus, Running, Usable
  <2> QED BY <2>1, <2>5, <2>6, <2>7, AbsStutter DEF AbsInv
<1> QED BY <1>1, <1>2

LEMMA InitRefines == Init => AbsInv /\ Abs!Init
<1> SUFFICES ASSUME Init PROVE AbsInv /\ Abs!Init
  OBVIOUS
<1>1. /\ pc = "down" /\ meta.state = "absent" /\ root_file = NoFile /\ holders = EmptyMap
      /\ ~corrupted /\ leaf_num = 0
  BY DEF Init, EmptyMeta
<1>2. AbsInv
  BY <1>1, MarkAssumption DEF AbsInv, MembersOK, RootOK, RootFirst, Ops
<1>3. AbsStatus = "down" /\ ~Running
  BY <1>1, MarkAssumption DEF AbsStatus, Running
<1> QED BY <1>1, <1>2, <1>3, MarkAssumption DEF Abs!Init, EmptyMap

\* TreeCache implements TreeCacheAbs: JOIN, UPDATE and QUIT change the filter of one
\* holder and nothing that queries see, SYNC publishes the OR of all holders, queries
\* read what was published as long as the process lives, also after an error, and no
\* cache serves again that an error or a crash left inside an operation, while one whose
\* meta.json could not even be opened does, for every tree that insert and remove build.
THEOREM ImplementsTreeCacheAbs == Spec => AbsSpec
<1>1. Init => IInv /\ FileInv /\ AbsInv /\ Abs!Init
  BY InitIInv, InitFileInv, InitRefines
<1>2. (IInv /\ FileInv /\ AbsInv) /\ [Next]_vars => (IInv /\ FileInv /\ AbsInv)' /\ [Abs!Next]_Abs!vars
  BY NextIInv, NextFileInv, NextRefines DEF AbsStep
<1> QED BY <1>1, <1>2, PTL DEF Spec, AbsSpec, Abs!Spec

=============================================================================
