----------------------------- MODULE BuildIdTree -----------------------------
(***************************************************************************)
(* The hash tree behind a fast build id (libsld/src/incremental.rs): the   *)
(* output is cut into groups of GroupLen cells, the groups are the leaves  *)
(* of a BLAKE3 tree whose two top subtrees are kept, and a patch rehashes  *)
(* only the groups it touched and the nodes above them.                    *)
(*                                                                         *)
(* A hash is what it hashes: a leaf's hash is its position and its cells,  *)
(* an inner node's the hashes of its children.  A node is the interval     *)
(* <<first, last>> of the groups below it.                                 *)
(***************************************************************************)
EXTENDS Integers, Sequences, FiniteSetsExt

CONSTANT GroupLen   \* BUILD_ID_HASH_GROUP_LEN, in cells

ASSUME GroupLenAssumption == GroupLen \in Nat \ {0}

\* The groups of an output of n cells.
Groups(n) == (n + GroupLen - 1) \div GroupLen

\* blake3::hazmat::left_subtree_len, in groups: the largest power of two below n.
LeftSubtree(n) == CHOOSE k \in 1 .. n : /\ \E e \in 0 .. n : k = 2 ^ e
                                        /\ k < n /\ 2 * k >= n

\* build_id_subtree_hash, the shape: the nodes below and including <<first, last>>, each with
\* the last group of its left subtree.
SubtreeNodes(groups) ==
    LET below[k \in 1 .. groups] ==      \* the nodes of a subtree of k groups, from group 0
            IF k = 1 THEN {<<0, 0>>}
            ELSE LET left == LeftSubtree(k)
                 IN  {<<0, k - 1>>} \cup below[left]
                       \cup {<<n[1] + left, n[2] + left>> : n \in below[k - left]}
    IN  below[groups]

\* build_id_hash_node_count and build_id_hash_tree: the tree has no root; None for an output
\* of one group, which has no tree.
TreeNodes(n) == SubtreeNodes(Groups(n)) \ {<<0, Groups(n) - 1>>}

HasTree(n) == n > GroupLen

\* build_id_leaf_hash: the cells of a group, with those of the build id's note read as zero.
LeafHash(out, note, g) ==
    [i \in 1 .. Min({GroupLen, Len(out) - g * GroupLen}) |->
        IF g * GroupLen + i \in note THEN 0 ELSE out[g * GroupLen + i]]

\* merge_subtrees_non_root of the two halves of a node.
Children(node) ==
    LET left == LeftSubtree(node[2] - node[1] + 1)
    IN  <<<<node[1], node[1] + left - 1>>, <<node[1] + left, node[2]>>>>

\* build_id_hash_tree: the tree of an output, from nothing.
TreeOf(out, note) ==
    [node \in TreeNodes(Len(out)) |->
        [i \in 1 .. node[2] - node[1] + 1 |-> LeafHash(out, note, node[1] + i - 1)]]

\* Mutant: the last cell of a range is not looked at.
TouchedGroupsShort(ranges) ==
    UNION {(r[1] - 1) \div GroupLen .. (r[2] - 2) \div GroupLen : r \in ranges}

\* touched_build_id_chunks: the groups of ranges <<first cell, last cell>>; an empty range
\* touches none.
TouchedGroups(ranges) ==
    UNION {(r[1] - 1) \div GroupLen .. (r[2] - 1) \div GroupLen
             : r \in {q \in ranges : q[1] <= q[2]}}

\* touched_chunks_overlap.
Touched(node, groups) == \E g \in groups : g \in node[1] .. node[2]

\* update_build_id_hash_tree and update_build_id_subtree_hash: leaves that were touched are
\* hashed again, inner nodes above them are merged from their children, the rest is kept.
UpdateTree(tree, out, note, groups) ==
    LET hashed[size \in 1 .. Groups(Len(out))] ==    \* nodes of at most this many groups
            [node \in {n \in DOMAIN tree : n[2] - n[1] < size} |->
                IF ~Touched(node, groups) THEN tree[node]
                ELSE IF node[1] = node[2] THEN <<LeafHash(out, note, node[1])>>
                ELSE hashed[size - 1][Children(node)[1]] \o hashed[size - 1][Children(node)[2]]]
    IN  hashed[Groups(Len(out))]

\* build_id_from_hash_tree: the root, merged from the two top subtrees.
RootHash(tree, n) ==
    LET top == Children(<<0, Groups(n) - 1>>) IN tree[top[1]] \o tree[top[2]]
=============================================================================
