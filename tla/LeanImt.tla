-------------------------------- MODULE LeanImt --------------------------------
(***************************************************************************)
(* The Lean Incremental Merkle Tree (tree.rs): insertion level by level,   *)
(* membership proofs with their compressed index, and the root a verifier  *)
(* recomputes.  The hash is a free constructor: a leaf is a 1-tuple, a hash *)
(* the pair of its inputs, and Field::ZERO the empty tuple.                *)
(***************************************************************************)
EXTENDS Integers, Sequences

CONSTANTS
    Leaves,           \* the leaves that may be inserted; Zero may be one
    MAX_TREE_DEPTH,   \* the siblings the circuit has room for
    MaxSize,          \* bound: leaves inserted
    MaxCompared       \* bound: leaves of a tree that others are compared with

VARIABLE nodes    \* nodes[level + 1]: that level's nodes; the last is <<root>>

Zero == <<>>
Leaf(n) == <<n>>

\* No leaf is the hash of two nodes.
ASSUME LeavesAssumption == Leaves \subseteq [1..1 -> Nat] \cup {Zero}
ASSUME BoundsAssumption == {MAX_TREE_DEPTH, MaxSize, MaxCompared} \subseteq Nat

\* Mutant: hashes the left input twice.
poseidon2_left(left, right) == <<left, left>>

poseidon2(left, right) == <<left, right>>

-----------------------------------------------------------------------------
(* The tree.                                                               *)

depth == Len(nodes) - 1
leaves == nodes[1]
size == Len(leaves)

\* An empty tree has no root: its last level is empty.
HasRoot == nodes[Len(nodes)] # <<>>
root == nodes[Len(nodes)][1]

\* The position of leaf `index` or of its ancestor in a level: index >> level.
At(index, level) ==
    LET at[k \in Nat] == IF k = 0 THEN index ELSE at[k - 1] \div 2
    IN  at[level]

IsRight(index, level) == At(index, level) % 2 = 1

\* The bits of n without those above the highest that is set.
bit_length(n) ==
    CHOOSE k \in 0..n : At(n, k) = 0 /\ \A j \in 0..(k - 1) : At(n, j) # 0

ceil_log2(n) == IF n <= 1 THEN 0 ELSE bit_length(n - 1)

\* Assign v[at] (0-based), growing v with zeros if needed.
set(v, at, val) ==
    [k \in 1..(IF at < Len(v) THEN Len(v) ELSE at + 1) |->
        IF k = at + 1 THEN val ELSE IF k <= Len(v) THEN v[k] ELSE Zero]

\* Mutant: a node that is alone is joined to zero.
PathNodesPadded(levels, leaf) ==
    LET index == size
        node[level \in 0..(Len(levels) - 1)] ==
            IF level = 0 THEN leaf
            ELSE IF IsRight(index, level - 1)
                 THEN poseidon2(levels[level][At(index, level - 1)], node[level - 1])
                 ELSE poseidon2(node[level - 1], Zero)
    IN  node

\* The node on the new leaf's path in each level: joined to its left sibling
\* where it is a right child, and passed up unchanged where it is alone.
PathNodes(levels, leaf) ==
    LET index == size
        node[level \in 0..(Len(levels) - 1)] ==
            IF level = 0 THEN leaf
            ELSE IF IsRight(index, level - 1)
                 THEN poseidon2(levels[level][At(index, level - 1)], node[level - 1])
                 ELSE node[level - 1]
    IN  node

\* LeanImt::new.  (The derived LeanImt::default(), with no level at all, is
\* not a tree that insert or depth can work on, and is left out.)
TreeInit == nodes = <<<<>>>>

\* insert(leaf).
insert(leaf) ==
    /\ size < MaxSize
    /\ LET levels == IF depth < ceil_log2(size + 1) THEN Append(nodes, <<>>) ELSE nodes
           node   == PathNodes(levels, leaf)
           top    == Len(levels) - 1
       IN  nodes' = [k \in 1..Len(levels) |->
                        IF k - 1 < top THEN set(levels[k], At(size, k - 1), node[k - 1])
                        ELSE <<node[top]>>]

TreeNext == \E leaf \in Leaves : insert(leaf)

TreeSpec == TreeInit /\ [][TreeNext]_nodes

-----------------------------------------------------------------------------
(* Proofs.                                                                 *)

\* The position of the sibling at a level, and whether there is one.
SiblingAt(index, level) ==
    IF IsRight(index, level) THEN At(index, level) - 1 ELSE At(index, level) + 1

HasSibling(index, level) == SiblingAt(index, level) < Len(nodes[level + 1])

\* The levels at which there is a sibling, bottom up.
LevelsMet(index) ==
    LET met[level \in 0..depth] ==
            IF level = 0 THEN <<>>
            ELSE IF HasSibling(index, level - 1) THEN Append(met[level - 1], level - 1)
            ELSE met[level - 1]
    IN  met[depth]

\* Mutant: the bits of the skipped levels stay in the index.
full_index(index, met) == index

\* The index made of one bit for each level met, not of those skipped, the
\* first being the lowest: below[k] is that of the last k levels.
compressed_index(index, met) ==
    LET below[k \in 0..Len(met)] ==
            IF k = 0 THEN 0
            ELSE 2 * below[k - 1] + (IF IsRight(index, met[Len(met) - k + 1]) THEN 1 ELSE 0)
    IN  below[Len(met)]

\* generate_proof(index): the siblings there are, bottom up.  Of a leaf: for an
\* index from size on, the code returns an error.
generate_proof(index) ==
    LET met == LevelsMet(index)
    IN  [root     |-> root,
         leaf     |-> leaves[index + 1],
         siblings |-> [k \in DOMAIN met |-> nodes[met[k] + 1][SiblingAt(index, met[k]) + 1]],
         index    |-> compressed_index(index, met)]

\* Mutant: the tree's depth, as the comment of MerkleProof::depth has it.
tree_depth(proof) == depth

\* MerkleProof::depth: the depth the circuit is given.
proof_depth(proof) == Len(proof.siblings)

FitsCircuit(proof) == Len(proof.siblings) <= MAX_TREE_DEPTH

padded_siblings(proof) ==
    [k \in 1..MAX_TREE_DEPTH |->
        IF k <= Len(proof.siblings) THEN proof.siblings[k] ELSE Zero]

\* Mutant, and what compute_root is compared with: a zero sibling is hashed
\* like any other.
compute_root_hashing_zeros(leaf, index, siblings) ==
    LET node[k \in 0..Len(siblings)] ==
            IF k = 0 THEN leaf
            ELSE IF IsRight(index, k - 1) THEN poseidon2(siblings[k], node[k - 1])
            ELSE poseidon2(node[k - 1], siblings[k])
    IN  node[Len(siblings)]

\* compute_root: a zero sibling passes the node through.
compute_root(leaf, index, siblings) ==
    LET node[k \in 0..Len(siblings)] ==
            IF k = 0 THEN leaf
            ELSE IF siblings[k] = Zero THEN node[k - 1]
            ELSE IF IsRight(index, k - 1) THEN poseidon2(siblings[k], node[k - 1])
            ELSE poseidon2(node[k - 1], siblings[k])
    IN  node[Len(siblings)]

\* More siblings than the circuit has room for are an error.
verify_inclusion(rt, leaf, index, siblings) ==
    /\ Len(siblings) <= MAX_TREE_DEPTH
    /\ compute_root(leaf, index, siblings) = rt

-----------------------------------------------------------------------------
(* The tree without insertion: from all leaves at once, level by level.     *)

\* One level up: neighbours are joined, the last node of an odd number of them
\* is passed on.
Parents(row) ==
    [i \in 1..((Len(row) + 1) \div 2) |->
        IF 2 * i <= Len(row) THEN poseidon2(row[2 * i - 1], row[2 * i]) ELSE row[2 * i - 1]]

Row(seq, level) ==
    LET rows[k \in Nat] == IF k = 0 THEN seq ELSE Parents(rows[k - 1])
    IN  rows[level]

MerkleRoot(seq) == Row(seq, ceil_log2(Len(seq)))[1]

-----------------------------------------------------------------------------
(* Insertion one by one (tree.rs:123-140) ends in the root that the leaves    *)
(* alone determine, and in levels that hold one node for every two of the     *)
(* level below, rounded up, and no level too many.                            *)
RootIsMerkleRoot ==
    /\ HasRoot <=> size > 0
    /\ HasRoot => depth = ceil_log2(size) /\ root = MerkleRoot(leaves)
    /\ \A k \in 1..(Len(nodes) - 1) : Len(nodes[k + 1]) = (Len(nodes[k]) + 1) \div 2

NoZeroMet(proof) == \A k \in DOMAIN proof.siblings : proof.siblings[k] # Zero

(* A generated proof (tree.rs:151-184) holds the siblings on the leaf's path  *)
(* and the bits that join them in the right order, and it verifies with this  *)
(* compressed index (tree.rs:25-50), although that is not the leaf's          *)
(* position, unless a leaf that is zero is among its siblings.                *)
ProofsVerify ==
    \A index \in 0..(size - 1) :
        LET proof == generate_proof(index)
        IN  /\ compute_root_hashing_zeros(proof.leaf, proof.index, proof.siblings) = root
            /\ (\A n \in DOMAIN leaves : leaves[n] # Zero) => NoZeroMet(proof)
            /\ FitsCircuit(proof) /\ NoZeroMet(proof) =>
                   verify_inclusion(root, proof.leaf, proof.index, proof.siblings)

(* The index and the depth the circuit is given (tree.rs:72,                  *)
(* flow.rs:139-143) name one leaf: the index has no bit above that depth,     *)
(* and no two leaves of a tree share both, although each alone may be shared. *)
IndexAndDepthBind ==
    \A x, y \in 0..(size - 1) :
        LET p == generate_proof(x)
            q == generate_proof(y)
        IN  /\ At(p.index, proof_depth(p)) = 0
            /\ x # y => p.index # q.index \/ proof_depth(p) # proof_depth(q)

(* Padding a proof for the circuit (inputs.rs:24-34) does not change what it  *)
(* proves (tree.rs:33-37), and the proof of one leaf proves no other.         *)
PaddedProofsBind ==
    \A index \in 0..(size - 1) :
        LET proof == generate_proof(index)
        IN  FitsCircuit(proof) /\ NoZeroMet(proof) =>
                \A leaf \in Leaves :
                    verify_inclusion(root, leaf, proof.index, padded_siblings(proof))
                        <=> leaf = proof.leaf

(* The root binds every leaf and its place (sync.rs:9-11): two leaf lists     *)
(* that differ have different roots, so a root verified on chain says that    *)
(* the rebuilt leaves are the pool's.                                        *)
RootBindsLeaves ==
    size \in 1..MaxCompared =>
        \A other \in UNION {[1..n -> Leaves] : n \in 1..MaxCompared} :
            MerkleRoot(other) = root => other = leaves

-----------------------------------------------------------------------------
(* The inductive strengthening: every level is the one that the leaves       *)
(* determine.                                                              *)

TreeInv ==
    /\ leaves \in Seq(Leaves)
    /\ nodes = [k \in 1..(ceil_log2(size) + 1) |-> Row(leaves, k - 1)]
=============================================================================
