------------------------------- MODULE MCLeanImt -------------------------------
(***************************************************************************)
(* LeanImt over every sequence of a few leaves.  The root it is compared    *)
(* with, built level by level, is itself compared with one that has no      *)
(* levels: the root of n > 1 leaves joins the roots of the first m and of   *)
(* the remaining n - m, for m the largest power of two below n.             *)
(***************************************************************************)
EXTENDS LeanImt

LeavesAndZero == {Leaf(1), Leaf(2), Zero}

Split(n) == 2^(ceil_log2(n) - 1)

RECURSIVE SplitRoot(_)
SplitRoot(seq) ==
    IF Len(seq) = 1 THEN seq[1]
    ELSE LET m == Split(Len(seq))
         IN  poseidon2(SplitRoot(SubSeq(seq, 1, m)), SplitRoot(SubSeq(seq, m + 1, Len(seq))))

ASSUME RootsAgree ==
    \A n \in 1..(2 * MaxSize) :
        LET seq == [k \in 1..n |-> Leaf(k)]
        IN  MerkleRoot(seq) = SplitRoot(seq)
=============================================================================
