---------------------------- MODULE StateRootProofs ----------------------------
(***************************************************************************)
(* The state root that a wallet rebuilds, and what the pool says of it.     *)
(*                                                                         *)
(* The tree of LeanImt::insert is the one its leaves determine, for any     *)
(* number of leaves; its proofs verify and bind one leaf and one position,   *)
(* and its root binds all leaves.  verify_state_root is right in both its   *)
(* answers, for every size of the ring buffer and however many roots arrive *)
(* between two reads.                                                      *)
(***************************************************************************)
EXTENDS LeanImt, RootCheck, TLAPS, WellFoundedInduction

-----------------------------------------------------------------------------
(* Natural numbers.                                                        *)

LessThan == {p \in Nat \X Nat : p[1] < p[2]}

\* The order of the natural numbers has no infinite descent.
LEMMA LessThanWellFounded == IsWellFoundedOn(LessThan, Nat)
<1>1. IsWellFoundedOn(OpToRel(<, Nat), Nat)
  BY NatLessThanWellFounded, Zenon
<1>2. OpToRel(<, Nat) = LessThan
  BY Zenon DEF OpToRel, LessThan
<1> QED
  BY <1>1, <1>2, Zenon

\* A non-empty set of natural numbers has a least element.
LEMMA LeastElement ==
    ASSUME NEW S \in SUBSET Nat, S # {}
    PROVE  \E x \in S : \A y \in S : x <= y
<1>1. PICK x \in S : \A y \in S : ~ (<<y, x>> \in LessThan)
  BY LessThanWellFounded, WFMin, Zenon
<1>2. ASSUME NEW y \in S PROVE x <= y
  <2>1. ~ (<<y, x>> \in LessThan)
    BY <1>1
  <2>2. <<y, x>> \in Nat \X Nat
    OBVIOUS
  <2>3. ~ (y < x)
    BY <2>1, <2>2 DEF LessThan
  <2> QED
    BY <2>3
<1> QED
  BY <1>2

\* Induction over the natural numbers.
LEMMA SetInduction ==
    ASSUME NEW S \in SUBSET Nat, 0 \in S,
           \A n \in S : n + 1 \in S
    PROVE  S = Nat
<1> SUFFICES ASSUME NEW m \in Nat, m \notin S PROVE FALSE
  OBVIOUS
<1> DEFINE T == Nat \ S
<1>1. PICK x \in T : \A y \in T : x <= y
  BY LeastElement
<1>2. x # 0 /\ x - 1 \in Nat
  OBVIOUS
<1>3. x - 1 \notin T
  BY <1>1, <1>2
<1> QED
  BY <1>2, <1>3

-----------------------------------------------------------------------------
(* Recursive definitions.                                                  *)

\* One shift after another.
LEMMA AtDef ==
    ASSUME NEW index
    PROVE  \A k \in Nat :
               At(index, k) = IF k = 0 THEN index ELSE At(index, k - 1) \div 2
<1> DEFINE Is(f, n) == \A k \in 0..n : f[k] = IF k = 0 THEN index ELSE f[k - 1] \div 2
           Has == {n \in Nat : \E f : Is(f, n)}
<1>1. Has = Nat
  <2>1. 0 \in Has
    <3>1. Is([k \in {0} |-> index], 0)
      OBVIOUS
    <3> QED
      BY <3>1
  <2>2. ASSUME NEW n \in Has PROVE n + 1 \in Has
    <3>1. PICK f : Is(f, n)
      OBVIOUS
    <3> DEFINE h == [k \in 0..(n + 1) |-> IF k = n + 1 THEN f[n] \div 2 ELSE f[k]]
    <3>2. ASSUME NEW k \in 0..(n + 1)
          PROVE  h[k] = IF k = 0 THEN index ELSE h[k - 1] \div 2
      <4>1. CASE k = n + 1
        <5>1. n \in 0..(n + 1) /\ n # n + 1 /\ k # 0 /\ k - 1 = n
          BY <4>1
        <5>2. h[n] = f[n] /\ h[k] = f[n] \div 2
          BY <4>1, <5>1
        <5> QED
          BY <5>1, <5>2
      <4>2. CASE k # n + 1 /\ k # 0
        <5>1. k \in 0..n /\ k - 1 \in 0..(n + 1) /\ k - 1 # n + 1
          BY <4>2
        <5>2. h[k] = f[k] /\ h[k - 1] = f[k - 1]
          BY <4>2, <5>1
        <5> QED
          BY <4>2, <5>1, <5>2, <3>1
      <4>3. CASE k = 0
        BY <4>3, <3>1
      <4> QED
        BY <4>1, <4>2, <4>3
    <3>3. Is(h, n + 1)
      <4> HIDE DEF h
      <4> QED
        BY <3>2
    <3> HIDE DEF Is, h
    <3> QED
      BY <3>3
  <2> HIDE DEF Is
  <2>3. Has \in SUBSET Nat
    OBVIOUS
  <2> HIDE DEF Has
  <2> QED
    BY <2>1, <2>2, <2>3, SetInduction
<1>2. ASSUME NEW n \in Nat, NEW m \in Nat, NEW j \in Nat, j <= n, j <= m,
             NEW f, Is(f, n), NEW g, Is(g, m)
      PROVE  f[j] = g[j]
  <2> DEFINE Same == {k \in Nat : k <= j => f[k] = g[k]}
  <2>1. 0 \in Same
    BY <1>2
  <2>2. ASSUME NEW k \in Same PROVE k + 1 \in Same
    <3> SUFFICES ASSUME k + 1 <= j PROVE f[k + 1] = g[k + 1]
      OBVIOUS
    <3>1. k + 1 \in 0..n /\ k + 1 \in 0..m /\ k + 1 # 0 /\ (k + 1) - 1 = k /\ f[k] = g[k]
      BY <1>2
    <3> QED
      BY <3>1, <1>2
  <2>3. Same = Nat
    <3>1. Same \in SUBSET Nat
      OBVIOUS
    <3> HIDE DEF Same
    <3> QED
      BY <2>1, <2>2, <3>1, SetInduction
  <2> QED
    BY <2>3
<1> DEFINE upto(n) == CHOOSE f : Is(f, n)
           all == [n \in Nat |-> upto(n)[n]]
<1>3. ASSUME NEW n \in Nat PROVE Is(upto(n), n)
  <2> HIDE DEF Is
  <2> QED
    BY <1>1
<1>4. ASSUME NEW k \in Nat
      PROVE  all[k] = IF k = 0 THEN index ELSE all[k - 1] \div 2
  <2>1. CASE k = 0
    <3>1. Is(upto(0), 0)
      BY <1>3
    <3> HIDE DEF upto
    <3> QED
      BY <2>1, <3>1
  <2>2. CASE k # 0
    <3>1. k - 1 \in Nat /\ k - 1 <= k /\ k - 1 <= k - 1
      BY <2>2
    <3>2. upto(k)[k - 1] = upto(k - 1)[k - 1]
      <4>1. Is(upto(k), k) /\ Is(upto(k - 1), k - 1)
        BY <1>3, <3>1
      <4> HIDE DEF Is, upto
      <4> QED
        BY <1>2, <3>1, <4>1
    <3>3. upto(k)[k] = upto(k)[k - 1] \div 2
      <4>1. Is(upto(k), k)
        BY <1>3
      <4>2. k \in 0..k
        OBVIOUS
      <4> HIDE DEF upto
      <4> QED
        BY <2>2, <4>1, <4>2
    <3> HIDE DEF Is, upto
    <3> QED
      BY <2>2, <3>1, <3>2, <3>3
  <2> QED
    BY <2>1, <2>2
<1>5. all = [k \in Nat |-> IF k = 0 THEN index ELSE all[k - 1] \div 2]
  <2> HIDE DEF upto
  <2>1. all = [k \in Nat |-> all[k]]
    OBVIOUS
  <2> HIDE DEF all
  <2> QED
    BY <1>4, <2>1
<1> DEFINE at == CHOOSE f : f = [k \in Nat |-> IF k = 0 THEN index ELSE f[k - 1] \div 2]
<1>6. at = [k \in Nat |-> IF k = 0 THEN index ELSE at[k - 1] \div 2]
  <2> HIDE DEF all
  <2> QED
    BY <1>5
<1>7. ASSUME NEW k \in Nat PROVE At(index, k) = at[k]
  BY DEF At
<1> HIDE DEF at
<1>8. ASSUME NEW k \in Nat, k # 0 PROVE At(index, k - 1) = at[k - 1]
  <2>1. k - 1 \in Nat
    BY <1>8
  <2> QED
    BY <1>7, <2>1
<1> QED
  BY <1>6, <1>7, <1>8

\* One level above another.
LEMMA RowDef ==
    ASSUME NEW seq
    PROVE  \A k \in Nat :
               Row(seq, k) = IF k = 0 THEN seq ELSE Parents(Row(seq, k - 1))
<1> DEFINE Is(f, n) == \A k \in 0..n : f[k] = IF k = 0 THEN seq ELSE Parents(f[k - 1])
           Has == {n \in Nat : \E f : Is(f, n)}
<1>1. Has = Nat
  <2>1. 0 \in Has
    <3>1. Is([k \in {0} |-> seq], 0)
      OBVIOUS
    <3> QED
      BY <3>1
  <2>2. ASSUME NEW n \in Has PROVE n + 1 \in Has
    <3>1. PICK f : Is(f, n)
      OBVIOUS
    <3> DEFINE h == [k \in 0..(n + 1) |-> IF k = n + 1 THEN Parents(f[n]) ELSE f[k]]
    <3>2. ASSUME NEW k \in 0..(n + 1)
          PROVE  h[k] = IF k = 0 THEN seq ELSE Parents(h[k - 1])
      <4>1. CASE k = n + 1
        <5>1. n \in 0..(n + 1) /\ n # n + 1 /\ k # 0 /\ k - 1 = n
          BY <4>1
        <5>2. h[n] = f[n] /\ h[k] = Parents(f[n])
          BY <4>1, <5>1
        <5> QED
          BY <5>1, <5>2
      <4>2. CASE k # n + 1 /\ k # 0
        <5>1. k \in 0..n /\ k - 1 \in 0..(n + 1) /\ k - 1 # n + 1
          BY <4>2
        <5>2. h[k] = f[k] /\ h[k - 1] = f[k - 1]
          BY <4>2, <5>1
        <5> QED
          BY <4>2, <5>1, <5>2, <3>1
      <4>3. CASE k = 0
        BY <4>3, <3>1
      <4> QED
        BY <4>1, <4>2, <4>3
    <3>3. Is(h, n + 1)
      <4> HIDE DEF h
      <4> QED
        BY <3>2
    <3> HIDE DEF Is, h
    <3> QED
      BY <3>3
  <2> HIDE DEF Is
  <2>3. Has \in SUBSET Nat
    OBVIOUS
  <2> HIDE DEF Has
  <2> QED
    BY <2>1, <2>2, <2>3, SetInduction
<1>2. ASSUME NEW n \in Nat, NEW m \in Nat, NEW j \in Nat, j <= n, j <= m,
             NEW f, Is(f, n), NEW g, Is(g, m)
      PROVE  f[j] = g[j]
  <2> DEFINE Same == {k \in Nat : k <= j => f[k] = g[k]}
  <2>1. 0 \in Same
    BY <1>2
  <2>2. ASSUME NEW k \in Same PROVE k + 1 \in Same
    <3> SUFFICES ASSUME k + 1 <= j PROVE f[k + 1] = g[k + 1]
      OBVIOUS
    <3>1. k + 1 \in 0..n /\ k + 1 \in 0..m /\ k + 1 # 0 /\ (k + 1) - 1 = k /\ f[k] = g[k]
      BY <1>2
    <3> QED
      BY <3>1, <1>2
  <2>3. Same = Nat
    <3>1. Same \in SUBSET Nat
      OBVIOUS
    <3> HIDE DEF Same
    <3> QED
      BY <2>1, <2>2, <3>1, SetInduction
  <2> QED
    BY <2>3
<1> DEFINE upto(n) == CHOOSE f : Is(f, n)
           all == [n \in Nat |-> upto(n)[n]]
<1>3. ASSUME NEW n \in Nat PROVE Is(upto(n), n)
  <2> HIDE DEF Is
  <2> QED
    BY <1>1
<1>4. ASSUME NEW k \in Nat
      PROVE  all[k] = IF k = 0 THEN seq ELSE Parents(all[k - 1])
  <2>1. CASE k = 0
    <3>1. Is(upto(0), 0)
      BY <1>3
    <3> HIDE DEF upto
    <3> QED
      BY <2>1, <3>1
  <2>2. CASE k # 0
    <3>1. k - 1 \in Nat /\ k - 1 <= k /\ k - 1 <= k - 1
      BY <2>2
    <3>2. upto(k)[k - 1] = upto(k - 1)[k - 1]
      <4>1. Is(upto(k), k) /\ Is(upto(k - 1), k - 1)
        BY <1>3, <3>1
      <4> HIDE DEF Is, upto
      <4> QED
        BY <1>2, <3>1, <4>1
    <3>3. upto(k)[k] = Parents(upto(k)[k - 1])
      <4>1. Is(upto(k), k)
        BY <1>3
      <4>2. k \in 0..k
        OBVIOUS
      <4> HIDE DEF upto
      <4> QED
        BY <2>2, <4>1, <4>2
    <3> HIDE DEF Is, upto
    <3> QED
      BY <2>2, <3>1, <3>2, <3>3
  <2> QED
    BY <2>1, <2>2
<1>5. all = [k \in Nat |-> IF k = 0 THEN seq ELSE Parents(all[k - 1])]
  <2> HIDE DEF upto
  <2>1. all = [k \in Nat |-> all[k]]
    OBVIOUS
  <2> HIDE DEF all
  <2> QED
    BY <1>4, <2>1
<1> DEFINE rows == CHOOSE f : f = [k \in Nat |-> IF k = 0 THEN seq ELSE Parents(f[k - 1])]
<1>6. rows = [k \in Nat |-> IF k = 0 THEN seq ELSE Parents(rows[k - 1])]
  <2> HIDE DEF all
  <2> QED
    BY <1>5
<1>7. ASSUME NEW k \in Nat PROVE Row(seq, k) = rows[k]
  BY DEF Row
<1> HIDE DEF rows
<1>8. ASSUME NEW k \in Nat, k # 0 PROVE Row(seq, k - 1) = rows[k - 1]
  <2>1. k - 1 \in Nat
    BY <1>8
  <2> QED
    BY <1>7, <2>1
<1> QED
  BY <1>6, <1>7, <1>8

\* The nodes that insert computes on the new leaf's path.
LEMMA PathNodesDef ==
    ASSUME NEW levels, NEW leaf, NEW top, top \in Nat, top = Len(levels) - 1
    PROVE  \E node :
              /\ node[0] = leaf
              /\ \A k \in 1..top :
                    node[k] = IF IsRight(size, k - 1)
                              THEN poseidon2(levels[k][At(size, k - 1)], node[k - 1])
                              ELSE node[k - 1]
              /\ PathNodes(levels, leaf) = node
<1> DEFINE next(k, v) == IF IsRight(size, k - 1) THEN poseidon2(levels[k][At(size, k - 1)], v) ELSE v
           Is(f, n) == \A k \in 0..n : f[k] = IF k = 0 THEN leaf ELSE next(k, f[k - 1])
           Has == {n \in Nat : \E f : Is(f, n)}
<1>1. 0 \in Has
  <2>1. Is([k \in {0} |-> leaf], 0)
    OBVIOUS
  <2> QED
    BY <2>1
<1>2. ASSUME NEW n \in Has PROVE n + 1 \in Has
  <2>1. PICK f : Is(f, n)
    OBVIOUS
  <2> HIDE DEF next
  <2> DEFINE h == [k \in 0..(n + 1) |-> IF k = n + 1 THEN next(n + 1, f[n]) ELSE f[k]]
  <2>2. ASSUME NEW k \in 0..(n + 1)
        PROVE  h[k] = IF k = 0 THEN leaf ELSE next(k, h[k - 1])
    <3>1. CASE k = n + 1
      <4>1. n \in 0..(n + 1) /\ n # n + 1 /\ k # 0 /\ k - 1 = n
        BY <3>1
      <4>2. h[n] = f[n] /\ h[k] = next(n + 1, f[n])
        BY <3>1, <4>1
      <4> HIDE DEF h
      <4> QED
        BY <3>1, <4>1, <4>2
    <3>2. CASE k # n + 1 /\ k # 0
      <4>1. k \in 0..n /\ k - 1 \in 0..(n + 1) /\ k - 1 # n + 1
        BY <3>2
      <4>2. h[k] = f[k] /\ h[k - 1] = f[k - 1]
        BY <3>2, <4>1
      <4> HIDE DEF h
      <4> QED
        BY <3>2, <4>1, <4>2, <2>1
    <3>3. CASE k = 0
      BY <3>3, <2>1
    <3> QED
      BY <3>1, <3>2, <3>3
  <2>3. Is(h, n + 1)
    <3> HIDE DEF h
    <3> QED
      BY <2>2
  <2> HIDE DEF Is, h
  <2> QED
    BY <2>3
<1>3. Has = Nat
  <2> HIDE DEF Is
  <2>1. Has \in SUBSET Nat
    OBVIOUS
  <2> HIDE DEF Has
  <2> QED
    BY <1>1, <1>2, <2>1, SetInduction
<1>4. PICK f : Is(f, top)
  <2> HIDE DEF Is
  <2> QED
    BY <1>3
<1> DEFINE h == [k \in 0..top |-> f[k]]
<1>5. ASSUME NEW k \in 0..top
      PROVE  h[k] = IF k = 0 THEN leaf ELSE next(k, h[k - 1])
  <2>1. h[k] = f[k] /\ (k # 0 => k - 1 \in 0..top /\ h[k - 1] = f[k - 1])
    OBVIOUS
  <2> HIDE DEF h, next
  <2> QED
    BY <1>4, <2>1
<1>6. h = [k \in 0..top |-> IF k = 0 THEN leaf ELSE next(k, h[k - 1])]
  <2>1. h = [k \in 0..top |-> h[k]]
    OBVIOUS
  <2> HIDE DEF h, next
  <2> QED
    BY <1>5, <2>1
<1> DEFINE node == CHOOSE g : g = [k \in 0..top |-> IF k = 0 THEN leaf ELSE next(k, g[k - 1])]
<1>7. node = [k \in 0..top |-> IF k = 0 THEN leaf ELSE next(k, node[k - 1])]
  <2> HIDE DEF h, next
  <2> QED
    BY <1>6
<1>8. PathNodes(levels, leaf) = node
  BY DEF PathNodes
<1>9. node[0] = leaf /\ \A k \in 1..top : node[k] = next(k, node[k - 1])
  <2> HIDE DEF node, next
  <2>1. 0 \in 0..top /\ \A k \in 1..top : k \in 0..top /\ k # 0
    OBVIOUS
  <2> QED
    BY <1>7, <2>1
<1> HIDE DEF node
<1> QED
  BY <1>8, <1>9

\* The levels generate_proof meets a sibling at, up to each level.
LEMMA LevelsMetDef ==
    ASSUME NEW index, depth \in Nat
    PROVE  \E met :
              /\ met[0] = <<>>
              /\ \A k \in 1..depth :
                    met[k] = IF HasSibling(index, k - 1) THEN Append(met[k - 1], k - 1) ELSE met[k - 1]
              /\ LevelsMet(index) = met[depth]
<1> DEFINE next(k, v) == IF HasSibling(index, k - 1) THEN Append(v, k - 1) ELSE v
           Is(f, n) == \A k \in 0..n : f[k] = IF k = 0 THEN <<>> ELSE next(k, f[k - 1])
           Has == {n \in Nat : \E f : Is(f, n)}
<1>1. 0 \in Has
  <2>1. Is([k \in {0} |-> <<>>], 0)
    OBVIOUS
  <2> QED
    BY <2>1
<1>2. ASSUME NEW n \in Has PROVE n + 1 \in Has
  <2>1. PICK f : Is(f, n)
    OBVIOUS
  <2> HIDE DEF next
  <2> DEFINE h == [k \in 0..(n + 1) |-> IF k = n + 1 THEN next(n + 1, f[n]) ELSE f[k]]
  <2>2. ASSUME NEW k \in 0..(n + 1)
        PROVE  h[k] = IF k = 0 THEN <<>> ELSE next(k, h[k - 1])
    <3>1. CASE k = n + 1
      <4>1. n \in 0..(n + 1) /\ n # n + 1 /\ k # 0 /\ k - 1 = n
        BY <3>1
      <4>2. h[n] = f[n] /\ h[k] = next(n + 1, f[n])
        BY <3>1, <4>1
      <4> HIDE DEF h
      <4> QED
        BY <3>1, <4>1, <4>2
    <3>2. CASE k # n + 1 /\ k # 0
      <4>1. k \in 0..n /\ k - 1 \in 0..(n + 1) /\ k - 1 # n + 1
        BY <3>2
      <4>2. h[k] = f[k] /\ h[k - 1] = f[k - 1]
        BY <3>2, <4>1
      <4> HIDE DEF h
      <4> QED
        BY <3>2, <4>1, <4>2, <2>1
    <3>3. CASE k = 0
      BY <3>3, <2>1
    <3> QED
      BY <3>1, <3>2, <3>3
  <2>3. Is(h, n + 1)
    <3> HIDE DEF h
    <3> QED
      BY <2>2
  <2> HIDE DEF Is, h
  <2> QED
    BY <2>3
<1>3. Has = Nat
  <2> HIDE DEF Is
  <2>1. Has \in SUBSET Nat
    OBVIOUS
  <2> HIDE DEF Has
  <2> QED
    BY <1>1, <1>2, <2>1, SetInduction
<1>4. PICK f : Is(f, depth)
  <2> HIDE DEF Is
  <2> QED
    BY <1>3
<1> DEFINE h == [k \in 0..depth |-> f[k]]
<1>5. ASSUME NEW k \in 0..depth
      PROVE  h[k] = IF k = 0 THEN <<>> ELSE next(k, h[k - 1])
  <2>1. h[k] = f[k] /\ (k # 0 => k - 1 \in 0..depth /\ h[k - 1] = f[k - 1])
    OBVIOUS
  <2> HIDE DEF h, next
  <2> QED
    BY <1>4, <2>1
<1>6. h = [k \in 0..depth |-> IF k = 0 THEN <<>> ELSE next(k, h[k - 1])]
  <2>1. h = [k \in 0..depth |-> h[k]]
    OBVIOUS
  <2> HIDE DEF h, next
  <2> QED
    BY <1>5, <2>1
<1> DEFINE met == CHOOSE g : g = [k \in 0..depth |-> IF k = 0 THEN <<>> ELSE next(k, g[k - 1])]
<1>7. met = [k \in 0..depth |-> IF k = 0 THEN <<>> ELSE next(k, met[k - 1])]
  <2> HIDE DEF h, next
  <2> QED
    BY <1>6
<1>8. LevelsMet(index) = met[depth]
  BY DEF LevelsMet
<1>9. met[0] = <<>> /\ \A k \in 1..depth : met[k] = next(k, met[k - 1])
  <2> HIDE DEF met, next
  <2>1. 0 \in 0..depth /\ \A k \in 1..depth : k \in 0..depth /\ k # 0
    OBVIOUS
  <2> QED
    BY <1>7, <2>1
<1> HIDE DEF met
<1> QED
  BY <1>8, <1>9

\* The index read from the highest bit down.
LEMMA CompressedIndexDef ==
    ASSUME NEW index, NEW met, Len(met) \in Nat
    PROVE  \E below :
              /\ below[0] = 0
              /\ \A k \in 1..Len(met) :
                    below[k] = 2 * below[k - 1]
                               + (IF IsRight(index, met[Len(met) - k + 1]) THEN 1 ELSE 0)
              /\ compressed_index(index, met) = below[Len(met)]
<1> DEFINE next(k, v) == 2 * v + (IF IsRight(index, met[Len(met) - k + 1]) THEN 1 ELSE 0)
           Is(f, n) == \A k \in 0..n : f[k] = IF k = 0 THEN 0 ELSE next(k, f[k - 1])
           Has == {n \in Nat : \E f : Is(f, n)}
<1>1. 0 \in Has
  <2>1. Is([k \in {0} |-> 0], 0)
    OBVIOUS
  <2> QED
    BY <2>1
<1>2. ASSUME NEW n \in Has PROVE n + 1 \in Has
  <2>1. PICK f : Is(f, n)
    OBVIOUS
  <2> HIDE DEF next
  <2> DEFINE h == [k \in 0..(n + 1) |-> IF k = n + 1 THEN next(n + 1, f[n]) ELSE f[k]]
  <2>2. ASSUME NEW k \in 0..(n + 1)
        PROVE  h[k] = IF k = 0 THEN 0 ELSE next(k, h[k - 1])
    <3>1. CASE k = n + 1
      <4>1. n \in 0..(n + 1) /\ n # n + 1 /\ k # 0 /\ k - 1 = n
        BY <3>1
      <4>2. h[n] = f[n] /\ h[k] = next(n + 1, f[n])
        BY <3>1, <4>1
      <4> HIDE DEF h
      <4> QED
        BY <3>1, <4>1, <4>2
    <3>2. CASE k # n + 1 /\ k # 0
      <4>1. k \in 0..n /\ k - 1 \in 0..(n + 1) /\ k - 1 # n + 1
        BY <3>2
      <4>2. h[k] = f[k] /\ h[k - 1] = f[k - 1]
        BY <3>2, <4>1
      <4> HIDE DEF h
      <4> QED
        BY <3>2, <4>1, <4>2, <2>1
    <3>3. CASE k = 0
      BY <3>3, <2>1
    <3> QED
      BY <3>1, <3>2, <3>3
  <2>3. Is(h, n + 1)
    <3> HIDE DEF h
    <3> QED
      BY <2>2
  <2> HIDE DEF Is, h
  <2> QED
    BY <2>3
<1>3. Has = Nat
  <2> HIDE DEF Is
  <2>1. Has \in SUBSET Nat
    OBVIOUS
  <2> HIDE DEF Has
  <2> QED
    BY <1>1, <1>2, <2>1, SetInduction
<1>4. PICK f : Is(f, Len(met))
  <2> HIDE DEF Is
  <2> QED
    BY <1>3
<1> DEFINE h == [k \in 0..Len(met) |-> f[k]]
<1>5. ASSUME NEW k \in 0..Len(met)
      PROVE  h[k] = IF k = 0 THEN 0 ELSE next(k, h[k - 1])
  <2>1. h[k] = f[k] /\ (k # 0 => k - 1 \in 0..Len(met) /\ h[k - 1] = f[k - 1])
    OBVIOUS
  <2> HIDE DEF h, next
  <2> QED
    BY <1>4, <2>1
<1>6. h = [k \in 0..Len(met) |-> IF k = 0 THEN 0 ELSE next(k, h[k - 1])]
  <2>1. h = [k \in 0..Len(met) |-> h[k]]
    OBVIOUS
  <2> HIDE DEF h, next
  <2> QED
    BY <1>5, <2>1
<1> DEFINE below == CHOOSE g : g = [k \in 0..Len(met) |-> IF k = 0 THEN 0 ELSE next(k, g[k - 1])]
<1>7. below = [k \in 0..Len(met) |-> IF k = 0 THEN 0 ELSE next(k, below[k - 1])]
  <2> HIDE DEF h, next
  <2> QED
    BY <1>6
<1>8. compressed_index(index, met) = below[Len(met)]
  BY DEF compressed_index
<1>9. below[0] = 0 /\ \A k \in 1..Len(met) : below[k] = next(k, below[k - 1])
  <2> HIDE DEF below, next
  <2>1. 0 \in 0..Len(met) /\ \A k \in 1..Len(met) : k \in 0..Len(met) /\ k # 0
    OBVIOUS
  <2> QED
    BY <1>7, <2>1
<1> HIDE DEF below
<1> QED
  BY <1>8, <1>9

\* The nodes on the way up, every sibling hashed ...
LEMMA HashingDef ==
    ASSUME NEW leaf, NEW index, NEW siblings, Len(siblings) \in Nat
    PROVE  \E node :
              /\ node[0] = leaf
              /\ \A k \in 1..Len(siblings) :
                    node[k] = IF IsRight(index, k - 1) THEN poseidon2(siblings[k], node[k - 1])
                              ELSE poseidon2(node[k - 1], siblings[k])
              /\ compute_root_hashing_zeros(leaf, index, siblings) = node[Len(siblings)]
<1> DEFINE next(k, v) == IF IsRight(index, k - 1) THEN poseidon2(siblings[k], v)
                         ELSE poseidon2(v, siblings[k])
           Is(f, n) == \A k \in 0..n : f[k] = IF k = 0 THEN leaf ELSE next(k, f[k - 1])
           Has == {n \in Nat : \E f : Is(f, n)}
<1>1. 0 \in Has
  <2>1. Is([k \in {0} |-> leaf], 0)
    OBVIOUS
  <2> QED
    BY <2>1
<1>2. ASSUME NEW n \in Has PROVE n + 1 \in Has
  <2>1. PICK f : Is(f, n)
    OBVIOUS
  <2> HIDE DEF next
  <2> DEFINE h == [k \in 0..(n + 1) |-> IF k = n + 1 THEN next(n + 1, f[n]) ELSE f[k]]
  <2>2. ASSUME NEW k \in 0..(n + 1)
        PROVE  h[k] = IF k = 0 THEN leaf ELSE next(k, h[k - 1])
    <3>1. CASE k = n + 1
      <4>1. n \in 0..(n + 1) /\ n # n + 1 /\ k # 0 /\ k - 1 = n
        BY <3>1
      <4>2. h[n] = f[n] /\ h[k] = next(n + 1, f[n])
        BY <3>1, <4>1
      <4> HIDE DEF h
      <4> QED
        BY <3>1, <4>1, <4>2
    <3>2. CASE k # n + 1 /\ k # 0
      <4>1. k \in 0..n /\ k - 1 \in 0..(n + 1) /\ k - 1 # n + 1
        BY <3>2
      <4>2. h[k] = f[k] /\ h[k - 1] = f[k - 1]
        BY <3>2, <4>1
      <4> HIDE DEF h
      <4> QED
        BY <3>2, <4>1, <4>2, <2>1
    <3>3. CASE k = 0
      BY <3>3, <2>1
    <3> QED
      BY <3>1, <3>2, <3>3
  <2>3. Is(h, n + 1)
    <3> HIDE DEF h
    <3> QED
      BY <2>2
  <2> HIDE DEF Is, h
  <2> QED
    BY <2>3
<1>3. Has = Nat
  <2> HIDE DEF Is
  <2>1. Has \in SUBSET Nat
    OBVIOUS
  <2> HIDE DEF Has
  <2> QED
    BY <1>1, <1>2, <2>1, SetInduction
<1>4. PICK f : Is(f, Len(siblings))
  <2> HIDE DEF Is
  <2> QED
    BY <1>3
<1> DEFINE h == [k \in 0..Len(siblings) |-> f[k]]
<1>5. ASSUME NEW k \in 0..Len(siblings)
      PROVE  h[k] = IF k = 0 THEN leaf ELSE next(k, h[k - 1])
  <2>1. h[k] = f[k] /\ (k # 0 => k - 1 \in 0..Len(siblings) /\ h[k - 1] = f[k - 1])
    OBVIOUS
  <2> HIDE DEF h, next
  <2> QED
    BY <1>4, <2>1
<1>6. h = [k \in 0..Len(siblings) |-> IF k = 0 THEN leaf ELSE next(k, h[k - 1])]
  <2>1. h = [k \in 0..Len(siblings) |-> h[k]]
    OBVIOUS
  <2> HIDE DEF h, next
  <2> QED
    BY <1>5, <2>1
<1> DEFINE node == CHOOSE g : g = [k \in 0..Len(siblings) |-> IF k = 0 THEN leaf ELSE next(k, g[k - 1])]
<1>7. node = [k \in 0..Len(siblings) |-> IF k = 0 THEN leaf ELSE next(k, node[k - 1])]
  <2> HIDE DEF h, next
  <2> QED
    BY <1>6
<1>8. compute_root_hashing_zeros(leaf, index, siblings) = node[Len(siblings)]
  BY DEF compute_root_hashing_zeros
<1>9. node[0] = leaf /\ \A k \in 1..Len(siblings) : node[k] = next(k, node[k - 1])
  <2> HIDE DEF node, next
  <2>1. 0 \in 0..Len(siblings) /\ \A k \in 1..Len(siblings) : k \in 0..Len(siblings) /\ k # 0
    OBVIOUS
  <2> QED
    BY <1>7, <2>1
<1> HIDE DEF node
<1> QED
  BY <1>8, <1>9

\* ... and those of compute_root.
LEMMA ComputeRootDef ==
    ASSUME NEW leaf, NEW index, NEW siblings, Len(siblings) \in Nat
    PROVE  \E node :
              /\ node[0] = leaf
              /\ \A k \in 1..Len(siblings) :
                    node[k] = IF siblings[k] = Zero THEN node[k - 1]
                              ELSE IF IsRight(index, k - 1) THEN poseidon2(siblings[k], node[k - 1])
                              ELSE poseidon2(node[k - 1], siblings[k])
              /\ compute_root(leaf, index, siblings) = node[Len(siblings)]
<1> DEFINE next(k, v) == IF siblings[k] = Zero THEN v
                         ELSE IF IsRight(index, k - 1) THEN poseidon2(siblings[k], v)
                         ELSE poseidon2(v, siblings[k])
           Is(f, n) == \A k \in 0..n : f[k] = IF k = 0 THEN leaf ELSE next(k, f[k - 1])
           Has == {n \in Nat : \E f : Is(f, n)}
<1>1. 0 \in Has
  <2>1. Is([k \in {0} |-> leaf], 0)
    OBVIOUS
  <2> QED
    BY <2>1
<1>2. ASSUME NEW n \in Has PROVE n + 1 \in Has
  <2>1. PICK f : Is(f, n)
    OBVIOUS
  <2> HIDE DEF next
  <2> DEFINE h == [k \in 0..(n + 1) |-> IF k = n + 1 THEN next(n + 1, f[n]) ELSE f[k]]
  <2>2. ASSUME NEW k \in 0..(n + 1)
        PROVE  h[k] = IF k = 0 THEN leaf ELSE next(k, h[k - 1])
    <3>1. CASE k = n + 1
      <4>1. n \in 0..(n + 1) /\ n # n + 1 /\ k # 0 /\ k - 1 = n
        BY <3>1
      <4>2. h[n] = f[n] /\ h[k] = next(n + 1, f[n])
        BY <3>1, <4>1
      <4> HIDE DEF h
      <4> QED
        BY <3>1, <4>1, <4>2
    <3>2. CASE k # n + 1 /\ k # 0
      <4>1. k \in 0..n /\ k - 1 \in 0..(n + 1) /\ k - 1 # n + 1
        BY <3>2
      <4>2. h[k] = f[k] /\ h[k - 1] = f[k - 1]
        BY <3>2, <4>1
      <4> HIDE DEF h
      <4> QED
        BY <3>2, <4>1, <4>2, <2>1
    <3>3. CASE k = 0
      BY <3>3, <2>1
    <3> QED
      BY <3>1, <3>2, <3>3
  <2>3. Is(h, n + 1)
    <3> HIDE DEF h
    <3> QED
      BY <2>2
  <2> HIDE DEF Is, h
  <2> QED
    BY <2>3
<1>3. Has = Nat
  <2> HIDE DEF Is
  <2>1. Has \in SUBSET Nat
    OBVIOUS
  <2> HIDE DEF Has
  <2> QED
    BY <1>1, <1>2, <2>1, SetInduction
<1>4. PICK f : Is(f, Len(siblings))
  <2> HIDE DEF Is
  <2> QED
    BY <1>3
<1> DEFINE h == [k \in 0..Len(siblings) |-> f[k]]
<1>5. ASSUME NEW k \in 0..Len(siblings)
      PROVE  h[k] = IF k = 0 THEN leaf ELSE next(k, h[k - 1])
  <2>1. h[k] = f[k] /\ (k # 0 => k - 1 \in 0..Len(siblings) /\ h[k - 1] = f[k - 1])
    OBVIOUS
  <2> HIDE DEF h, next
  <2> QED
    BY <1>4, <2>1
<1>6. h = [k \in 0..Len(siblings) |-> IF k = 0 THEN leaf ELSE next(k, h[k - 1])]
  <2>1. h = [k \in 0..Len(siblings) |-> h[k]]
    OBVIOUS
  <2> HIDE DEF h, next
  <2> QED
    BY <1>5, <2>1
<1> DEFINE node == CHOOSE g : g = [k \in 0..Len(siblings) |-> IF k = 0 THEN leaf ELSE next(k, g[k - 1])]
<1>7. node = [k \in 0..Len(siblings) |-> IF k = 0 THEN leaf ELSE next(k, node[k - 1])]
  <2> HIDE DEF h, next
  <2> QED
    BY <1>6
<1>8. compute_root(leaf, index, siblings) = node[Len(siblings)]
  BY DEF compute_root
<1>9. node[0] = leaf /\ \A k \in 1..Len(siblings) : node[k] = next(k, node[k - 1])
  <2> HIDE DEF node, next
  <2>1. 0 \in 0..Len(siblings) /\ \A k \in 1..Len(siblings) : k \in 0..Len(siblings) /\ k # 0
    OBVIOUS
  <2> QED
    BY <1>7, <2>1
<1> HIDE DEF node
<1> QED
  BY <1>8, <1>9

-----------------------------------------------------------------------------
(* Positions in the levels.                                                *)

LEMMA AtType == \A x, k \in Nat : At(x, k) \in Nat
<1> TAKE x \in Nat
<1> DEFINE S == {k \in Nat : At(x, k) \in Nat}
<1>1. 0 \in S
  BY AtDef
<1>2. ASSUME NEW k \in S PROVE k + 1 \in S
  <2>1. k + 1 \in Nat /\ k + 1 # 0 /\ (k + 1) - 1 = k
    OBVIOUS
  <2>2. At(x, k + 1) = At(x, k) \div 2
    BY <2>1, AtDef
  <2> QED
    BY <2>2
<1>3. S \in SUBSET Nat
  OBVIOUS
<1> HIDE DEF S
<1>4. S = Nat
  BY <1>1, <1>2, <1>3, SetInduction
<1> QED
  BY <1>4 DEF S

LEMMA AtNext == \A x, k \in Nat : /\ At(x, 0) = x
                                  /\ At(x, k + 1) = At(x, k) \div 2
<1> TAKE x, k \in Nat
<1>1. k + 1 \in Nat /\ k + 1 # 0 /\ (k + 1) - 1 = k
  OBVIOUS
<1> QED
  BY <1>1, AtDef

\* A leaf further right is further right in every level, by one at most.
LEMMA AtSuccessor ==
    \A x, k \in Nat : At(x, k) <= At(x + 1, k) /\ At(x + 1, k) <= At(x, k) + 1
<1> TAKE x \in Nat
<1> DEFINE S == {k \in Nat : At(x, k) <= At(x + 1, k) /\ At(x + 1, k) <= At(x, k) + 1}
<1>1. 0 \in S
  BY AtNext
<1>2. ASSUME NEW k \in S PROVE k + 1 \in S
  <2>1. At(x, k) \in Nat /\ At(x + 1, k) \in Nat
    BY AtType
  <2>2. At(x, k + 1) = At(x, k) \div 2 /\ At(x + 1, k + 1) = At(x + 1, k) \div 2
    BY AtNext
  <2> QED
    BY <2>1, <2>2
<1>3. S \in SUBSET Nat
  OBVIOUS
<1> HIDE DEF S
<1>4. S = Nat
  BY <1>1, <1>2, <1>3, SetInduction
<1> QED
  BY <1>4 DEF S

\* Every number is shifted to zero.
LEMMA AtEnds == \A x, k \in Nat : At(x, k) = 0 \/ At(x, k) + k <= x
<1> TAKE x \in Nat
<1> DEFINE S == {k \in Nat : At(x, k) = 0 \/ At(x, k) + k <= x}
<1>1. 0 \in S
  BY AtNext
<1>2. ASSUME NEW k \in S PROVE k + 1 \in S
  <2>1. At(x, k) \in Nat /\ At(x, k + 1) = At(x, k) \div 2
    BY AtType, AtNext
  <2> QED
    BY <2>1
<1>3. S \in SUBSET Nat
  OBVIOUS
<1> HIDE DEF S
<1>4. S = Nat
  BY <1>1, <1>2, <1>3, SetInduction
<1> QED
  BY <1>4 DEF S

LEMMA BitLength ==
    ASSUME NEW n \in Nat
    PROVE  /\ bit_length(n) \in 0..n
           /\ At(n, bit_length(n)) = 0
           /\ \A k \in 0..(bit_length(n) - 1) : At(n, k) # 0
<1> DEFINE S == {k \in Nat : At(n, k) = 0}
<1>1. n \in S
  <2>1. At(n, n) \in Nat /\ (At(n, n) = 0 \/ At(n, n) + n <= n)
    BY AtType, AtEnds
  <2> QED
    BY <2>1
<1>2. PICK b \in S : \A k \in S : b <= k
  BY <1>1, LeastElement
<1>3. b \in 0..n /\ At(n, b) = 0 /\ \A k \in 0..(b - 1) : At(n, k) # 0
  BY <1>1, <1>2
<1> QED
  BY <1>3, Zenon DEF bit_length

\* The depth of a tree of n leaves is the first level that has one node.
LEMMA DepthIs ==
    ASSUME NEW n \in Nat, n > 0
    PROVE  /\ ceil_log2(n) \in Nat
           /\ At(n - 1, ceil_log2(n)) = 0
           /\ \A k \in 0..(ceil_log2(n) - 1) : At(n - 1, k) # 0
<1>1. n - 1 \in Nat
  OBVIOUS
<1>2. bit_length(0) = 0
  BY BitLength
<1>3. ceil_log2(n) = bit_length(n - 1)
  <2>1. CASE n = 1
    <3>1. n - 1 = 0 /\ n <= 1
      BY <2>1
    <3> QED
      BY <3>1, <1>2 DEF ceil_log2
  <2>2. CASE n # 1
    BY <2>2 DEF ceil_log2
  <2> QED
    BY <2>1, <2>2
<1> QED
  BY <1>1, <1>3, BitLength

\* The first zero is the bit length.
LEMMA DepthUnique ==
    ASSUME NEW n \in Nat, n > 0, NEW d \in Nat, At(n - 1, d) = 0,
           \A k \in 0..(d - 1) : At(n - 1, k) # 0
    PROVE  ceil_log2(n) = d
<1> DEFINE c == ceil_log2(n)
<1>1. c \in Nat /\ At(n - 1, c) = 0 /\ \A k \in 0..(c - 1) : At(n - 1, k) # 0
  BY DepthIs
<1> HIDE DEF c
<1>2. ~ (c < d) /\ ~ (d < c)
  BY <1>1
<1>3. c = d
  BY <1>1, <1>2
<1> QED
  BY <1>3 DEF c

\* One leaf more adds a level exactly if it does not fit under the root.
LEMMA DepthGrows ==
    ASSUME NEW n \in Nat, n > 0
    PROVE  /\ ceil_log2(n + 1) = ceil_log2(n) \/ ceil_log2(n + 1) = ceil_log2(n) + 1
           /\ At(n, ceil_log2(n)) \in {0, 1}
           /\ ceil_log2(n + 1) = ceil_log2(n) <=> At(n, ceil_log2(n)) = 0
<1> DEFINE c == ceil_log2(n)
<1>1. c \in Nat /\ At(n - 1, c) = 0 /\ \A k \in 0..(c - 1) : At(n - 1, k) # 0
  BY DepthIs
<1> HIDE DEF c
<1>2. ASSUME NEW k \in Nat PROVE At(n - 1, k) \in Nat /\ At(n, k) \in Nat
                                 /\ At(n - 1, k) <= At(n, k) /\ At(n, k) <= At(n - 1, k) + 1
  <2>1. n - 1 \in Nat /\ (n - 1) + 1 = n
    OBVIOUS
  <2> QED
    BY <2>1, AtType, AtSuccessor
<1>3. At(n, c) \in {0, 1} /\ \A k \in 0..(c - 1) : At(n, k) # 0
  <2>1. At(n, c) \in {0, 1}
    <3>1. At(n - 1, c) = 0 /\ At(n, c) \in Nat /\ At(n, c) <= At(n - 1, c) + 1
      BY <1>1, <1>2
    <3> QED
      BY <3>1
  <2>2. ASSUME NEW k \in 0..(c - 1) PROVE At(n, k) # 0
    <3>1. k \in Nat /\ At(n - 1, k) # 0
      BY <1>1
    <3>2. At(n - 1, k) \in Nat /\ At(n, k) \in Nat /\ At(n - 1, k) <= At(n, k)
      BY <3>1, <1>2
    <3> QED
      BY <3>1, <3>2
  <2> QED
    BY <2>1, <2>2
<1>4. n + 1 \in Nat /\ n + 1 > 0 /\ (n + 1) - 1 = n
  OBVIOUS
<1>5. CASE At(n, c) = 0
  <2>1. ceil_log2(n + 1) = c
    BY <1>1, <1>3, <1>4, <1>5, DepthUnique
  <2> QED
    BY <2>1, <1>1, <1>3, <1>5 DEF c
<1>6. CASE At(n, c) = 1
  <2>1. At(n, c + 1) = 0
    BY <1>1, <1>6, AtNext
  <2>2. \A k \in 0..((c + 1) - 1) : At(n, k) # 0
    BY <1>1, <1>3, <1>6
  <2>3. ceil_log2(n + 1) = c + 1
    BY <1>1, <1>4, <2>1, <2>2, DepthUnique
  <2> QED
    BY <2>3, <1>1, <1>3, <1>6 DEF c
<1> QED
  BY <1>3, <1>5, <1>6

-----------------------------------------------------------------------------
(* The rows over a list of leaves.                                         *)

IsRow(f, m) == f = [j \in 1..m |-> f[j]]

LEMMA RowLen ==
    ASSUME NEW m \in Nat, NEW f, IsRow(f, m)
    PROVE  Len(f) = m /\ DOMAIN f = 1..m
<1> DEFINE T == {f[j] : j \in 1..m}
<1>1. f \in [1..m -> T]
  BY DEF IsRow
<1>2. f \in Seq(T)
  BY <1>1
<1> HIDE DEF T
<1>3. DOMAIN f = 1..m /\ DOMAIN f = 1..Len(f) /\ Len(f) \in Nat
  BY <1>1, <1>2
<1> QED
  BY <1>3

LEMMA SeqIsRow == ASSUME NEW T, NEW seq \in Seq(T) PROVE IsRow(seq, Len(seq)) /\ Len(seq) \in Nat
BY DEF IsRow

LEMMA ParentsIs ==
    ASSUME NEW m \in Nat, NEW f, IsRow(f, m + 1)
    PROVE  /\ IsRow(Parents(f), (m \div 2) + 1)
           /\ \A j \in 1..((m \div 2) + 1) :
                 Parents(f)[j] = IF 2 * j <= m + 1 THEN <<f[2 * j - 1], f[2 * j]>> ELSE f[2 * j - 1]
<1>1. Len(f) = m + 1
  <2>1. m + 1 \in Nat
    OBVIOUS
  <2> QED
    BY <2>1, RowLen
<1>2. (Len(f) + 1) \div 2 = (m \div 2) + 1
  BY <1>1
<1>3. Parents(f) = [j \in 1..((m \div 2) + 1) |->
                      IF 2 * j <= m + 1 THEN <<f[2 * j - 1], f[2 * j]>> ELSE f[2 * j - 1]]
  BY <1>1, <1>2 DEF Parents, poseidon2
<1> HIDE DEF IsRow
<1>4. ASSUME NEW g, NEW h, NEW M, g = [j \in 1..M |-> h[j]] PROVE IsRow(g, M)
  BY <1>4 DEF IsRow
<1> DEFINE M == (m \div 2) + 1
           h == [j \in 1..M |-> IF 2 * j <= m + 1 THEN <<f[2 * j - 1], f[2 * j]>> ELSE f[2 * j - 1]]
<1>5. h = [j \in 1..M |-> h[j]]
  OBVIOUS
<1>6. \A j \in 1..M : h[j] = IF 2 * j <= m + 1 THEN <<f[2 * j - 1], f[2 * j]>> ELSE f[2 * j - 1]
  OBVIOUS
<1>7. Parents(f) = h
  BY <1>3
<1> HIDE DEF h
<1>8. IsRow(h, M)
  BY <1>5 DEF IsRow
<1> QED
  BY <1>6, <1>7, <1>8

\* Each level has one node for each position that a leaf has in it.
LEMMA RowShape ==
    ASSUME NEW T, NEW seq \in Seq(T), Len(seq) > 0
    PROVE  \A k \in Nat : /\ IsRow(Row(seq, k), At(Len(seq) - 1, k) + 1)
                          /\ Len(Row(seq, k)) = At(Len(seq) - 1, k) + 1
                          /\ DOMAIN Row(seq, k) = 1..(At(Len(seq) - 1, k) + 1)
<1> DEFINE n == Len(seq) - 1
<1>0. n \in Nat /\ Len(seq) = n + 1 /\ IsRow(seq, n + 1)
  BY SeqIsRow
<1> HIDE DEF n
<1> DEFINE S == {k \in Nat : IsRow(Row(seq, k), At(n, k) + 1)}
<1>1. 0 \in S
  BY <1>0, RowDef, AtNext
<1>2. ASSUME NEW k \in S PROVE k + 1 \in S
  <2>1. k + 1 \in Nat /\ k + 1 # 0 /\ (k + 1) - 1 = k
    OBVIOUS
  <2>2. Row(seq, k + 1) = Parents(Row(seq, k))
    BY <2>1, RowDef
  <2>3. At(n, k) \in Nat /\ At(n, k + 1) = At(n, k) \div 2
    BY <1>0, AtType, AtNext
  <2>4. IsRow(Parents(Row(seq, k)), (At(n, k) \div 2) + 1)
    BY <2>3, ParentsIs
  <2> QED
    BY <2>1, <2>2, <2>3, <2>4
<1>3. S \in SUBSET Nat
  OBVIOUS
<1> HIDE DEF S
<1>4. S = Nat
  BY <1>1, <1>2, <1>3, SetInduction
<1> SUFFICES ASSUME NEW k \in Nat
             PROVE  /\ IsRow(Row(seq, k), At(n, k) + 1)
                    /\ Len(Row(seq, k)) = At(n, k) + 1
                    /\ DOMAIN Row(seq, k) = 1..(At(n, k) + 1)
  BY DEF n
<1>5. IsRow(Row(seq, k), At(n, k) + 1)
  BY <1>4 DEF S
<1>6. At(n, k) + 1 \in Nat
  <2>1. At(n, k) \in Nat
    BY <1>0, AtType
  <2> QED
    BY <2>1
<1> QED
  BY <1>5, <1>6, RowLen

\* A node is the hash of the two below it, or the one that is there.
LEMMA RowNode ==
    ASSUME NEW T, NEW seq \in Seq(T), Len(seq) > 0, NEW k \in Nat,
           NEW j \in 1..(At(Len(seq) - 1, k + 1) + 1)
    PROVE  Row(seq, k + 1)[j] = IF 2 * j <= At(Len(seq) - 1, k) + 1
                                THEN <<Row(seq, k)[2 * j - 1], Row(seq, k)[2 * j]>>
                                ELSE Row(seq, k)[2 * j - 1]
<1> DEFINE n == Len(seq) - 1
           m == At(n, k)
<1>1. n \in Nat
  OBVIOUS
<1>2. m \in Nat /\ At(n, k + 1) = m \div 2
  BY <1>1, AtType, AtNext
<1>3. IsRow(Row(seq, k), m + 1)
  BY RowShape
<1>4. Row(seq, k + 1) = Parents(Row(seq, k))
  <2>1. k + 1 \in Nat /\ k + 1 # 0 /\ (k + 1) - 1 = k
    OBVIOUS
  <2> QED
    BY <2>1, RowDef
<1>5. j \in 1..((m \div 2) + 1)
  BY <1>2
<1> HIDE DEF m, n
<1>6. Parents(Row(seq, k))[j] = IF 2 * j <= m + 1
                                THEN <<Row(seq, k)[2 * j - 1], Row(seq, k)[2 * j]>>
                                ELSE Row(seq, k)[2 * j - 1]
  BY <1>2, <1>3, <1>5, ParentsIs
<1> QED
  BY <1>4, <1>6 DEF m, n

\* Two rows with the same nodes are the same.
LEMMA RowsEqual ==
    ASSUME NEW f, NEW g, NEW m, IsRow(f, m), IsRow(g, m), \A j \in 1..m : f[j] = g[j]
    PROVE  f = g
BY DEF IsRow

-----------------------------------------------------------------------------
(* Insertion.                                                              *)

\* A leaf that is appended leaves the nodes to the left of its path alone.
LEMMA RowKept ==
    ASSUME NEW T, NEW seq \in Seq(T), Len(seq) > 0, NEW leaf \in T
    PROVE  \A k \in Nat : \A j \in 1..At(Len(seq), k) :
              Row(Append(seq, leaf), k)[j] = Row(seq, k)[j]
<1> DEFINE n == Len(seq)
           new == Append(seq, leaf)
<1>1. /\ n \in Nat /\ n - 1 \in Nat /\ (n - 1) + 1 = n
      /\ new \in Seq(T) /\ Len(new) = n + 1 /\ Len(new) > 0 /\ Len(new) - 1 = n
      /\ \A j \in 1..n : new[j] = seq[j]
  OBVIOUS
<1> HIDE DEF new
<1> DEFINE S == {k \in Nat : \A j \in 1..At(n, k) : Row(new, k)[j] = Row(seq, k)[j]}
<1>2. 0 \in S
  BY <1>1, RowDef, AtNext
<1>3. ASSUME NEW k \in S PROVE k + 1 \in S
  <2>1. /\ At(n, k) \in Nat /\ At(n, k + 1) = At(n, k) \div 2
        /\ At(n - 1, k) \in Nat /\ At(n - 1, k + 1) = At(n - 1, k) \div 2
        /\ At(n, k) <= At(n - 1, k) + 1
    BY <1>1, AtType, AtNext, AtSuccessor
  <2>2. ASSUME NEW j \in 1..At(n, k + 1) PROVE Row(new, k + 1)[j] = Row(seq, k + 1)[j]
    <3>1. /\ j \in 1..(At(n, k + 1) + 1) /\ 2 * j <= At(n, k) + 1
          /\ 2 * j - 1 \in 1..At(n, k) /\ 2 * j \in 1..At(n, k)
          /\ j \in 1..(At(n - 1, k + 1) + 1) /\ 2 * j <= At(n - 1, k) + 1
      BY <2>1
    <3>2. Row(new, k + 1)[j] = <<Row(new, k)[2 * j - 1], Row(new, k)[2 * j]>>
      <4>1. j \in 1..(At(Len(new) - 1, k + 1) + 1) /\ 2 * j <= At(Len(new) - 1, k) + 1
        BY <1>1, <3>1
      <4> QED
        BY <1>1, <4>1, RowNode
    <3>3. Row(seq, k + 1)[j] = <<Row(seq, k)[2 * j - 1], Row(seq, k)[2 * j]>>
      BY <3>1, RowNode
    <3> QED
      BY <3>1, <3>2, <3>3
  <2> QED
    BY <2>2
<1>4. S \in SUBSET Nat
  OBVIOUS
<1> HIDE DEF S
<1>5. S = Nat
  BY <1>2, <1>3, <1>4, SetInduction
<1> QED
  BY <1>5 DEF S, new

\* The last node of each row is the one that insert computes on its way up.
LEMMA RowLast ==
    ASSUME NEW T, NEW seq \in Seq(T), Len(seq) > 0, NEW leaf \in T, NEW k \in Nat
    PROVE  LET n   == Len(seq)
               new == Append(seq, leaf)
           IN  /\ Row(new, 0)[At(n, 0) + 1] = leaf
               /\ Row(new, k + 1)[At(n, k + 1) + 1] =
                     IF IsRight(n, k)
                     THEN poseidon2(Row(seq, k)[At(n, k)], Row(new, k)[At(n, k) + 1])
                     ELSE Row(new, k)[At(n, k) + 1]
<1> DEFINE n == Len(seq)
           new == Append(seq, leaf)
           a == At(n, k)
<1>1. /\ n \in Nat
      /\ new \in Seq(T) /\ Len(new) > 0 /\ Len(new) - 1 = n
      /\ new[n + 1] = leaf
  OBVIOUS
<1> HIDE DEF new
<1>2. Row(new, 0)[At(n, 0) + 1] = leaf
  BY <1>1, RowDef, AtNext
<1>3. a \in Nat /\ At(n, k + 1) = a \div 2
  BY <1>1, AtType, AtNext
<1> HIDE DEF a
<1> DEFINE j == (a \div 2) + 1
<1>4. Row(new, k + 1)[j] = IF 2 * j <= a + 1
                           THEN <<Row(new, k)[2 * j - 1], Row(new, k)[2 * j]>>
                           ELSE Row(new, k)[2 * j - 1]
  <2>1. j \in 1..(At(Len(new) - 1, k + 1) + 1)
    BY <1>1, <1>3
  <2> HIDE DEF j
  <2> QED
    BY <1>1, <2>1, RowNode DEF a
<1>5. CASE a % 2 = 1
  <2>1. 2 * j = a + 1 /\ 2 * j - 1 = a /\ a \in 1..a
    BY <1>3, <1>5
  <2>2. Row(new, k)[a] = Row(seq, k)[a]
    BY <2>1, RowKept DEF a, new
  <2>3. Row(new, k + 1)[j] = <<Row(seq, k)[a], Row(new, k)[a + 1]>>
    <3> HIDE DEF j
    <3>1. 2 * j <= a + 1
      BY <2>1, <1>3
    <3> QED
      BY <1>4, <2>1, <2>2, <3>1
  <2>4. IsRight(n, k)
    BY <1>5 DEF IsRight, a
  <2> QED
    BY <1>2, <1>3, <2>3, <2>4 DEF a, new, poseidon2
<1>6. CASE a % 2 # 1
  <2>1. ~ (2 * j <= a + 1) /\ 2 * j - 1 = a + 1
    BY <1>3, <1>6
  <2>2. Row(new, k + 1)[j] = Row(new, k)[a + 1]
    <3> HIDE DEF j
    <3> QED
      BY <1>4, <2>1
  <2>3. ~IsRight(n, k)
    BY <1>6 DEF IsRight, a
  <2> QED
    BY <1>2, <1>3, <2>2, <2>3 DEF a, new
<1> QED
  BY <1>5, <1>6

\* Assigning that node gives the row of the longer list.
LEMMA SetIs ==
    ASSUME NEW T, NEW seq \in Seq(T), Len(seq) > 0, NEW leaf \in T, NEW k \in Nat
    PROVE  LET n   == Len(seq)
               new == Append(seq, leaf)
           IN  set(Row(seq, k), At(n, k), Row(new, k)[At(n, k) + 1]) = Row(new, k)
<1> DEFINE n == Len(seq)
           new == Append(seq, leaf)
           a == At(n, k)
           old == Row(seq, k)
           val == Row(new, k)[a + 1]
<1>1. /\ n \in Nat /\ n - 1 \in Nat /\ (n - 1) + 1 = n
      /\ new \in Seq(T) /\ Len(new) > 0 /\ Len(new) - 1 = n
  OBVIOUS
<1>2. IsRow(Row(new, k), a + 1)
  <2> HIDE DEF new
  <2> QED
    BY <1>1, RowShape
<1>3. \A j \in 1..a : Row(new, k)[j] = old[j]
  BY RowKept
<1>4. /\ a \in Nat /\ At(n - 1, k) \in Nat /\ At(n - 1, k) <= a /\ a <= At(n - 1, k) + 1
      /\ Len(old) = At(n - 1, k) + 1
  BY <1>1, AtType, AtSuccessor, RowShape
<1> HIDE DEF new, a, old, val
<1>5. (IF a < Len(old) THEN Len(old) ELSE a + 1) = a + 1
  BY <1>4
<1>6. set(old, a, val) = [m \in 1..(a + 1) |->
                            IF m = a + 1 THEN val ELSE IF m <= Len(old) THEN old[m] ELSE Zero]
  BY <1>5 DEF set
<1>7. IsRow(set(old, a, val), a + 1)
  BY <1>6 DEF IsRow
<1>8. ASSUME NEW j \in 1..(a + 1) PROVE set(old, a, val)[j] = Row(new, k)[j]
  <2>1. CASE j = a + 1
    BY <1>6, <2>1 DEF val
  <2>2. CASE j # a + 1
    <3>1. j \in 1..a /\ j <= Len(old)
      BY <1>4, <2>2
    <3> QED
      BY <1>3, <1>6, <2>2, <3>1
  <2> QED
    BY <2>1, <2>2
<1>9. set(old, a, val) = Row(new, k)
  BY <1>2, <1>7, <1>8, RowsEqual
<1> QED
  BY <1>9 DEF new, a, old, val

LEMMA InitTree == TreeInit => TreeInv
<1> SUFFICES ASSUME TreeInit PROVE TreeInv
  OBVIOUS
<1>1. leaves = <<>> /\ size = 0
  BY DEF TreeInit, leaves, size
<1>2. ceil_log2(0) = 0
  BY DEF ceil_log2
<1>3. Row(<<>>, 0) = <<>>
  BY RowDef
<1>4. leaves \in Seq(Leaves)
  BY <1>1
<1>5. nodes = [k \in 1..1 |-> <<>>]
  BY DEF TreeInit
<1>6. [k \in 1..(ceil_log2(size) + 1) |-> Row(leaves, k - 1)] = [k \in 1..1 |-> <<>>]
  <2>1. ceil_log2(size) + 1 = 1
    BY <1>1, <1>2
  <2>2. \A k \in 1..1 : Row(leaves, k - 1) = <<>>
    BY <1>1, <1>3
  <2> QED
    BY <2>1, <2>2
<1> QED
  BY <1>4, <1>5, <1>6 DEF TreeInv

\* What TreeInv says, step by step.
LEMMA TreeIs ==
    ASSUME TreeInv
    PROVE  /\ size \in Nat /\ leaves \in Seq(Leaves) /\ Len(leaves) = size
           /\ depth = ceil_log2(size) /\ depth \in Nat
           /\ Len(nodes) = depth + 1 /\ DOMAIN nodes = 1..(depth + 1)
           /\ \A k \in 0..depth : nodes[k + 1] = Row(leaves, k)
<1>1. size \in Nat /\ leaves \in Seq(Leaves) /\ Len(leaves) = size
  BY DEF TreeInv, size
<1>2. ceil_log2(size) \in Nat
  <2>1. CASE size = 0
    BY <2>1 DEF ceil_log2
  <2>2. CASE size > 0
    BY <1>1, <2>2, DepthIs
  <2> QED
    BY <1>1, <2>1, <2>2
<1> DEFINE d == ceil_log2(size)
<1>3. nodes = [k \in 1..(d + 1) |-> Row(leaves, k - 1)]
  BY DEF TreeInv
<1>4. IsRow(nodes, d + 1)
  BY <1>3 DEF IsRow
<1>5. d + 1 \in Nat
  BY <1>2
<1>6. Len(nodes) = d + 1 /\ DOMAIN nodes = 1..(d + 1)
  <2> HIDE DEF d
  <2> QED
    BY <1>4, <1>5, RowLen
<1>7. depth = d
  BY <1>2, <1>6 DEF depth
<1>8. ASSUME NEW k \in 0..d PROVE nodes[k + 1] = Row(leaves, k)
  <2>1. k + 1 \in 1..(d + 1) /\ (k + 1) - 1 = k
    BY <1>2
  <2> HIDE DEF d
  <2> QED
    BY <1>3, <2>1
<1> QED
  BY <1>1, <1>2, <1>6, <1>7, <1>8

\* The levels that insert works on: nodes, with an empty one where the leaf
\* does not fit under the root.
LEMMA LevelsGrown ==
    ASSUME TreeInv, size > 0
    PROVE  LET levels == IF depth < ceil_log2(size + 1) THEN Append(nodes, <<>>) ELSE nodes
           IN  /\ ceil_log2(size + 1) \in Nat
               /\ Len(levels) = ceil_log2(size + 1) + 1
               /\ \A k \in 1..ceil_log2(size + 1) : levels[k] = Row(leaves, k - 1)
<1> DEFINE E == ceil_log2(size + 1)
           levels == IF depth < E THEN Append(nodes, <<>>) ELSE nodes
<1>1. /\ size \in Nat /\ depth = ceil_log2(size) /\ depth \in Nat /\ Len(nodes) = depth + 1
      /\ \A k \in 0..depth : nodes[k + 1] = Row(leaves, k)
  BY TreeIs
<1>2. E = depth \/ E = depth + 1
  BY <1>1, DepthGrows
<1>3. nodes \in Seq({nodes[k] : k \in 1..(depth + 1)} \cup {<<>>})
  <2>1. nodes = [k \in 1..(depth + 1) |-> nodes[k]]
    BY <1>1 DEF TreeInv
  <2> QED
    BY <1>1, <2>1
<1> HIDE DEF E
<1>4. CASE E = depth
  <2>1. levels = nodes
    BY <1>1, <1>4
  <2>2. ASSUME NEW k \in 1..E PROVE levels[k] = Row(leaves, k - 1)
    <3>1. k - 1 \in 0..depth /\ (k - 1) + 1 = k
      BY <1>1, <1>4
    <3> QED
      BY <1>1, <2>1, <3>1
  <2> QED
    BY <1>1, <1>4, <2>1, <2>2 DEF E
<1>5. CASE E = depth + 1
  <2>1. levels = Append(nodes, <<>>)
    BY <1>1, <1>5
  <2>2. Len(levels) = E + 1 /\ \A k \in 1..E : levels[k] = nodes[k]
    BY <1>1, <1>3, <1>5, <2>1
  <2>3. ASSUME NEW k \in 1..E PROVE levels[k] = Row(leaves, k - 1)
    <3>1. k - 1 \in 0..depth /\ (k - 1) + 1 = k
      BY <1>1, <1>5
    <3> QED
      BY <1>1, <2>2, <3>1
  <2> QED
    BY <1>1, <1>5, <2>2, <2>3 DEF E
<1> QED
  BY <1>2, <1>4, <1>5

\* The first leaf.
LEMMA InsertFirst ==
    ASSUME TreeInv, size = 0, NEW leaf \in Leaves, insert(leaf)
    PROVE  nodes' = <<<<leaf>>>>
<1>1. /\ depth = ceil_log2(size) /\ Len(nodes) = depth + 1 /\ ceil_log2(0) = 0
  BY TreeIs DEF ceil_log2
<1>2. ceil_log2(size + 1) = 0
  BY DEF ceil_log2
<1> DEFINE levels == IF depth < ceil_log2(size + 1) THEN Append(nodes, <<>>) ELSE nodes
           node == PathNodes(levels, leaf)
           top == Len(levels) - 1
<1>3. levels = nodes /\ top = 0
  BY <1>1, <1>2
<1>4. node[0] = leaf
  <2>1. top \in Nat /\ top = Len(levels) - 1
    BY <1>3
  <2> HIDE DEF top, levels
  <2> QED
    BY <2>1, PathNodesDef
<1>5. nodes' = [k \in 1..Len(levels) |->
                   IF k - 1 < top THEN set(levels[k], At(size, k - 1), node[k - 1])
                   ELSE <<node[top]>>]
  BY DEF insert
<1>6. Len(levels) = 1
  BY <1>1, <1>3
<1> HIDE DEF levels, node, top
<1>7. nodes' = [k \in 1..1 |-> <<leaf>>]
  <2>1. \A k \in 1..1 : ~(k - 1 < top) /\ node[top] = leaf
    BY <1>3, <1>4
  <2> QED
    BY <1>5, <1>6, <2>1
<1>8. [k \in 1..1 |-> <<leaf>>] = <<<<leaf>>>>
  OBVIOUS
<1> QED
  BY <1>7, <1>8

\* Every further leaf.
LEMMA InsertNext ==
    ASSUME TreeInv, size > 0, NEW leaf \in Leaves, insert(leaf)
    PROVE  nodes' = [k \in 1..(ceil_log2(size + 1) + 1) |-> Row(Append(leaves, leaf), k - 1)]
<1> DEFINE E == ceil_log2(size + 1)
           levels == IF depth < E THEN Append(nodes, <<>>) ELSE nodes
           top == Len(levels) - 1
           new == Append(leaves, leaf)
<1>1. size \in Nat /\ leaves \in Seq(Leaves) /\ Len(leaves) = size /\ Len(leaves) > 0
  BY TreeIs
<1>2. E \in Nat /\ Len(levels) = E + 1 /\ \A k \in 1..E : levels[k] = Row(leaves, k - 1)
  BY LevelsGrown
<1>3. top = E
  BY <1>2
<1>4. nodes' = [k \in 1..Len(levels) |->
                   IF k - 1 < top THEN set(levels[k], At(size, k - 1), PathNodes(levels, leaf)[k - 1])
                   ELSE <<PathNodes(levels, leaf)[top]>>]
  BY DEF insert
<1>5. At(size, E) = 0
  <2>1. size + 1 \in Nat /\ size + 1 > 0 /\ (size + 1) - 1 = size
    BY <1>1
  <2> QED
    BY <2>1, DepthIs
<1> HIDE DEF E
<1>6. PICK node : /\ node[0] = leaf
                  /\ \A k \in 1..E :
                        node[k] = IF IsRight(size, k - 1)
                                  THEN poseidon2(levels[k][At(size, k - 1)], node[k - 1])
                                  ELSE node[k - 1]
                  /\ PathNodes(levels, leaf) = node
  <2>1. E = Len(levels) - 1
    BY <1>2
  <2> HIDE DEF levels
  <2> QED
    BY <1>2, <2>1, PathNodesDef
<1> HIDE DEF levels, new
<1> DEFINE S == {k \in Nat : k <= E => node[k] = Row(new, k)[At(size, k) + 1]}
<1>7. 0 \in S
  <2>1. Row(new, 0)[At(size, 0) + 1] = leaf
    BY <1>1, RowLast DEF new
  <2> QED
    BY <1>6, <2>1
<1>8. ASSUME NEW k \in S PROVE k + 1 \in S
  <2> SUFFICES ASSUME k + 1 <= E PROVE node[k + 1] = Row(new, k + 1)[At(size, k + 1) + 1]
    OBVIOUS
  <2>1. (k + 1) - 1 = k /\ k + 1 \in 1..E /\ k \in Nat
    BY <1>2
  <2>2. node[k] = Row(new, k)[At(size, k) + 1]
    BY <1>2, <2>1
  <2>3. node[k + 1] = IF IsRight(size, k) THEN poseidon2(levels[k + 1][At(size, k)], node[k])
                                          ELSE node[k]
    BY <1>6, <2>1
  <2>4. levels[k + 1] = Row(leaves, k)
    BY <1>2, <2>1
  <2>5. Row(new, k + 1)[At(size, k + 1) + 1] =
           IF IsRight(size, k) THEN poseidon2(Row(leaves, k)[At(size, k)], Row(new, k)[At(size, k) + 1])
                               ELSE Row(new, k)[At(size, k) + 1]
    BY <1>1, <2>1, RowLast DEF new
  <2> QED
    BY <2>2, <2>3, <2>4, <2>5
<1>9. S = Nat
  <2>1. S \in SUBSET Nat
    OBVIOUS
  <2> HIDE DEF S
  <2> QED
    BY <1>7, <1>8, <2>1, SetInduction
<1>10. ASSUME NEW k \in 1..(E + 1)
       PROVE  (IF k - 1 < E THEN set(levels[k], At(size, k - 1), node[k - 1]) ELSE <<node[E]>>)
                 = Row(new, k - 1)
  <2>1. CASE k - 1 < E
    <3>1. k \in 1..E /\ k - 1 \in Nat /\ k - 1 <= E
      BY <1>2, <2>1
    <3>2. node[k - 1] = Row(new, k - 1)[At(size, k - 1) + 1]
      BY <1>9, <3>1
    <3>3. levels[k] = Row(leaves, k - 1)
      BY <1>2, <3>1
    <3>4. set(Row(leaves, k - 1), At(size, k - 1), Row(new, k - 1)[At(size, k - 1) + 1]) = Row(new, k - 1)
      BY <1>1, <3>1, SetIs DEF new
    <3> QED
      BY <2>1, <3>2, <3>3, <3>4
  <2>2. CASE ~ (k - 1 < E)
    <3>1. k - 1 = E
      BY <1>2, <2>2
    <3>2. node[E] = Row(new, E)[1]
      <4>1. node[E] = Row(new, E)[At(size, E) + 1]
        BY <1>2, <1>9
      <4> QED
        BY <1>5, <4>1
    <3>3. IsRow(Row(new, E), 1)
      <4>1. new \in Seq(Leaves) /\ Len(new) > 0 /\ Len(new) - 1 = size
        BY <1>1 DEF new
      <4>2. IsRow(Row(new, E), At(Len(new) - 1, E) + 1)
        BY <1>2, <4>1, RowShape
      <4> QED
        BY <1>5, <4>1, <4>2
    <3>4. Row(new, E) = <<Row(new, E)[1]>>
      <4>1. Row(new, E) = [j \in 1..1 |-> Row(new, E)[j]]
        BY <3>3 DEF IsRow
      <4> QED
        BY <4>1
    <3> QED
      BY <2>2, <3>1, <3>2, <3>4
  <2> QED
    BY <2>1, <2>2
<1> HIDE DEF S
<1>11. nodes' = [k \in 1..(E + 1) |-> Row(new, k - 1)]
  <2>1. nodes' = [k \in 1..(E + 1) |->
                     IF k - 1 < E THEN set(levels[k], At(size, k - 1), node[k - 1]) ELSE <<node[E]>>]
    BY <1>2, <1>3, <1>4, <1>6
  <2> QED
    BY <1>10, <2>1
<1> QED
  BY <1>11 DEF E, new

LEMMA InsertTree ==
    ASSUME TreeInv, NEW leaf \in Leaves, insert(leaf)
    PROVE  /\ TreeInv'
           /\ leaves' = Append(leaves, leaf)
<1>1. size \in Nat /\ leaves \in Seq(Leaves) /\ Len(leaves) = size
  BY TreeIs
<1> DEFINE new == Append(leaves, leaf)
<1>2. new \in Seq(Leaves) /\ Len(new) = size + 1
  BY <1>1
<1>3. nodes' = [k \in 1..(ceil_log2(size + 1) + 1) |-> Row(new, k - 1)]
  <2>1. CASE size = 0
    <3>1. nodes' = <<<<leaf>>>>
      BY <2>1, InsertFirst
    <3>2. ceil_log2(size + 1) = 0
      BY <2>1 DEF ceil_log2
    <3>3. leaves = <<>>
      BY <1>1, <2>1
    <3>4. new = <<leaf>>
      BY <3>3
    <3>5. Row(new, 0) = <<leaf>>
      BY <3>4, RowDef
    <3> HIDE DEF new
    <3>6. [k \in 1..(ceil_log2(size + 1) + 1) |-> Row(new, k - 1)] = [k \in 1..1 |-> <<leaf>>]
      <4>1. ceil_log2(size + 1) + 1 = 1
        BY <3>2
      <4>2. \A k \in 1..1 : Row(new, k - 1) = <<leaf>>
        BY <3>5
      <4> QED
        BY <4>1, <4>2
    <3>7. [k \in 1..1 |-> <<leaf>>] = <<<<leaf>>>>
      OBVIOUS
    <3> QED
      BY <3>1, <3>6, <3>7
  <2>2. CASE size > 0
    BY <2>2, InsertNext
  <2> QED
    BY <1>1, <2>1, <2>2
<1> HIDE DEF new
<1>4. ceil_log2(size + 1) \in Nat
  <2>1. size + 1 \in Nat /\ size + 1 > 0
    BY <1>1
  <2> QED
    BY <2>1, DepthIs
<1>5. leaves' = new
  <2> DEFINE E == ceil_log2(size + 1)
  <2>1. E \in Nat /\ nodes' = [k \in 1..(E + 1) |-> Row(new, k - 1)]
    BY <1>3, <1>4
  <2> HIDE DEF E
  <2>2. 1 \in 1..(E + 1) /\ nodes'[1] = Row(new, 1 - 1) /\ 1 - 1 = 0
    BY <2>1
  <2>3. Row(new, 0) = new
    BY RowDef
  <2> QED
    BY <2>2, <2>3 DEF leaves
<1>6. size' = size + 1
  BY <1>2, <1>5 DEF size
<1> QED
  BY <1>2, <1>3, <1>5, <1>6 DEF TreeInv, new

-----------------------------------------------------------------------------
(* The levels.                                                             *)

\* Whatever was inserted, every level of the tree is the one its leaves
\* determine (tree.rs:122-140).
THEOREM TreeIsThatOfItsLeaves == TreeSpec => []TreeInv
<1>1. TreeInit => TreeInv
  BY InitTree
<1>2. TreeInv /\ [TreeNext]_nodes => TreeInv'
  <2> SUFFICES ASSUME TreeInv, [TreeNext]_nodes PROVE TreeInv'
    OBVIOUS
  <2>1. ASSUME NEW leaf \in Leaves, insert(leaf) PROVE TreeInv'
    BY <2>1, InsertTree
  <2>2. CASE UNCHANGED nodes
    BY <2>2 DEF TreeInv, size, leaves
  <2> QED
    BY <2>1, <2>2 DEF TreeNext
<1> QED
  BY <1>1, <1>2, PTL DEF TreeSpec

\* The root is the Merkle root of the leaves, and the tree has no level too
\* many and none too few.
THEOREM RootIsThatOfItsLeaves == TreeSpec => []RootIsMerkleRoot
<1>1. TreeInv => RootIsMerkleRoot
  <2> SUFFICES ASSUME TreeInv PROVE RootIsMerkleRoot
    OBVIOUS
  <2>1. /\ size \in Nat /\ leaves \in Seq(Leaves) /\ Len(leaves) = size
        /\ depth = ceil_log2(size) /\ depth \in Nat
        /\ Len(nodes) = depth + 1 /\ DOMAIN nodes = 1..(depth + 1)
        /\ \A k \in 0..depth : nodes[k + 1] = Row(leaves, k)
    BY TreeIs
  <2>2. CASE size = 0
    <3>1. depth = 0 /\ leaves = <<>>
      BY <2>1, <2>2 DEF ceil_log2
    <3>2. Len(nodes) = 1 /\ nodes[1] = <<>>
      BY <2>1, <3>1 DEF leaves
    <3>3. 1..(Len(nodes) - 1) = {}
      BY <3>2
    <3>4. ~HasRoot
      BY <3>2 DEF HasRoot
    <3>5. ~(size > 0)
      BY <2>2
    <3> HIDE <2>2
    <3> QED
      BY <3>3, <3>4, <3>5 DEF RootIsMerkleRoot
  <2>3. CASE size > 0
    <3>1. nodes[Len(nodes)] = Row(leaves, depth)
      <4>1. depth \in 0..depth
        BY <2>1
      <4> QED
        BY <2>1, <4>1
    <3>2. \A k \in Nat : Len(Row(leaves, k)) = At(size - 1, k) + 1
      BY <2>1, <2>3, RowShape
    <3>3. At(size - 1, depth) = 0
      BY <2>1, <2>3, DepthIs
    <3>4. HasRoot
      <4>1. depth \in Nat /\ Len(Row(leaves, depth)) = At(size - 1, depth) + 1
        BY <2>1, <3>2
      <4>2. Len(Row(leaves, depth)) = 1
        BY <4>1, <3>3
      <4>3. Row(leaves, depth) # <<>>
        BY <4>2
      <4> QED
        BY <3>1, <4>3 DEF HasRoot
    <3>5. root = MerkleRoot(leaves)
      BY <2>1, <3>1 DEF root, MerkleRoot
    <3>6. ASSUME NEW k \in 1..(Len(nodes) - 1)
          PROVE  Len(nodes[k + 1]) = (Len(nodes[k]) + 1) \div 2
      <4>1. k \in Nat /\ k \in 0..depth /\ k - 1 \in 0..depth /\ k - 1 \in Nat /\ (k - 1) + 1 = k
        BY <2>1
      <4>2. nodes[k + 1] = Row(leaves, k) /\ nodes[k] = Row(leaves, k - 1)
        BY <2>1, <4>1
      <4>3. size - 1 \in Nat
        BY <2>1, <2>3
      <4>4. At(size - 1, k - 1) \in Nat /\ At(size - 1, k) = At(size - 1, k - 1) \div 2
        <5>1. At(size - 1, (k - 1) + 1) = At(size - 1, k - 1) \div 2
          BY <4>1, <4>3, AtNext
        <5> QED
          BY <4>1, <4>3, <5>1, AtType
      <4>5. Len(nodes[k + 1]) = At(size - 1, k) + 1 /\ Len(nodes[k]) = At(size - 1, k - 1) + 1
        BY <3>2, <4>1, <4>2
      <4> QED
        BY <4>4, <4>5
    <3> QED
      BY <2>1, <2>3, <3>4, <3>5, <3>6 DEF RootIsMerkleRoot
  <2> QED
    BY <2>1, <2>2, <2>3
<1> QED
  BY <1>1, TreeIsThatOfItsLeaves, PTL


-----------------------------------------------------------------------------
(* The root binds the leaves.                                              *)

LEMMA PairIs ==
    ASSUME NEW u, NEW v
    PROVE  /\ Len(<<u, v>>) = 2 /\ <<u, v>>[1] = u /\ <<u, v>>[2] = v
           /\ <<u, v>> # Zero
<1>1. Len(<<u, v>>) = 2 /\ <<u, v>>[1] = u /\ <<u, v>>[2] = v
  OBVIOUS
<1>2. Len(Zero) = 0
  BY DEF Zero
<1> QED
  BY <1>1, <1>2

LEMMA PairsEqual ==
    ASSUME NEW u, NEW v, NEW w, NEW z, <<u, v>> = <<w, z>>
    PROVE  u = w /\ v = z
OBVIOUS

LEMMA LeafIsNoPair ==
    ASSUME NEW x \in Leaves, NEW u, NEW v
    PROVE  x # <<u, v>>
<1>1. x \in [1..1 -> Nat] \/ x = Zero
  BY LeavesAssumption
<1>2. DOMAIN <<u, v>> = 1..2 /\ 2 \in 1..2
  OBVIOUS
<1>3. CASE x \in [1..1 -> Nat]
  <2>1. DOMAIN x = 1..1 /\ 2 \notin 1..1
    BY <1>3
  <2> QED
    BY <1>2, <2>1
<1> QED
  BY <1>1, <1>3, PairIs

\* A node has a chain of left children down to a leaf: as long as its level
\* where it has a right neighbour, and never longer.
LEMMA NoTaller ==
    ASSUME NEW a \in Seq(Leaves), Len(a) > 0, NEW b \in Seq(Leaves), Len(b) > 0
    PROVE  \A p, r \in Nat : r >= p =>
              \A e \in 1..(At(Len(a) - 1, p) + 1), j \in 1..At(Len(b) - 1, r) : \A z :
                 Row(a, p)[e] # <<Row(b, r)[j], z>>
<1> DEFINE m == Len(a) - 1
           n == Len(b) - 1
<1>0. m \in Nat /\ n \in Nat /\ Len(a) = m + 1
  OBVIOUS
<1>n. \A k \in Nat : /\ At(m, k) \in Nat /\ At(m, k + 1) = At(m, k) \div 2
                     /\ At(n, k) \in Nat /\ At(n, k + 1) = At(n, k) \div 2
  BY <1>0, AtType, AtNext
<1>a. ASSUME NEW k \in Nat, NEW e \in 1..(At(m, k + 1) + 1)
      PROVE  Row(a, k + 1)[e] = IF 2 * e <= At(m, k) + 1
                                THEN <<Row(a, k)[2 * e - 1], Row(a, k)[2 * e]>>
                                ELSE Row(a, k)[2 * e - 1]
  BY <1>a, RowNode
<1>b. ASSUME NEW k \in Nat, NEW j \in 1..At(n, k + 1)
      PROVE  Row(b, k + 1)[j] = <<Row(b, k)[2 * j - 1], Row(b, k)[2 * j]>>
  <2>1. j \in 1..(At(n, k + 1) + 1) /\ 2 * j <= At(n, k) + 1
    <3>1. j \in 1..(At(n, k) \div 2) /\ At(n, k) \in Nat /\ At(n, k + 1) = At(n, k) \div 2
      BY <1>b, <1>n
    <3> QED
      BY <3>1
  <2> QED
    BY <2>1, RowNode
<1>z. Row(a, 0) = a /\ At(m, 0) = m
  BY <1>0, RowDef, AtNext
<1> HIDE DEF m, n
<1> DEFINE Taller(p, r) == \E e \in 1..(At(m, p) + 1), j \in 1..At(n, r) : \E z :
                              Row(a, p)[e] = <<Row(b, r)[j], z>>
           S == {p \in Nat : \A r \in Nat : r >= p => ~Taller(p, r)}
<1>1. 0 \in S
  <2> SUFFICES ASSUME NEW r \in Nat, NEW e \in 1..(At(m, 0) + 1), NEW j \in 1..At(n, r), NEW z
               PROVE  Row(a, 0)[e] # <<Row(b, r)[j], z>>
    OBVIOUS
  <2>1. a[e] \in Leaves
    BY <1>0, <1>z
  <2> QED
    BY <1>z, <2>1, LeafIsNoPair
<1>2. ASSUME NEW p \in S PROVE p + 1 \in S
  <2> SUFFICES ASSUME NEW r \in Nat, r >= p + 1,
                      NEW e \in 1..(At(m, p + 1) + 1), NEW j \in 1..At(n, r), NEW z,
                      Row(a, p + 1)[e] = <<Row(b, r)[j], z>>
               PROVE  FALSE
    OBVIOUS
  <2>0. p \in Nat /\ \A q \in Nat : q >= p => ~Taller(p, q)
    OBVIOUS
  <2> DEFINE q == r - 1
  <2>1. q \in Nat /\ r = q + 1 /\ q >= p /\ r >= p
    BY <2>0
  <2>2. 2 * e - 1 \in 1..(At(m, p) + 1)
    <3>1. e \in 1..((At(m, p) \div 2) + 1) /\ At(m, p) \in Nat
      BY <1>n, <2>0
    <3> QED
      BY <3>1
  <2>3. 2 * j - 1 \in 1..At(n, q)
    <3> HIDE DEF q
    <3>1. j \in 1..(At(n, q) \div 2) /\ At(n, q) \in Nat
      BY <1>n, <2>1
    <3> QED
      BY <3>1
  <2>4. Row(b, r)[j] = <<Row(b, q)[2 * j - 1], Row(b, q)[2 * j]>>
    <3> HIDE DEF q
    <3> QED
      BY <1>b, <2>1
  <2> HIDE DEF q
  <2>5. CASE 2 * e <= At(m, p) + 1
    <3>1. Row(a, p + 1)[e] = <<Row(a, p)[2 * e - 1], Row(a, p)[2 * e]>>
      BY <1>a, <2>0, <2>5
    <3>2. Row(a, p)[2 * e - 1] = Row(b, r)[j]
      BY <3>1, PairsEqual
    <3>3. Taller(p, q)
      BY <2>2, <2>3, <2>4, <3>2
    <3> HIDE DEF Taller
    <3> QED
      BY <2>0, <2>1, <3>3
  <2>6. CASE ~(2 * e <= At(m, p) + 1)
    <3>1. Row(a, p + 1)[e] = Row(a, p)[2 * e - 1]
      BY <1>a, <2>0, <2>6
    <3>2. Taller(p, r)
      BY <2>2, <3>1
    <3> HIDE DEF Taller
    <3> QED
      BY <2>0, <2>1, <3>2
  <2> QED
    BY <2>5, <2>6
<1>3. S \in SUBSET Nat
  OBVIOUS
<1> HIDE DEF S
<1>4. S = Nat
  BY <1>1, <1>2, <1>3, SetInduction
<1> QED
  BY <1>4 DEF S, m, n

\* A row tells how many nodes the one below has ...
LEMMA SameLength ==
    ASSUME NEW a \in Seq(Leaves), Len(a) > 0, NEW b \in Seq(Leaves), Len(b) > 0,
           NEW k \in Nat, Row(a, k + 1) = Row(b, k + 1)
    PROVE  ~(At(Len(a) - 1, k) < At(Len(b) - 1, k))
<1> DEFINE m == Len(a) - 1
           n == Len(b) - 1
           j == At(n, k + 1) + 1
<1> SUFFICES ASSUME At(m, k) < At(n, k) PROVE FALSE
  OBVIOUS
<1>0. m \in Nat /\ n \in Nat /\ k + 1 \in Nat
  OBVIOUS
<1>1. /\ At(m, k) \in Nat /\ At(m, k + 1) = At(m, k) \div 2
      /\ At(n, k) \in Nat /\ At(n, k + 1) = At(n, k) \div 2
  BY <1>0, AtType, AtNext
<1>2. Len(Row(a, k + 1)) = At(m, k + 1) + 1 /\ Len(Row(b, k + 1)) = At(n, k + 1) + 1
  BY <1>0, RowShape
<1>3. At(m, k + 1) = At(n, k + 1)
  BY <1>1, <1>2
<1>4. At(m, k) = 2 * At(n, k + 1) /\ At(n, k) = 2 * At(n, k + 1) + 1 /\ At(n, k + 1) \in Nat
  <2> HIDE DEF m, n
  <2> QED
    BY <1>1, <1>3
<1>5. /\ j \in 1..(At(m, k + 1) + 1) /\ j \in 1..(At(n, k + 1) + 1)
      /\ ~(2 * j <= At(m, k) + 1) /\ 2 * j <= At(n, k) + 1
      /\ 2 * j - 1 \in 1..At(n, k) /\ 2 * j - 1 \in 1..(At(m, k) + 1)
  <2> HIDE DEF m, n
  <2> QED
    BY <1>3, <1>4
<1> HIDE DEF j
<1>6. Row(a, k + 1)[j] = Row(a, k)[2 * j - 1]
  BY <1>5, RowNode
<1>7. Row(b, k + 1)[j] = <<Row(b, k)[2 * j - 1], Row(b, k)[2 * j]>>
  BY <1>5, RowNode
<1>8. Row(a, k)[2 * j - 1] = <<Row(b, k)[2 * j - 1], Row(b, k)[2 * j]>>
  BY <1>6, <1>7
<1>9. k >= k
  OBVIOUS
<1> QED
  BY <1>5, <1>8, <1>9, NoTaller

\* ... and what they are.
LEMMA RowBelow ==
    ASSUME NEW a \in Seq(Leaves), Len(a) > 0, NEW b \in Seq(Leaves), Len(b) > 0,
           NEW k \in Nat, Row(a, k + 1) = Row(b, k + 1)
    PROVE  Row(a, k) = Row(b, k)
<1> DEFINE m == Len(a) - 1
           n == Len(b) - 1
<1>0. m \in Nat /\ n \in Nat
  OBVIOUS
<1>1. /\ At(m, k) \in Nat /\ At(m, k + 1) = At(m, k) \div 2
      /\ At(n, k) \in Nat /\ At(n, k + 1) = At(n, k) \div 2
  BY <1>0, AtType, AtNext
<1>2. At(m, k) = At(n, k)
  <2>1. ~(At(m, k) < At(n, k)) /\ ~(At(n, k) < At(m, k))
    BY SameLength
  <2> HIDE DEF m, n
  <2> QED
    BY <1>1, <2>1
<1> DEFINE M == At(m, k) + 1
<1>3. IsRow(Row(a, k), M) /\ IsRow(Row(b, k), M)
  BY <1>2, RowShape
<1>4. ASSUME NEW e \in 1..M PROVE Row(a, k)[e] = Row(b, k)[e]
  <2> DEFINE j == (e + 1) \div 2
  <2>1. /\ j \in 1..(At(m, k + 1) + 1) /\ j \in 1..(At(n, k + 1) + 1)
        /\ e = 2 * j - 1 \/ (e = 2 * j /\ 2 * j <= M)
    <3> HIDE DEF m, n
    <3> QED
      BY <1>1, <1>2
  <2> HIDE DEF j
  <2>2. Row(a, k + 1)[j] = IF 2 * j <= M THEN <<Row(a, k)[2 * j - 1], Row(a, k)[2 * j]>>
                           ELSE Row(a, k)[2 * j - 1]
    BY <2>1, RowNode
  <2>3. Row(b, k + 1)[j] = IF 2 * j <= M THEN <<Row(b, k)[2 * j - 1], Row(b, k)[2 * j]>>
                           ELSE Row(b, k)[2 * j - 1]
    BY <1>2, <2>1, RowNode
  <2> HIDE DEF M
  <2>4. CASE 2 * j <= M
    <3>1. /\ Row(a, k)[2 * j - 1] = Row(b, k)[2 * j - 1]
          /\ Row(a, k)[2 * j] = Row(b, k)[2 * j]
      BY <2>2, <2>3, <2>4, PairsEqual
    <3> QED
      BY <2>1, <3>1
  <2>5. CASE ~(2 * j <= M)
    BY <2>1, <2>2, <2>3, <2>5
  <2> QED
    BY <2>4, <2>5
<1> HIDE DEF M
<1> QED
  BY <1>3, <1>4, RowsEqual

\* No list has the root of one that is lower.
LEMMA SameDepth ==
    ASSUME NEW a \in Seq(Leaves), Len(a) > 0, NEW b \in Seq(Leaves), Len(b) > 0,
           MerkleRoot(a) = MerkleRoot(b)
    PROVE  ~(ceil_log2(Len(a)) < ceil_log2(Len(b)))
<1> DEFINE m == Len(a) - 1
           n == Len(b) - 1
           d == ceil_log2(Len(a))
           r == ceil_log2(Len(b)) - 1
<1> SUFFICES ASSUME d < ceil_log2(Len(b)) PROVE FALSE
  OBVIOUS
<1>1. /\ m \in Nat /\ n \in Nat
      /\ d \in Nat /\ At(m, d) = 0
      /\ ceil_log2(Len(b)) \in Nat /\ At(n, ceil_log2(Len(b))) = 0
      /\ \A k \in 0..(ceil_log2(Len(b)) - 1) : At(n, k) # 0
  BY DepthIs
<1>2. r \in Nat /\ r >= d /\ ceil_log2(Len(b)) = r + 1
  <2> HIDE DEF d
  <2> QED
    BY <1>1 DEF d
<1>3. At(n, r + 1) = 0 /\ At(n, r) # 0 /\ At(n, r) \in Nat
  <2>1. r \in 0..(ceil_log2(Len(b)) - 1)
    BY <1>1, <1>2
  <2> QED
    BY <1>1, <1>2, <2>1, AtType
<1>4. MerkleRoot(a) = Row(a, d)[1] /\ MerkleRoot(b) = Row(b, r + 1)[1]
  BY <1>2 DEF MerkleRoot
<1> HIDE DEF r, d
<1>5. 1 \in 1..(At(n, r + 1) + 1) /\ 2 * 1 <= At(n, r) + 1 /\ 1 \in 1..At(n, r)
      /\ 1 \in 1..(At(m, d) + 1)
  <2> HIDE DEF m, n
  <2> QED
    BY <1>1, <1>3
<1>6. Row(b, r + 1)[1] = <<Row(b, r)[1], Row(b, r)[2]>>
  <2>1. Row(b, r + 1)[1] = <<Row(b, r)[2 * 1 - 1], Row(b, r)[2 * 1]>>
    BY <1>2, <1>5, RowNode
  <2>2. 2 * 1 - 1 = 1 /\ 2 * 1 = 2
    OBVIOUS
  <2> QED
    BY <2>1, <2>2
<1>7. Row(a, d)[1] = <<Row(b, r)[1], Row(b, r)[2]>>
  BY <1>4, <1>6
<1> QED
  BY <1>1, <1>2, <1>5, <1>7, NoTaller

LEMMA MerkleRootBinds ==
    ASSUME NEW a \in Seq(Leaves), Len(a) > 0, NEW b \in Seq(Leaves), Len(b) > 0,
           MerkleRoot(a) = MerkleRoot(b)
    PROVE  a = b
<1> DEFINE d == ceil_log2(Len(a))
<1>1. d \in Nat /\ ceil_log2(Len(b)) \in Nat
      /\ At(Len(a) - 1, d) = 0 /\ At(Len(b) - 1, ceil_log2(Len(b))) = 0
  BY DepthIs
<1>2. ceil_log2(Len(b)) = d
  <2>1. ~(d < ceil_log2(Len(b))) /\ ~(ceil_log2(Len(b)) < d)
    BY SameDepth
  <2> HIDE DEF d
  <2> QED
    BY <1>1, <2>1
<1>3. Row(a, d) = Row(b, d)
  <2>1. IsRow(Row(a, d), 1) /\ IsRow(Row(b, d), 1)
    <3>1. /\ IsRow(Row(a, d), At(Len(a) - 1, d) + 1)
          /\ IsRow(Row(b, d), At(Len(b) - 1, d) + 1)
      BY <1>1, RowShape
    <3>2. At(Len(a) - 1, d) + 1 = 1 /\ At(Len(b) - 1, d) + 1 = 1
      BY <1>1, <1>2
    <3> QED
      BY <3>1, <3>2
  <2>2. \A j \in 1..1 : Row(a, d)[j] = Row(b, d)[j]
    BY <1>2 DEF MerkleRoot
  <2> HIDE DEF d
  <2> QED
    BY <2>1, <2>2, RowsEqual
<1> HIDE DEF d
<1> DEFINE S == {k \in Nat : k <= d => Row(a, d - k) = Row(b, d - k)}
<1>4. 0 \in S
  BY <1>1, <1>3
<1>5. ASSUME NEW k \in S PROVE k + 1 \in S
  <2> SUFFICES ASSUME k + 1 <= d PROVE Row(a, d - (k + 1)) = Row(b, d - (k + 1))
    OBVIOUS
  <2> DEFINE j == d - (k + 1)
  <2>1. j \in Nat /\ j + 1 = d - k /\ Row(a, d - k) = Row(b, d - k)
    BY <1>1
  <2> HIDE DEF j
  <2>2. Row(a, j) = Row(b, j)
    BY <2>1, RowBelow
  <2> QED
    BY <2>2 DEF j
<1>6. S \in SUBSET Nat
  OBVIOUS
<1> HIDE DEF S
<1>7. S = Nat
  BY <1>4, <1>5, <1>6, SetInduction
<1>8. Row(a, d - d) = Row(b, d - d) /\ d - d = 0
  BY <1>1, <1>7 DEF S
<1> QED
  BY <1>8, RowDef

\* No other list of leaves, of any length, has the root of the leaves inserted
\* (sync.rs:9-11).
THEOREM RootBindsTheLeaves == TreeSpec => []RootBindsLeaves
<1>1. TreeInv => RootBindsLeaves
  <2> SUFFICES ASSUME TreeInv, size \in 1..MaxCompared, NEW m \in 1..MaxCompared,
                      NEW other \in [1..m -> Leaves], MerkleRoot(other) = root
               PROVE  other = leaves
    BY DEF RootBindsLeaves
  <2>1. /\ size \in Nat /\ leaves \in Seq(Leaves) /\ Len(leaves) = size
        /\ depth = ceil_log2(size) /\ depth \in Nat
        /\ Len(nodes) = depth + 1
        /\ \A k \in 0..depth : nodes[k + 1] = Row(leaves, k)
    BY TreeIs
  <2>2. nodes[Len(nodes)] = Row(leaves, depth)
    <3>1. depth \in 0..depth
      BY <2>1
    <3> QED
      BY <2>1, <3>1
  <2>3. MerkleRoot(leaves) = root
    BY <2>1, <2>2 DEF root, MerkleRoot
  <2>4. other \in Seq(Leaves) /\ Len(other) > 0
    <3>1. MaxCompared \in Nat
      BY BoundsAssumption
    <3>2. m \in Nat /\ m > 0
      BY <3>1
    <3>3. other \in Seq(Leaves) /\ Len(other) = m
      BY <3>2
    <3> QED
      BY <3>2, <3>3
  <2>5. Len(leaves) > 0
    BY <2>1
  <2> QED
    BY <2>1, <2>3, <2>4, <2>5, MerkleRootBinds
<1> QED
  BY <1>1, TreeIsThatOfItsLeaves, PTL

-----------------------------------------------------------------------------
(* Generated proofs.                                                       *)

\* What is further left in a level is further left in every level.
LEMMA AtMonotone == \A x, y, k \in Nat : x <= y => At(x, k) <= At(y, k)
<1> TAKE x, y \in Nat
<1> DEFINE S == {k \in Nat : x <= y => At(x, k) <= At(y, k)}
<1>1. 0 \in S
  BY AtNext
<1>2. ASSUME NEW k \in S PROVE k + 1 \in S
  <2>1. /\ At(x, k) \in Nat /\ At(x, k + 1) = At(x, k) \div 2
        /\ At(y, k) \in Nat /\ At(y, k + 1) = At(y, k) \div 2
    BY AtType, AtNext
  <2> QED
    BY <2>1
<1>3. S \in SUBSET Nat
  OBVIOUS
<1> HIDE DEF S
<1>4. S = Nat
  BY <1>1, <1>2, <1>3, SetInduction
<1> QED
  BY <1>4 DEF S

\* The index has one bit for each level met, and none above.
LEMMA CompressedBits ==
    ASSUME NEW x, NEW met, Len(met) \in Nat
    PROVE  /\ compressed_index(x, met) \in Nat
           /\ At(compressed_index(x, met), Len(met)) = 0
           /\ \A j \in 0..(Len(met) - 1) :
                 IsRight(compressed_index(x, met), j) <=> IsRight(x, met[j + 1])
<1> DEFINE L == Len(met)
           bit(j) == IF IsRight(x, met[j]) THEN 1 ELSE 0
<1>1. PICK below : /\ below[0] = 0
                   /\ \A k \in 1..L : below[k] = 2 * below[k - 1] + bit(L - k + 1)
                   /\ compressed_index(x, met) = below[L]
  BY CompressedIndexDef
<1>b. \A j : bit(j) \in {0, 1} /\ (bit(j) = 1 <=> IsRight(x, met[j]))
  OBVIOUS
<1> HIDE DEF bit, L
<1>0. L \in Nat
  BY DEF L
<1>2. ASSUME NEW k \in 0..(L - 1) PROVE below[k + 1] = 2 * below[k] + bit(L - k)
  <2>1. k + 1 \in 1..L /\ (k + 1) - 1 = k /\ L - (k + 1) + 1 = L - k
    BY <1>0
  <2> QED
    BY <1>1, <2>1
<1>3. \A k \in 0..L : below[k] \in Nat
  <2> DEFINE S == {k \in Nat : k <= L => below[k] \in Nat}
  <2>1. 0 \in S
    BY <1>1
  <2>2. ASSUME NEW k \in S PROVE k + 1 \in S
    <3> SUFFICES ASSUME k + 1 <= L PROVE below[k + 1] \in Nat
      OBVIOUS
    <3>1. k \in 0..(L - 1) /\ below[k] \in Nat
      BY <1>0
    <3>2. bit(L - k) \in {0, 1} /\ below[k + 1] = 2 * below[k] + bit(L - k)
      BY <1>2, <1>b, <3>1
    <3> QED
      BY <3>1, <3>2
  <2>3. S \in SUBSET Nat
    OBVIOUS
  <2> HIDE DEF S
  <2>4. S = Nat
    BY <2>1, <2>2, <2>3, SetInduction
  <2> QED
    BY <1>0, <2>4 DEF S
<1> DEFINE idx == below[L]
<1>4. idx \in Nat
  <2>1. L \in 0..L
    BY <1>0
  <2> QED
    BY <1>3, <2>1
<1> HIDE DEF idx
<1>5. ASSUME NEW j \in 0..(L - 1)
      PROVE  /\ (L - (j + 1)) \in 0..(L - 1) /\ below[L - (j + 1)] \in Nat
             /\ bit(j + 1) \in {0, 1}
             /\ below[L - j] = 2 * below[L - (j + 1)] + bit(j + 1)
  <2> DEFINE k == L - (j + 1)
  <2>1. k \in 0..(L - 1) /\ k \in 0..L /\ k + 1 = L - j /\ L - k = j + 1
    BY <1>0
  <2> HIDE DEF k
  <2>2. below[k + 1] = 2 * below[k] + bit(L - k) /\ below[k] \in Nat
    BY <1>2, <1>3, <2>1
  <2> QED
    BY <1>b, <2>1, <2>2 DEF k
<1>6. \A j \in 0..L : At(idx, j) = below[L - j]
  <2> DEFINE S == {j \in Nat : j <= L => At(idx, j) = below[L - j]}
  <2>1. 0 \in S
    <3>1. L - 0 = L
      BY <1>0
    <3> QED
      BY <1>4, <3>1, AtNext DEF idx
  <2>2. ASSUME NEW j \in S PROVE j + 1 \in S
    <3> SUFFICES ASSUME j + 1 <= L PROVE At(idx, j + 1) = below[L - (j + 1)]
      OBVIOUS
    <3>1. j \in 0..(L - 1) /\ At(idx, j) = below[L - j]
      BY <1>0
    <3>2. At(idx, j + 1) = At(idx, j) \div 2
      BY <1>4, AtNext
    <3> DEFINE u == below[L - (j + 1)]
    <3>3. u \in Nat /\ bit(j + 1) \in {0, 1} /\ below[L - j] = 2 * u + bit(j + 1)
      BY <1>5, <3>1
    <3> HIDE DEF u
    <3>4. (2 * u + bit(j + 1)) \div 2 = u
      BY <3>3
    <3>5. At(idx, j + 1) = u
      BY <3>1, <3>2, <3>3, <3>4
    <3> QED
      BY <3>5 DEF u
  <2>3. S \in SUBSET Nat
    OBVIOUS
  <2> HIDE DEF S
  <2>4. S = Nat
    BY <2>1, <2>2, <2>3, SetInduction
  <2>5. \A j \in 0..L : j \in S /\ j <= L
    BY <1>0, <2>4
  <2> QED
    BY <2>5 DEF S
<1>7. At(idx, L) = 0
  <2>1. L \in 0..L /\ L - L = 0
    BY <1>0
  <2> QED
    BY <1>1, <1>6, <2>1
<1>8. ASSUME NEW j \in 0..(L - 1) PROVE IsRight(idx, j) <=> IsRight(x, met[j + 1])
  <2>1. At(idx, j) = below[L - j]
    <3>1. j \in 0..L
      BY <1>0
    <3> QED
      BY <1>6, <3>1
  <2>2. At(idx, j) % 2 = bit(j + 1)
    <3> DEFINE u == below[L - (j + 1)]
    <3>1. u \in Nat /\ bit(j + 1) \in {0, 1} /\ below[L - j] = 2 * u + bit(j + 1)
      BY <1>5
    <3> HIDE DEF u
    <3>2. (2 * u + bit(j + 1)) % 2 = bit(j + 1)
      BY <3>1
    <3> QED
      BY <2>1, <3>1, <3>2
  <2> QED
    BY <1>b, <2>2 DEF IsRight
<1> QED
  BY <1>1, <1>4, <1>7, <1>8 DEF idx, L

\* A right child has its sibling, and a left child has one unless it is last.
LEMMA SiblingIs ==
    ASSUME TreeInv, NEW x \in 0..(size - 1), NEW k \in 0..(depth - 1)
    PROVE  /\ At(x, k) \in Nat /\ At(size - 1, k) \in Nat /\ At(x, k) <= At(size - 1, k)
           /\ IsRight(x, k) <=> At(x, k) % 2 = 1
           /\ HasSibling(x, k) <=> (IsRight(x, k) \/ At(x, k) < At(size - 1, k))
           /\ nodes[k + 1] = Row(leaves, k)
           /\ HasSibling(x, k) => SiblingAt(x, k) + 1 \in 1..(At(size - 1, k) + 1)
<1>1. /\ size \in Nat /\ leaves \in Seq(Leaves) /\ Len(leaves) = size /\ depth \in Nat
      /\ \A j \in 0..depth : nodes[j + 1] = Row(leaves, j)
  BY TreeIs
<1>2. x \in Nat /\ size - 1 \in Nat /\ x <= size - 1 /\ size > 0 /\ k \in Nat /\ k \in 0..depth
  BY <1>1
<1>3. /\ At(x, k) \in Nat /\ At(size - 1, k) \in Nat /\ At(x, k) <= At(size - 1, k)
  BY <1>2, AtType, AtMonotone
<1>4. nodes[k + 1] = Row(leaves, k) /\ Len(Row(leaves, k)) = At(size - 1, k) + 1
  BY <1>1, <1>2, RowShape
<1> DEFINE a == At(x, k)
           m == At(size - 1, k)
<1>5. HasSibling(x, k) <=> (IF a % 2 = 1 THEN a - 1 ELSE a + 1) < m + 1
  BY <1>4 DEF HasSibling, SiblingAt, IsRight
<1>6. SiblingAt(x, k) = IF a % 2 = 1 THEN a - 1 ELSE a + 1
  BY DEF SiblingAt, IsRight
<1>7. IsRight(x, k) <=> a % 2 = 1
  BY DEF IsRight
<1> HIDE DEF a, m
<1>8. a \in Nat /\ m \in Nat /\ a <= m
  BY <1>3 DEF a, m
<1>9. HasSibling(x, k) <=> (a % 2 = 1 \/ a < m)
  BY <1>5, <1>8
<1>10. HasSibling(x, k) => SiblingAt(x, k) + 1 \in 1..(m + 1)
  BY <1>5, <1>6, <1>8
<1> QED
  BY <1>3, <1>4, <1>7, <1>9, <1>10 DEF a, m

\* below[k] counts the levels under level k that are met.
MetBelow(x, met, below) ==
    /\ below \in [0..depth -> Nat] /\ below[0] = 0 /\ below[depth] = Len(met)
    /\ \A k \in 0..(depth - 1) :
          /\ HasSibling(x, k) => /\ below[k + 1] = below[k] + 1
                                 /\ below[k] \in 0..(Len(met) - 1)
                                 /\ met[below[k] + 1] = k
          /\ ~HasSibling(x, k) => below[k + 1] = below[k]
    /\ \A j \in 1..Len(met) : \E k \in 0..(depth - 1) : HasSibling(x, k) /\ below[k] = j - 1

LEMMA MetIs ==
    ASSUME depth \in Nat, NEW x
    PROVE  LevelsMet(x) \in Seq(Nat) /\ \E below : MetBelow(x, LevelsMet(x), below)
<1> DEFINE d == depth
<1>1. PICK met : /\ met[0] = <<>>
                 /\ \A k \in 1..d :
                       met[k] = IF HasSibling(x, k - 1) THEN Append(met[k - 1], k - 1)
                                ELSE met[k - 1]
                 /\ LevelsMet(x) = met[d]
  BY LevelsMetDef
<1>d. d \in Nat /\ 0 \in 0..d /\ d \in 0..d
  OBVIOUS
<1> HIDE DEF d
<1>3. ASSUME NEW k \in 0..(d - 1)
      PROVE  met[k + 1] = IF HasSibling(x, k) THEN Append(met[k], k) ELSE met[k]
  <2>1. k + 1 \in 1..d /\ (k + 1) - 1 = k
    BY <1>d
  <2> QED
    BY <1>1, <2>1
<1>4. \A k \in 0..d : met[k] \in Seq(Nat)
  <2> DEFINE S == {k \in Nat : k <= d => met[k] \in Seq(Nat)}
  <2>1. 0 \in S
    <3>1. met[0] \in Seq(Nat)
      BY <1>1
    <3> QED
      BY <3>1
  <2>2. ASSUME NEW k \in S PROVE k + 1 \in S
    <3> SUFFICES ASSUME k + 1 <= d PROVE met[k + 1] \in Seq(Nat)
      OBVIOUS
    <3>1. k \in 0..(d - 1) /\ k \in Nat /\ met[k] \in Seq(Nat)
      BY <1>d
    <3>2. Append(met[k], k) \in Seq(Nat)
      BY <3>1
    <3> QED
      BY <1>3, <3>1, <3>2
  <2>3. S \in SUBSET Nat
    OBVIOUS
  <2> HIDE DEF S
  <2>4. S = Nat
    BY <2>1, <2>2, <2>3, SetInduction
  <2>5. \A k \in 0..d : k \in S /\ k <= d
    BY <1>d, <2>4
  <2> QED
    BY <2>5 DEF S
<1> DEFINE c(k) == Len(met[k])
<1>5. ASSUME NEW k \in 0..(d - 1)
      PROVE  /\ k \in Nat /\ k \in 0..d /\ k + 1 \in 0..d
             /\ c(k) \in Nat /\ c(k + 1) \in Nat
             /\ \A j \in 1..c(k) : met[k + 1][j] = met[k][j]
             /\ HasSibling(x, k) => c(k + 1) = c(k) + 1 /\ met[k + 1][c(k) + 1] = k
             /\ ~HasSibling(x, k) => c(k + 1) = c(k)
  <2>1. k \in Nat /\ k \in 0..d /\ k + 1 \in 0..d
    BY <1>d
  <2>2. met[k] \in Seq(Nat)
    BY <1>4, <2>1
  <2>3. CASE HasSibling(x, k)
    <3>1. met[k + 1] = Append(met[k], k)
      BY <1>3, <2>3
    <3> QED
      BY <2>1, <2>2, <2>3, <3>1
  <2>4. CASE ~HasSibling(x, k)
    <3>1. met[k + 1] = met[k]
      BY <1>3, <2>4
    <3> QED
      BY <2>1, <2>2, <2>4, <3>1
  <2> QED
    BY <2>3, <2>4
<1>c. \A k \in 0..d : c(k) \in Nat
  BY <1>4
<1> HIDE DEF c
<1> DEFINE Prefix(k, n) == c(k) <= c(n) /\ \A j \in 1..c(k) : met[n][j] = met[k][j]
<1>6. \A n \in 0..d : \A k \in 0..n : Prefix(k, n)
  <2> DEFINE S == {n \in Nat : n <= d => \A k \in 0..n : Prefix(k, n)}
  <2>1. 0 \in S
    <3> SUFFICES ASSUME NEW k \in 0..0 PROVE Prefix(k, 0)
      OBVIOUS
    <3> QED
      BY <1>c, <1>d
  <2>2. ASSUME NEW n \in S PROVE n + 1 \in S
    <3> SUFFICES ASSUME n + 1 <= d, NEW k \in 0..(n + 1) PROVE Prefix(k, n + 1)
      OBVIOUS
    <3>1. n \in 0..(d - 1) /\ n \in Nat /\ \A e \in 0..n : Prefix(e, n)
      BY <1>d
    <3>2. CASE k = n + 1
      <4>1. c(k) \in Nat
        BY <1>5, <3>1, <3>2
      <4> QED
        BY <3>2, <4>1
    <3>3. CASE k # n + 1
      <4>1. k \in 0..n /\ k \in 0..d
        BY <1>d, <3>1, <3>3
      <4>2. Prefix(k, n) /\ c(k) \in Nat
        BY <1>c, <3>1, <4>1
      <4>3. c(n) \in Nat /\ c(n + 1) \in Nat /\ c(n) <= c(n + 1)
        BY <1>5, <3>1
      <4>4. \A j \in 1..c(k) : j \in 1..c(n) /\ met[n + 1][j] = met[n][j]
        BY <1>5, <3>1, <4>2, <4>3
      <4> QED
        BY <4>2, <4>3, <4>4
    <3> QED
      BY <3>2, <3>3
  <2>3. S \in SUBSET Nat
    OBVIOUS
  <2> HIDE DEF S
  <2>4. S = Nat
    BY <2>1, <2>2, <2>3, SetInduction
  <2>5. \A n \in 0..d : n \in S /\ n <= d
    BY <1>d, <2>4
  <2> QED
    BY <2>5 DEF S
<1> DEFINE Known(n) == \A j \in 1..c(n) : \E k \in 0..(n - 1) : HasSibling(x, k) /\ c(k) = j - 1
<1>7. Known(d)
  <2> DEFINE S == {n \in Nat : n <= d => Known(n)}
  <2>1. 0 \in S
    <3>1. c(0) = 0
      BY <1>1 DEF c
    <3> QED
      BY <3>1
  <2>2. ASSUME NEW n \in S PROVE n + 1 \in S
    <3> SUFFICES ASSUME n + 1 <= d, NEW j \in 1..c(n + 1)
                 PROVE  \E k \in 0..((n + 1) - 1) : HasSibling(x, k) /\ c(k) = j - 1
      OBVIOUS
    <3>1. n \in 0..(d - 1) /\ n \in Nat /\ Known(n) /\ n \in 0..((n + 1) - 1)
      BY <1>d
    <3>2. CASE j \in 1..c(n)
      <4>1. PICK k \in 0..(n - 1) : HasSibling(x, k) /\ c(k) = j - 1
        BY <3>1, <3>2
      <4>2. k \in 0..((n + 1) - 1)
        BY <3>1
      <4> QED
        BY <4>1, <4>2
    <3>3. CASE j \notin 1..c(n)
      <4>1. c(n) \in Nat /\ c(n + 1) \in Nat /\ (~HasSibling(x, n) => c(n + 1) = c(n))
            /\ (HasSibling(x, n) => c(n + 1) = c(n) + 1)
        BY <1>5, <3>1
      <4>2. HasSibling(x, n)
        BY <3>3, <4>1
      <4>3. c(n) = j - 1
        BY <3>3, <4>1, <4>2
      <4> QED
        BY <3>1, <4>2, <4>3
    <3> QED
      BY <3>2, <3>3
  <2>3. S \in SUBSET Nat
    OBVIOUS
  <2> HIDE DEF S
  <2>4. S = Nat
    BY <2>1, <2>2, <2>3, SetInduction
  <2>5. d \in S /\ d <= d
    BY <1>d, <2>4
  <2> QED
    BY <2>5 DEF S
<1> DEFINE below == [k \in 0..d |-> c(k)]
<1>8. MetBelow(x, met[d], below)
  <2>1. below \in [0..d -> Nat]
    BY <1>c
  <2>2. below[0] = 0 /\ below[d] = Len(met[d])
    <3>1. c(0) = 0 /\ c(d) = Len(met[d])
      BY <1>1 DEF c
    <3> QED
      BY <1>d, <3>1
  <2>3. ASSUME NEW k \in 0..(d - 1)
        PROVE  /\ HasSibling(x, k) => /\ below[k + 1] = below[k] + 1
                                      /\ below[k] \in 0..(Len(met[d]) - 1)
                                      /\ met[d][below[k] + 1] = k
               /\ ~HasSibling(x, k) => below[k + 1] = below[k]
    <3>1. /\ k + 1 \in 0..d /\ k \in 0..d
          /\ c(k) \in Nat /\ c(k + 1) \in Nat
          /\ HasSibling(x, k) => c(k + 1) = c(k) + 1 /\ met[k + 1][c(k) + 1] = k
          /\ ~HasSibling(x, k) => c(k + 1) = c(k)
      BY <1>5
    <3>2. below[k + 1] = c(k + 1) /\ below[k] = c(k)
      BY <3>1
    <3>3. Prefix(k + 1, d) /\ c(d) = Len(met[d]) /\ c(d) \in Nat
      BY <1>6, <1>c, <1>d, <3>1 DEF c
    <3>4. HasSibling(x, k) => c(k) + 1 \in 1..c(k + 1) /\ c(k) \in 0..(Len(met[d]) - 1)
      BY <3>1, <3>3
    <3> HIDE DEF below
    <3> QED
      BY <3>1, <3>2, <3>3, <3>4
  <2>4. ASSUME NEW j \in 1..Len(met[d])
        PROVE  \E k \in 0..(d - 1) : HasSibling(x, k) /\ below[k] = j - 1
    <3>1. PICK k \in 0..(d - 1) : HasSibling(x, k) /\ c(k) = j - 1
      BY <1>7 DEF c
    <3>2. below[k] = c(k)
      BY <1>5
    <3> QED
      BY <3>1, <3>2
  <2> HIDE DEF below
  <2> QED
    BY <2>1, <2>2, <2>3, <2>4 DEF MetBelow, d
<1> HIDE DEF below
<1> QED
  BY <1>1, <1>4, <1>8, <1>d

\* What a generated proof holds: for each level met, the sibling, and the bit
\* of the index that says on which side it is.
ProofHolds(x, proof, below) ==
    /\ Len(proof.siblings) \in Nat /\ DOMAIN proof.siblings = 1..Len(proof.siblings)
    /\ below \in [0..depth -> Nat] /\ below[0] = 0 /\ below[depth] = Len(proof.siblings)
    /\ proof.leaf = leaves[x + 1]
    /\ proof.index \in Nat /\ At(proof.index, Len(proof.siblings)) = 0
    /\ \A k \in 0..(depth - 1) :
          /\ HasSibling(x, k) =>
                /\ below[k + 1] = below[k] + 1
                /\ below[k] + 1 \in 1..Len(proof.siblings)
                /\ proof.siblings[below[k] + 1] = Row(leaves, k)[SiblingAt(x, k) + 1]
                /\ IsRight(proof.index, below[k]) <=> IsRight(x, k)
          /\ ~HasSibling(x, k) => below[k + 1] = below[k]
    /\ \A j \in 1..Len(proof.siblings) :
          \E k \in 0..(depth - 1) : HasSibling(x, k) /\ below[k] = j - 1

LEMMA ProofIs ==
    ASSUME TreeInv, NEW x \in 0..(size - 1)
    PROVE  \E below : ProofHolds(x, generate_proof(x), below)
<1> DEFINE met == LevelsMet(x)
           proof == generate_proof(x)
<1>1. depth \in Nat
  BY TreeIs
<1>2. met \in Seq(Nat) /\ \E below : MetBelow(x, met, below)
  BY <1>1, MetIs
<1>3. PICK below : MetBelow(x, met, below)
  BY <1>2
<1> DEFINE L == Len(met)
           sib == [j \in DOMAIN met |-> nodes[met[j] + 1][SiblingAt(x, met[j]) + 1]]
<1>4. proof = [root |-> root, leaf |-> leaves[x + 1], siblings |-> sib,
               index |-> compressed_index(x, met)]
  BY DEF generate_proof
<1>5. proof.leaf = leaves[x + 1] /\ proof.siblings = sib /\ proof.index = compressed_index(x, met)
  BY <1>4
<1>6. L \in Nat /\ DOMAIN met = 1..L
  BY <1>2
<1>7. Len(sib) = L /\ DOMAIN sib = 1..L
  <2> HIDE DEF met
  <2>1. IsRow(sib, L)
    BY <1>6 DEF IsRow
  <2> HIDE DEF sib, L
  <2> QED
    BY <1>6, <2>1, RowLen
<1>8. /\ proof.index \in Nat /\ At(proof.index, L) = 0
      /\ \A j \in 0..(L - 1) : IsRight(proof.index, j) <=> IsRight(x, met[j + 1])
  <2> HIDE DEF met, proof
  <2> QED
    BY <1>5, <1>6, CompressedBits
<1>9. \A j \in 1..L : sib[j] = nodes[met[j] + 1][SiblingAt(x, met[j]) + 1]
  BY <1>6
<1> HIDE DEF met, proof, sib
<1>10. ASSUME NEW k \in 0..(depth - 1), HasSibling(x, k)
       PROVE  /\ below[k + 1] = below[k] + 1
              /\ below[k] + 1 \in 1..L
              /\ sib[below[k] + 1] = Row(leaves, k)[SiblingAt(x, k) + 1]
              /\ IsRight(proof.index, below[k]) <=> IsRight(x, k)
  <2>1. /\ below[k + 1] = below[k] + 1 /\ below[k] \in 0..(L - 1) /\ met[below[k] + 1] = k
    BY <1>3, <1>10 DEF MetBelow
  <2>2. below[k] + 1 \in 1..L
    BY <1>6, <2>1
  <2>3. nodes[k + 1] = Row(leaves, k)
    BY SiblingIs
  <2> QED
    BY <1>8, <1>9, <2>1, <2>2, <2>3
<1>11. ProofHolds(x, proof, below)
  BY <1>3, <1>5, <1>6, <1>7, <1>8, <1>10 DEF ProofHolds, MetBelow
<1> QED
  BY <1>11 DEF proof

\* Hashing the siblings of a proof, each on the side its bit says, climbs the
\* tree from the leaf to the root.
LEMMA ProofClimbs ==
    ASSUME TreeInv, NEW x \in 0..(size - 1)
    PROVE  LET proof == generate_proof(x)
           IN  compute_root_hashing_zeros(proof.leaf, proof.index, proof.siblings) = root
<1> DEFINE proof == generate_proof(x)
           sib == proof.siblings
           L == Len(sib)
           idx == proof.index
           leaf == proof.leaf
<1>1. PICK below : ProofHolds(x, proof, below)
  BY ProofIs
<1> HIDE DEF proof
<1>2. L \in Nat
  BY <1>1 DEF ProofHolds
<1> HIDE DEF sib, idx, leaf
<1>3. PICK node : /\ node[0] = leaf
                  /\ \A k \in 1..L :
                        node[k] = IF IsRight(idx, k - 1) THEN poseidon2(sib[k], node[k - 1])
                                  ELSE poseidon2(node[k - 1], sib[k])
                  /\ compute_root_hashing_zeros(leaf, idx, sib) = node[L]
  BY <1>2, HashingDef
<1>4. /\ size \in Nat /\ leaves \in Seq(Leaves) /\ Len(leaves) = size /\ Len(leaves) > 0
      /\ depth = ceil_log2(size) /\ depth \in Nat /\ Len(nodes) = depth + 1
      /\ \A k \in 0..depth : nodes[k + 1] = Row(leaves, k)
      /\ size - 1 \in Nat /\ x \in Nat /\ x <= size - 1
  BY TreeIs
<1> HIDE DEF L
<1>5. /\ below \in [0..depth -> Nat] /\ below[0] = 0 /\ below[depth] = L
      /\ leaf = leaves[x + 1]
  BY <1>1 DEF ProofHolds, L, sib, leaf
<1>6. ASSUME NEW k \in 0..(depth - 1)
      PROVE  /\ HasSibling(x, k) =>
                    /\ below[k + 1] = below[k] + 1 /\ below[k] + 1 \in 1..L
                    /\ sib[below[k] + 1] = Row(leaves, k)[SiblingAt(x, k) + 1]
                    /\ IsRight(idx, below[k]) <=> IsRight(x, k)
             /\ ~HasSibling(x, k) => below[k + 1] = below[k]
  BY <1>1 DEF ProofHolds, L, sib, idx
<1>7. node[0] = leaves[x + 1]
  BY <1>3, <1>5
<1>8. ASSUME NEW k \in 0..(depth - 1), node[below[k]] = Row(leaves, k)[At(x, k) + 1]
      PROVE  node[below[k + 1]] = Row(leaves, k + 1)[At(x, k + 1) + 1]
  <2> DEFINE a == At(x, k)
             m == At(size - 1, k)
             row == Row(leaves, k)
             j == At(x, k + 1) + 1
  <2>0. k \in Nat /\ k + 1 \in Nat
    BY <1>4
  <2>1. /\ a \in Nat /\ m \in Nat /\ a <= m
        /\ IsRight(x, k) <=> a % 2 = 1
        /\ HasSibling(x, k) <=> (IsRight(x, k) \/ a < m)
    BY SiblingIs
  <2>2. SiblingAt(x, k) = IF IsRight(x, k) THEN a - 1 ELSE a + 1
    BY DEF SiblingAt
  <2>3. At(x, k + 1) = a \div 2 /\ At(size - 1, k + 1) = m \div 2
    BY <1>4, <2>0, AtNext
  <2>4. j = (a \div 2) + 1 /\ j \in 1..(At(Len(leaves) - 1, k + 1) + 1)
    <3> HIDE DEF a, m
    <3>1. a \div 2 \in Nat /\ m \div 2 \in Nat /\ a \div 2 <= m \div 2
      BY <2>1
    <3> QED
      BY <1>4, <2>3, <3>1
  <2> HIDE DEF j
  <2>5. Row(leaves, k + 1)[j] = IF 2 * j <= m + 1 THEN <<row[2 * j - 1], row[2 * j]>>
                                ELSE row[2 * j - 1]
    <3> HIDE DEF m, row
    <3>1. At(Len(leaves) - 1, k) = m
      BY <1>4 DEF m
    <3>2. Row(leaves, k + 1)[j] = IF 2 * j <= At(Len(leaves) - 1, k) + 1
                                  THEN <<Row(leaves, k)[2 * j - 1], Row(leaves, k)[2 * j]>>
                                  ELSE Row(leaves, k)[2 * j - 1]
      <4>1. leaves \in Seq(Leaves) /\ Len(leaves) > 0 /\ k \in Nat
        BY <1>4, <2>0
      <4>2. j \in 1..(At(Len(leaves) - 1, k + 1) + 1)
        BY <2>4
      <4> QED
        BY <4>1, <4>2, RowNode
    <3> QED
      BY <3>1, <3>2 DEF row
  <2>6. node[below[k]] = row[a + 1]
    BY <1>8
  <2> HIDE DEF a, m, row
  <2>7. CASE HasSibling(x, k)
    <3> DEFINE n == below[k] + 1
    <3>1. /\ below[k + 1] = n /\ n \in 1..L /\ sib[n] = row[SiblingAt(x, k) + 1]
          /\ IsRight(idx, n - 1) <=> IsRight(x, k)
          /\ n - 1 = below[k]
      <4>1. below[k] \in Nat
        BY <1>4, <1>5
      <4>2. n - 1 = below[k]
        BY <4>1
      <4> QED
        BY <1>6, <2>7, <4>2 DEF row
    <3> HIDE DEF n
    <3>2. node[n] = IF IsRight(idx, n - 1) THEN poseidon2(sib[n], node[n - 1])
                    ELSE poseidon2(node[n - 1], sib[n])
      BY <1>3, <3>1
    <3>3. CASE IsRight(x, k)
      <4>1. 2 * j = a + 1 /\ 2 * j <= m + 1 /\ 2 * j - 1 = a /\ (a - 1) + 1 = a
        BY <2>1, <2>4, <3>3
      <4>2. node[n] = <<row[a], row[a + 1]>>
        BY <2>2, <2>6, <3>1, <3>2, <3>3, <4>1 DEF poseidon2
      <4>3. Row(leaves, k + 1)[j] = <<row[a], row[a + 1]>>
        BY <2>5, <4>1
      <4> QED
        BY <3>1, <4>2, <4>3 DEF j
    <3>4. CASE ~IsRight(x, k)
      <4>1. 2 * j = a + 2 /\ 2 * j <= m + 1 /\ 2 * j - 1 = a + 1 /\ (a + 1) + 1 = a + 2
        BY <2>1, <2>4, <2>7, <3>4
      <4>2. node[n] = <<row[a + 1], row[a + 2]>>
        BY <2>2, <2>6, <3>1, <3>2, <3>4, <4>1 DEF poseidon2
      <4>3. Row(leaves, k + 1)[j] = <<row[a + 1], row[a + 2]>>
        BY <2>5, <4>1
      <4> QED
        BY <3>1, <4>2, <4>3 DEF j
    <3> QED
      BY <3>3, <3>4
  <2>8. CASE ~HasSibling(x, k)
    <3>1. ~(2 * j <= m + 1) /\ 2 * j - 1 = a + 1
      BY <2>1, <2>4, <2>8
    <3>2. Row(leaves, k + 1)[j] = row[a + 1]
      BY <2>5, <3>1
    <3>3. below[k + 1] = below[k]
      BY <1>6, <2>8
    <3> QED
      BY <2>6, <3>2, <3>3 DEF j
  <2> QED
    BY <2>7, <2>8
<1> DEFINE S == {k \in Nat : k <= depth => node[below[k]] = Row(leaves, k)[At(x, k) + 1]}
<1>9. 0 \in S
  <2>1. At(x, 0) = x /\ Row(leaves, 0) = leaves
    BY <1>4, AtNext, RowDef
  <2> QED
    BY <1>5, <1>7, <2>1
<1>10. ASSUME NEW k \in S PROVE k + 1 \in S
  <2> SUFFICES ASSUME k + 1 <= depth
               PROVE  node[below[k + 1]] = Row(leaves, k + 1)[At(x, k + 1) + 1]
    OBVIOUS
  <2>1. k \in 0..(depth - 1) /\ node[below[k]] = Row(leaves, k)[At(x, k) + 1]
    BY <1>4
  <2> QED
    BY <1>8, <2>1
<1>11. S \in SUBSET Nat
  OBVIOUS
<1> HIDE DEF S
<1>12. S = Nat
  BY <1>9, <1>10, <1>11, SetInduction
<1>13. node[L] = Row(leaves, depth)[At(x, depth) + 1]
  <2>1. depth \in S /\ depth <= depth
    BY <1>4, <1>12
  <2> QED
    BY <1>5, <2>1 DEF S
<1>14. At(x, depth) + 1 = 1
  <2>1. At(size - 1, depth) = 0
    BY <1>4, DepthIs
  <2>2. At(x, depth) \in Nat /\ At(x, depth) <= At(size - 1, depth)
    BY <1>4, AtType, AtMonotone
  <2> QED
    BY <2>1, <2>2
<1>15. root = Row(leaves, depth)[1]
  <2>1. depth \in 0..depth
    BY <1>4
  <2>2. nodes[depth + 1] = Row(leaves, depth)
    BY <1>4, <2>1
  <2> QED
    BY <1>4, <2>2 DEF root
<1>16. compute_root_hashing_zeros(leaf, idx, sib) = root
  BY <1>3, <1>13, <1>14, <1>15
<1> QED
  BY <1>16 DEF proof, idx, sib, leaf

\* Where no sibling is zero the two ways to recompute a root agree.
LEMMA NoZeroHashed ==
    ASSUME NEW leaf, NEW index, NEW siblings, Len(siblings) \in Nat,
           \A k \in 1..Len(siblings) : siblings[k] # Zero
    PROVE  compute_root(leaf, index, siblings) = compute_root_hashing_zeros(leaf, index, siblings)
<1> DEFINE L == Len(siblings)
<1>1. PICK node : /\ node[0] = leaf
                  /\ \A k \in 1..L :
                        node[k] = IF IsRight(index, k - 1) THEN poseidon2(siblings[k], node[k - 1])
                                  ELSE poseidon2(node[k - 1], siblings[k])
                  /\ compute_root_hashing_zeros(leaf, index, siblings) = node[L]
  BY HashingDef
<1>2. PICK new : /\ new[0] = leaf
                 /\ \A k \in 1..L :
                       new[k] = IF siblings[k] = Zero THEN new[k - 1]
                                ELSE IF IsRight(index, k - 1) THEN poseidon2(siblings[k], new[k - 1])
                                ELSE poseidon2(new[k - 1], siblings[k])
                 /\ compute_root(leaf, index, siblings) = new[L]
  BY ComputeRootDef
<1> HIDE DEF L
<1>0. L \in Nat
  BY DEF L
<1> DEFINE S == {k \in Nat : k <= L => new[k] = node[k]}
<1>3. 0 \in S
  BY <1>1, <1>2
<1>4. ASSUME NEW k \in S PROVE k + 1 \in S
  <2> SUFFICES ASSUME k + 1 <= L PROVE new[k + 1] = node[k + 1]
    OBVIOUS
  <2>1. (k + 1) - 1 = k /\ k + 1 \in 1..L /\ new[k] = node[k]
    BY <1>0
  <2>2. siblings[k + 1] # Zero
    BY <2>1 DEF L
  <2> QED
    BY <1>1, <1>2, <2>1, <2>2
<1>5. S \in SUBSET Nat
  OBVIOUS
<1> HIDE DEF S
<1>6. S = Nat
  BY <1>3, <1>4, <1>5, SetInduction
<1>7. new[L] = node[L]
  <2>1. L \in S /\ L <= L
    BY <1>0, <1>6
  <2> QED
    BY <2>1 DEF S
<1> QED
  BY <1>1, <1>2, <1>7

\* No node over leaves that are not zero is zero.
LEMMA RowsNotZero ==
    ASSUME NEW a \in Seq(Leaves), Len(a) > 0, \A n \in DOMAIN a : a[n] # Zero
    PROVE  \A k \in Nat : \A j \in 1..(At(Len(a) - 1, k) + 1) : Row(a, k)[j] # Zero
<1> DEFINE m == Len(a) - 1
<1>0. m \in Nat /\ Len(a) = m + 1 /\ DOMAIN a = 1..(m + 1)
  OBVIOUS
<1> HIDE DEF m
<1> DEFINE S == {k \in Nat : \A j \in 1..(At(m, k) + 1) : Row(a, k)[j] # Zero}
<1>1. 0 \in S
  BY <1>0, RowDef, AtNext
<1>2. ASSUME NEW k \in S PROVE k + 1 \in S
  <2> SUFFICES ASSUME NEW j \in 1..(At(m, k + 1) + 1) PROVE Row(a, k + 1)[j] # Zero
    OBVIOUS
  <2>1. At(m, k) \in Nat /\ At(m, k + 1) = At(m, k) \div 2
    BY <1>0, AtType, AtNext
  <2>2. j \in 1..((At(m, k) \div 2) + 1) /\ 2 * j - 1 \in 1..(At(m, k) + 1)
    BY <2>1
  <2>3. Row(a, k + 1)[j] = IF 2 * j <= At(m, k) + 1
                           THEN <<Row(a, k)[2 * j - 1], Row(a, k)[2 * j]>>
                           ELSE Row(a, k)[2 * j - 1]
    BY RowNode DEF m
  <2>4. Row(a, k)[2 * j - 1] # Zero
    BY <2>2
  <2> QED
    BY <2>3, <2>4, PairIs
<1>3. S \in SUBSET Nat
  OBVIOUS
<1> HIDE DEF S
<1>4. S = Nat
  BY <1>1, <1>2, <1>3, SetInduction
<1> QED
  BY <1>4 DEF S, m

LEMMA NoZeroAmongNodes ==
    ASSUME TreeInv, NEW x \in 0..(size - 1), \A n \in DOMAIN leaves : leaves[n] # Zero
    PROVE  NoZeroMet(generate_proof(x))
<1> DEFINE proof == generate_proof(x)
<1>1. PICK below : ProofHolds(x, proof, below)
  BY ProofIs
<1> HIDE DEF proof
<1>2. /\ leaves \in Seq(Leaves) /\ Len(leaves) = size /\ Len(leaves) > 0 /\ depth \in Nat
  BY TreeIs
<1>3. ASSUME NEW j \in 1..Len(proof.siblings) PROVE proof.siblings[j] # Zero
  <2>1. PICK k \in 0..(depth - 1) : HasSibling(x, k) /\ below[k] = j - 1
    BY <1>1 DEF ProofHolds
  <2>2. proof.siblings[below[k] + 1] = Row(leaves, k)[SiblingAt(x, k) + 1]
    BY <1>1, <2>1 DEF ProofHolds
  <2>3. below[k] + 1 = j
    BY <2>1
  <2>4. SiblingAt(x, k) + 1 \in 1..(At(Len(leaves) - 1, k) + 1)
    BY <1>2, <2>1, SiblingIs
  <2>5. k \in Nat
    BY <1>2
  <2> QED
    BY <1>2, <2>2, <2>3, <2>4, <2>5, RowsNotZero
<1> QED
  BY <1>1, <1>3 DEF NoZeroMet, ProofHolds, proof

\* Every proof generated for a leaf of the tree leads to the tree's root, and
\* verify_inclusion accepts it unless a zero is among its siblings or it has
\* more of them than the circuit has room for.
THEOREM GeneratedProofsVerify == TreeSpec => []ProofsVerify
<1>1. TreeInv => ProofsVerify
  <2> SUFFICES ASSUME TreeInv, NEW x \in 0..(size - 1)
               PROVE  LET proof == generate_proof(x)
                      IN  /\ compute_root_hashing_zeros(proof.leaf, proof.index, proof.siblings) = root
                          /\ (\A n \in DOMAIN leaves : leaves[n] # Zero) => NoZeroMet(proof)
                          /\ FitsCircuit(proof) /\ NoZeroMet(proof) =>
                                 verify_inclusion(root, proof.leaf, proof.index, proof.siblings)
    BY DEF ProofsVerify
  <2> DEFINE proof == generate_proof(x)
  <2>1. compute_root_hashing_zeros(proof.leaf, proof.index, proof.siblings) = root
    BY ProofClimbs
  <2>2. (\A n \in DOMAIN leaves : leaves[n] # Zero) => NoZeroMet(proof)
    BY NoZeroAmongNodes
  <2>3. Len(proof.siblings) \in Nat /\ DOMAIN proof.siblings = 1..Len(proof.siblings)
    BY ProofIs DEF ProofHolds
  <2> HIDE DEF proof
  <2>4. ASSUME FitsCircuit(proof), NoZeroMet(proof)
        PROVE  verify_inclusion(root, proof.leaf, proof.index, proof.siblings)
    <3>1. \A k \in 1..Len(proof.siblings) : proof.siblings[k] # Zero
      BY <2>3, <2>4 DEF NoZeroMet
    <3>2. compute_root(proof.leaf, proof.index, proof.siblings) = root
      BY <2>1, <2>3, <3>1, NoZeroHashed
    <3> QED
      BY <2>4, <3>2 DEF verify_inclusion, FitsCircuit
  <2> QED
    BY <2>1, <2>2, <2>4 DEF proof
<1> QED
  BY <1>1, TreeIsThatOfItsLeaves, PTL

\* What is left in the proof of a leaf from level k up says where its path is at
\* that level.
LEMMA SamePath ==
    ASSUME TreeInv, NEW x \in 0..(size - 1), NEW y \in 0..(size - 1),
           NEW p, NEW q, NEW f, NEW g, ProofHolds(x, p, f), ProofHolds(y, q, g),
           p.index = q.index, NEW k \in 0..(depth - 1),
           At(x, k + 1) = At(y, k + 1), f[k + 1] = g[k + 1]
    PROVE  At(x, k) = At(y, k) /\ f[k] = g[k]
<1> DEFINE a == At(x, k)
           b == At(y, k)
           m == At(size - 1, k)
<1>1. size \in Nat /\ depth \in Nat /\ x \in Nat /\ y \in Nat /\ k \in Nat
  BY TreeIs
<1>2. /\ a \in Nat /\ b \in Nat /\ m \in Nat /\ a <= m /\ b <= m
      /\ IsRight(x, k) <=> a % 2 = 1
      /\ IsRight(y, k) <=> b % 2 = 1
      /\ HasSibling(x, k) <=> (IsRight(x, k) \/ a < m)
      /\ HasSibling(y, k) <=> (IsRight(y, k) \/ b < m)
  BY SiblingIs
<1>3. At(x, k + 1) = a \div 2 /\ At(y, k + 1) = b \div 2
  BY <1>1, AtNext
<1>4. f[k] \in Nat /\ g[k] \in Nat
  <2>1. k \in 0..depth
    BY <1>1
  <2> QED
    BY <2>1 DEF ProofHolds
<1>5. /\ HasSibling(x, k) => /\ f[k + 1] = f[k] + 1
                             /\ IsRight(p.index, f[k]) <=> IsRight(x, k)
      /\ ~HasSibling(x, k) => f[k + 1] = f[k]
      /\ HasSibling(y, k) => /\ g[k + 1] = g[k] + 1
                             /\ IsRight(q.index, g[k]) <=> IsRight(y, k)
      /\ ~HasSibling(y, k) => g[k + 1] = g[k]
  BY DEF ProofHolds
<1> HIDE DEF a, b, m
<1>6. a = b
  <2> SUFFICES ASSUME a # b PROVE FALSE
    OBVIOUS
  <2>0. a \div 2 = b \div 2
    BY <1>3
  <2>1. \/ a % 2 = 1 /\ b % 2 # 1 /\ b + 1 = a
        \/ b % 2 = 1 /\ a % 2 # 1 /\ a + 1 = b
    BY <1>2, <2>0
  <2>2. HasSibling(x, k) /\ HasSibling(y, k) /\ (IsRight(x, k) <=> ~IsRight(y, k))
    BY <1>2, <2>1
  <2>3. f[k] = g[k]
    BY <1>4, <1>5, <2>2
  <2> QED
    BY <1>5, <2>2, <2>3
<1>7. HasSibling(x, k) <=> HasSibling(y, k)
  BY <1>2, <1>6
<1>8. f[k] = g[k]
  BY <1>4, <1>5, <1>7
<1> QED
  BY <1>6, <1>8 DEF a, b

\* The index the circuit is given (tree.rs:72, flow.rs:139-143) has no bit above
\* the depth it is given, and both together name one leaf of the tree.
THEOREM IndexAndDepthNameOneLeaf == TreeSpec => []IndexAndDepthBind
<1>1. TreeInv => IndexAndDepthBind
  <2> SUFFICES ASSUME TreeInv, NEW x \in 0..(size - 1), NEW y \in 0..(size - 1)
               PROVE  LET p == generate_proof(x)
                          q == generate_proof(y)
                      IN  /\ At(p.index, proof_depth(p)) = 0
                          /\ x # y => p.index # q.index \/ proof_depth(p) # proof_depth(q)
    BY DEF IndexAndDepthBind
  <2> DEFINE p == generate_proof(x)
             q == generate_proof(y)
  <2>1. PICK f : ProofHolds(x, p, f)
    BY ProofIs
  <2>2. PICK g : ProofHolds(y, q, g)
    BY ProofIs
  <2> HIDE DEF p, q
  <2>3. At(p.index, proof_depth(p)) = 0
    BY <2>1 DEF ProofHolds, proof_depth
  <2>4. ASSUME p.index = q.index, Len(p.siblings) = Len(q.siblings)
        PROVE  x = y
    <3>1. /\ size \in Nat /\ size > 0 /\ size - 1 \in Nat /\ depth = ceil_log2(size) /\ depth \in Nat
          /\ x \in Nat /\ y \in Nat /\ x <= size - 1 /\ y <= size - 1
      BY TreeIs
    <3> DEFINE S == {k \in Nat : k <= depth => /\ At(x, depth - k) = At(y, depth - k)
                                               /\ f[depth - k] = g[depth - k]}
    <3>2. 0 \in S
      <4>1. At(size - 1, depth) = 0
        BY <3>1, DepthIs
      <4>2. At(x, depth) = 0 /\ At(y, depth) = 0
        <5>1. /\ At(x, depth) \in Nat /\ At(x, depth) <= At(size - 1, depth)
              /\ At(y, depth) \in Nat /\ At(y, depth) <= At(size - 1, depth)
          BY <3>1, AtType, AtMonotone
        <5> QED
          BY <4>1, <5>1
      <4>3. f[depth] = g[depth]
        BY <2>1, <2>2, <2>4 DEF ProofHolds
      <4>4. depth - 0 = depth
        BY <3>1
      <4> QED
        BY <4>2, <4>3, <4>4
    <3>3. ASSUME NEW k \in S PROVE k + 1 \in S
      <4> SUFFICES ASSUME k + 1 <= depth
                   PROVE  /\ At(x, depth - (k + 1)) = At(y, depth - (k + 1))
                          /\ f[depth - (k + 1)] = g[depth - (k + 1)]
        OBVIOUS
      <4> DEFINE j == depth - (k + 1)
      <4>1. j \in 0..(depth - 1) /\ j + 1 = depth - k
        BY <3>1
      <4>2. At(x, depth - k) = At(y, depth - k) /\ f[depth - k] = g[depth - k]
        BY <3>1
      <4> HIDE DEF j
      <4>3. At(x, j + 1) = At(y, j + 1) /\ f[j + 1] = g[j + 1]
        BY <4>1, <4>2
      <4>4. At(x, j) = At(y, j) /\ f[j] = g[j]
        BY <2>1, <2>2, <2>4, <4>1, <4>3, SamePath
      <4> QED
        BY <4>4 DEF j
    <3>4. S \in SUBSET Nat
      OBVIOUS
    <3> HIDE DEF S
    <3>5. S = Nat
      BY <3>2, <3>3, <3>4, SetInduction
    <3>6. depth \in S /\ depth <= depth /\ depth - depth = 0
      BY <3>1, <3>5
    <3>7. At(x, 0) = At(y, 0)
      BY <3>6 DEF S
    <3> QED
      BY <3>1, <3>7, AtNext
  <2> QED
    BY <2>3, <2>4 DEF p, q, proof_depth
<1> QED
  BY <1>1, TreeIsThatOfItsLeaves, PTL

\* A zero at the end of the siblings is as if it were not there.
LEMMA PaddingIgnored ==
    ASSUME NEW leaf, NEW index, NEW siblings, Len(siblings) \in Nat,
           NEW longer, Len(longer) \in Nat, Len(siblings) <= Len(longer),
           \A k \in 1..Len(longer) :
              longer[k] = IF k <= Len(siblings) THEN siblings[k] ELSE Zero
    PROVE  compute_root(leaf, index, longer) = compute_root(leaf, index, siblings)
<1> DEFINE L == Len(siblings)
           M == Len(longer)
<1>1. PICK node : /\ node[0] = leaf
                  /\ \A k \in 1..L :
                        node[k] = IF siblings[k] = Zero THEN node[k - 1]
                                  ELSE IF IsRight(index, k - 1) THEN poseidon2(siblings[k], node[k - 1])
                                  ELSE poseidon2(node[k - 1], siblings[k])
                  /\ compute_root(leaf, index, siblings) = node[L]
  BY ComputeRootDef
<1>2. PICK new : /\ new[0] = leaf
                 /\ \A k \in 1..M :
                       new[k] = IF longer[k] = Zero THEN new[k - 1]
                                ELSE IF IsRight(index, k - 1) THEN poseidon2(longer[k], new[k - 1])
                                ELSE poseidon2(new[k - 1], longer[k])
                 /\ compute_root(leaf, index, longer) = new[M]
  BY ComputeRootDef
<1>0. L \in Nat /\ M \in Nat /\ L <= M
  OBVIOUS
<1>3. \A k \in 1..M : longer[k] = IF k <= L THEN siblings[k] ELSE Zero
  OBVIOUS
<1> HIDE DEF L, M
<1> DEFINE end(k) == IF k <= L THEN k ELSE L
           S == {k \in Nat : k <= M => new[k] = node[end(k)]}
<1>4. 0 \in S
  BY <1>0, <1>1, <1>2
<1>5. ASSUME NEW k \in S PROVE k + 1 \in S
  <2> SUFFICES ASSUME k + 1 <= M PROVE new[k + 1] = node[end(k + 1)]
    OBVIOUS
  <2>1. (k + 1) - 1 = k /\ k + 1 \in 1..M /\ new[k] = node[end(k)]
    BY <1>0
  <2>2. CASE k + 1 <= L
    <3>1. k + 1 \in 1..L /\ end(k) = k /\ end(k + 1) = k + 1 /\ longer[k + 1] = siblings[k + 1]
      BY <1>0, <1>3, <2>1, <2>2
    <3> HIDE DEF end
    <3> QED
      BY <1>1, <1>2, <2>1, <3>1
  <2>3. CASE ~(k + 1 <= L)
    <3>1. end(k) = L /\ end(k + 1) = L /\ longer[k + 1] = Zero
      BY <1>0, <1>3, <2>1, <2>3
    <3> HIDE DEF end
    <3> QED
      BY <1>2, <2>1, <3>1
  <2> QED
    BY <2>2, <2>3
<1>6. S \in SUBSET Nat
  OBVIOUS
<1> HIDE DEF S
<1>7. S = Nat
  BY <1>4, <1>5, <1>6, SetInduction
<1>8. new[M] = node[L]
  <2>1. M \in S /\ M <= M
    BY <1>0, <1>7
  <2>2. new[M] = node[end(M)] /\ end(M) = L
    BY <1>0, <2>1 DEF S
  <2> QED
    BY <2>2
<1> QED
  BY <1>1, <1>2, <1>8

\* Under one index and one list of siblings two leaves have two roots.
LEMMA RootBindsLeaf ==
    ASSUME NEW x, NEW y, NEW index, NEW siblings, Len(siblings) \in Nat,
           compute_root(x, index, siblings) = compute_root(y, index, siblings)
    PROVE  x = y
<1> DEFINE L == Len(siblings)
<1>1. PICK f : /\ f[0] = x
               /\ \A k \in 1..L :
                     f[k] = IF siblings[k] = Zero THEN f[k - 1]
                            ELSE IF IsRight(index, k - 1) THEN poseidon2(siblings[k], f[k - 1])
                            ELSE poseidon2(f[k - 1], siblings[k])
               /\ compute_root(x, index, siblings) = f[L]
  BY ComputeRootDef
<1>2. PICK g : /\ g[0] = y
               /\ \A k \in 1..L :
                     g[k] = IF siblings[k] = Zero THEN g[k - 1]
                            ELSE IF IsRight(index, k - 1) THEN poseidon2(siblings[k], g[k - 1])
                            ELSE poseidon2(g[k - 1], siblings[k])
               /\ compute_root(y, index, siblings) = g[L]
  BY ComputeRootDef
<1>0. L \in Nat
  OBVIOUS
<1> HIDE DEF L
<1> DEFINE S == {k \in Nat : k <= L => (f[k] = g[k] => x = y)}
<1>3. 0 \in S
  BY <1>1, <1>2
<1>4. ASSUME NEW k \in S PROVE k + 1 \in S
  <2> SUFFICES ASSUME k + 1 <= L, f[k + 1] = g[k + 1] PROVE x = y
    OBVIOUS
  <2>1. (k + 1) - 1 = k /\ k + 1 \in 1..L /\ (f[k] = g[k] => x = y)
    BY <1>0
  <2> DEFINE s == siblings[k + 1]
             u == f[k]
             v == g[k]
  <2>2. /\ f[k + 1] = IF s = Zero THEN u ELSE IF IsRight(index, k) THEN <<s, u>> ELSE <<u, s>>
        /\ g[k + 1] = IF s = Zero THEN v ELSE IF IsRight(index, k) THEN <<s, v>> ELSE <<v, s>>
    BY <1>1, <1>2, <2>1 DEF poseidon2
  <2> HIDE DEF s, u, v
  <2>3. u = v
    <3>1. CASE s = Zero
      BY <2>2, <3>1
    <3>2. CASE s # Zero /\ IsRight(index, k)
      <4>1. <<s, u>> = <<s, v>>
        BY <2>2, <3>2
      <4> QED
        BY <4>1, PairsEqual
    <3>3. CASE s # Zero /\ ~IsRight(index, k)
      <4>1. <<u, s>> = <<v, s>>
        BY <2>2, <3>3
      <4> QED
        BY <4>1, PairsEqual
    <3> QED
      BY <3>1, <3>2, <3>3
  <2> QED
    BY <2>1, <2>3 DEF u, v
<1>5. S \in SUBSET Nat
  OBVIOUS
<1> HIDE DEF S
<1>6. S = Nat
  BY <1>3, <1>4, <1>5, SetInduction
<1>7. L \in S /\ L <= L
  BY <1>0, <1>6
<1> QED
  BY <1>1, <1>2, <1>7 DEF S

\* The proof that the circuit is given (inputs.rs:24-34, tree.rs:33-37), padded
\* to its fixed number of siblings, proves its leaf and no other.
THEOREM PaddedProofsProveOneLeaf == TreeSpec => []PaddedProofsBind
<1>1. TreeInv => PaddedProofsBind
  <2> SUFFICES ASSUME TreeInv, NEW x \in 0..(size - 1),
                      FitsCircuit(generate_proof(x)), NoZeroMet(generate_proof(x)),
                      NEW leaf \in Leaves
               PROVE  verify_inclusion(root, leaf, generate_proof(x).index,
                                       padded_siblings(generate_proof(x)))
                          <=> leaf = generate_proof(x).leaf
    BY DEF PaddedProofsBind
  <2> DEFINE proof == generate_proof(x)
             sib == proof.siblings
             padded == padded_siblings(proof)
             index == proof.index
             own == proof.leaf
  <2>1. Len(sib) \in Nat /\ DOMAIN sib = 1..Len(sib)
    BY ProofIs DEF ProofHolds
  <2>2. MAX_TREE_DEPTH \in Nat /\ Len(sib) <= MAX_TREE_DEPTH
    BY BoundsAssumption DEF FitsCircuit
  <2>3. \A k \in 1..Len(sib) : sib[k] # Zero
    BY <2>1 DEF NoZeroMet
  <2>4. compute_root_hashing_zeros(own, index, sib) = root
    BY ProofClimbs
  <2>5. padded = [k \in 1..MAX_TREE_DEPTH |-> IF k <= Len(sib) THEN sib[k] ELSE Zero]
    BY DEF padded_siblings
  <2> HIDE DEF proof, sib, padded, index, own
  <2>6. Len(padded) = MAX_TREE_DEPTH
    <3>1. IsRow(padded, MAX_TREE_DEPTH)
      BY <2>5 DEF IsRow
    <3> QED
      BY <2>2, <3>1, RowLen
  <2>7. \A k \in 1..Len(padded) : padded[k] = IF k <= Len(sib) THEN sib[k] ELSE Zero
    BY <2>5, <2>6
  <2>8. compute_root(leaf, index, padded) = compute_root(leaf, index, sib)
    BY <2>1, <2>2, <2>6, <2>7, PaddingIgnored
  <2>9. compute_root(own, index, sib) = root
    BY <2>1, <2>3, <2>4, NoZeroHashed
  <2>10. compute_root(leaf, index, sib) = root <=> leaf = own
    BY <2>1, <2>9, RootBindsLeaf
  <2>11. verify_inclusion(root, leaf, index, padded) <=> leaf = own
    BY <2>2, <2>6, <2>8, <2>10 DEF verify_inclusion
  <2> QED
    BY <2>11 DEF proof, padded, index, own
<1> QED
  BY <1>1, TreeIsThatOfItsLeaves, PTL

-----------------------------------------------------------------------------
(* verify_state_root.                                                      *)

LEMMA InitTypeOK == Init => TypeOK
BY HistoryAssumption, TargetsAssumption DEF Init, TypeOK, Slots

LEMMA NextTypeOK == TypeOK /\ [Next]_vars => TypeOK'
<1> SUFFICES ASSUME TypeOK, [Next]_vars PROVE TypeOK'
  OBVIOUS
<1> USE HistoryAssumption DEF TypeOK, Slots
<1>1. CASE NewRoot
  <2>1. /\ count' = count + 1
        /\ head' = IF head = ROOT_HISTORY_SIZE - 1 THEN 0 ELSE head + 1
        /\ roots' = [roots EXCEPT ![head'] = count']
        /\ UNCHANGED <<pc, target, i, countAtCall>>
    BY <1>1 DEF NewRoot, callVars
  <2> QED
    BY <2>1
<1>2. CASE VerifyStateRoot
  BY <1>2 DEF VerifyStateRoot, Proceed, Call, ReadCurrent, ReadSlot, NotFound, CallFails, poolVars
<1>3. CASE UNCHANGED vars
  BY <1>3 DEF vars, poolVars, callVars
<1> QED
  BY <1>1, <1>2, <1>3 DEF Next

\* The walk never reads past the ring, and the ring's head stays in it.
THEOREM RootCheckTypeCorrect == Spec => []TypeOK
BY InitTypeOK, NextTypeOK, PTL DEF Spec

-----------------------------------------------------------------------------
(* The ring buffer.                                                        *)

LEMMA InitRingInv == Init => RingInv
BY DEF Init, RingInv, Slots

\* A new root goes to the slot of the one root that stops being recent, and
\* every other recent root keeps its slot.
LEMMA SlotKept ==
    ASSUME TypeOK, NewRoot, NEW t \in Nat, Recent(t, count)
    PROVE  /\ SlotOf(t, head, count) \in Slots
           /\ Recent(t, count + 1) =>
                 /\ SlotOf(t, head', count + 1) = SlotOf(t, head, count)
                 /\ SlotOf(t, head, count) # head'
           /\ ~Recent(t, count + 1) => SlotOf(t, head, count) = head'
BY HistoryAssumption DEF TypeOK, NewRoot, Recent, SlotOf, Slots

LEMMA NextRingInv == TypeOK /\ RingInv /\ [Next]_vars => RingInv'
<1> SUFFICES ASSUME TypeOK, RingInv, [Next]_vars PROVE RingInv'
  OBVIOUS
<1>1. CASE NewRoot
  <2>1. /\ count \in Nat /\ count' = count + 1
        /\ ROOT_HISTORY_SIZE \in Nat \ {0}
        /\ head' \in Slots /\ head' \in Nat
        /\ roots \in [Slots -> Nat]
        /\ roots' = [roots EXCEPT ![head'] = count + 1]
    BY <1>1, HistoryAssumption DEF NewRoot, TypeOK, Slots
  <2>2. SlotOf(count + 1, head', count + 1) = head' /\ Recent(count + 1, count + 1)
    <3> DEFINE h == head'
    <3>1. h - ((count + 1) - (count + 1)) = h /\ h >= 0
      <4> h \in Nat /\ count \in Nat
        BY <2>1
      <4> HIDE DEF h
      <4> QED
        OBVIOUS
    <3>2. Recent(count + 1, count + 1)
      BY <2>1 DEF Recent
    <3> QED
      BY <3>1, <3>2 DEF SlotOf
  <2>3. ASSUME NEW t \in 1..(count + 1), Recent(t, count + 1)
        PROVE  roots'[SlotOf(t, head', count + 1)] = t
    <3>1. CASE t = count + 1
      BY <3>1, <2>1, <2>2
    <3>2. CASE t # count + 1
      <4>1. t \in 1..count /\ t \in Nat /\ Recent(t, count)
        BY <3>2, <2>1, <2>3 DEF Recent
      <4>2. /\ SlotOf(t, head', count + 1) = SlotOf(t, head, count)
            /\ SlotOf(t, head, count) # head'
            /\ SlotOf(t, head, count) \in Slots
        BY <4>1, <1>1, <2>3, SlotKept
      <4>3. roots[SlotOf(t, head, count)] = t
        BY <4>1 DEF RingInv
      <4> QED
        BY <4>2, <4>3, <2>1
    <3> QED
      BY <3>1, <3>2
  <2>4. ASSUME NEW s \in Slots
        PROVE  \/ roots'[s] = 0
               \/ /\ Recent(roots'[s], count + 1)
                  /\ s = SlotOf(roots'[s], head', count + 1)
    <3>1. CASE s = head'
      BY <3>1, <2>1, <2>2
    <3>2. CASE s # head' /\ roots[s] # 0
      <4>1. roots'[s] = roots[s] /\ roots[s] \in Nat
        BY <3>2, <2>1
      <4>2. Recent(roots[s], count) /\ s = SlotOf(roots[s], head, count)
        BY <3>2 DEF RingInv
      <4>3. Recent(roots[s], count + 1)
        BY <4>1, <4>2, <3>2, <1>1, SlotKept
      <4>4. SlotOf(roots[s], head', count + 1) = s
        BY <4>1, <4>2, <4>3, <1>1, SlotKept
      <4> QED
        BY <4>1, <4>3, <4>4
    <3>3. CASE s # head' /\ roots[s] = 0
      BY <3>3, <2>1
    <3> QED
      BY <3>1, <3>2, <3>3
  <2> QED
    BY <2>1, <2>3, <2>4 DEF RingInv
<1>2. CASE VerifyStateRoot \/ UNCHANGED vars
  <2>1. UNCHANGED poolVars
    BY <1>2 DEF VerifyStateRoot, Proceed, Call, ReadCurrent, ReadSlot, NotFound, CallFails, vars
  <2> QED
    BY <2>1 DEF RingInv, poolVars
<1> QED
  BY <1>1, <1>2 DEF Next

-----------------------------------------------------------------------------
(* The answer "true".                                                      *)

\* Once the pool has had as many roots as the ring has slots, each is written:
\* slot s is that of the root as far back as s is from the head.
LEMMA FullRing ==
    ASSUME TypeOK, RingInv, count >= ROOT_HISTORY_SIZE, NEW s \in Slots
    PROVE  roots[s] # 0
<1> DEFINE back == IF s <= head THEN head - s ELSE head - s + ROOT_HISTORY_SIZE
<1>1. /\ count \in Nat /\ head \in Nat /\ s \in Nat /\ ROOT_HISTORY_SIZE \in Nat \ {0}
      /\ head < ROOT_HISTORY_SIZE /\ s < ROOT_HISTORY_SIZE
  BY HistoryAssumption DEF TypeOK, Slots
<1>2. back \in 0..(ROOT_HISTORY_SIZE - 1)
  BY <1>1
<1>3. count - back \in 1..count /\ Recent(count - back, count)
  BY <1>1, <1>2 DEF Recent
<1>4. SlotOf(count - back, head, count) = s
  BY <1>1 DEF SlotOf
<1> QED
  BY <1>3, <1>4, <1>1 DEF RingInv

LEMMA NextTrueIsSound ==
    TypeOK /\ RingInv /\ TrueIsSound /\ [Next]_vars => TrueIsSound'
<1> SUFFICES ASSUME TypeOK, RingInv, TrueIsSound, [Next]_vars,
                    pc' = "true", target' # 0 \/ countAtCall' >= ROOT_HISTORY_SIZE
             PROVE  \E n \in countAtCall'..count' : Recent(target', n)
  BY DEF TrueIsSound
<1>t. count \in Nat /\ countAtCall \in 0..count /\ target \in Nat
  BY TargetsAssumption DEF TypeOK
<1>1. CASE NewRoot
  <2>1. /\ count' = count + 1 /\ UNCHANGED <<pc, target, countAtCall>>
    BY <1>1 DEF NewRoot, callVars
  <2>2. PICK n \in countAtCall..count : Recent(target, n)
    BY <2>1 DEF TrueIsSound
  <2> QED
    BY <2>1, <2>2, <1>t
<1>2. CASE ReadCurrent \/ ReadSlot
  <2>1. UNCHANGED <<count, target, countAtCall>>
    BY <1>2 DEF ReadCurrent, ReadSlot, poolVars
  <2>0. target # 0 \/ count >= ROOT_HISTORY_SIZE
    BY <2>1, <1>t, HistoryAssumption
  <2>2. Recent(target, count)
    <3>1. CASE ReadCurrent
      BY <3>1, <2>0, <2>1, <1>t, HistoryAssumption DEF ReadCurrent, Recent
    <3>2. CASE ReadSlot
      <4>1. i \in Slots /\ roots[i] = target
        BY <3>2, HistoryAssumption DEF ReadSlot, TypeOK, Slots
      <4>2. roots[i] # 0
        BY <4>1, <2>0, FullRing
      <4> QED
        BY <4>1, <4>2, <2>1 DEF RingInv
    <3> QED
      BY <1>2, <3>1, <3>2
  <2> QED
    BY <2>1, <2>2, <1>t
<1>3. CASE Call \/ NotFound \/ CallFails
  BY <1>3 DEF Call, NotFound, CallFails
<1>4. CASE UNCHANGED vars
  BY <1>4 DEF vars, poolVars, callVars, TrueIsSound
<1> QED
  BY <1>1, <1>2, <1>3, <1>4 DEF Next, VerifyStateRoot, Proceed

\* When verify_state_root answers true (sync.rs:291-303) the root was one of
\* the pool's last ROOT_HISTORY_SIZE at some moment of the call: for every ring
\* size, and every number of roots that arrive during the walk.
THEOREM VerifiedRootWasRecent == Spec => []TrueIsSound
<1>1. Init => TypeOK /\ RingInv /\ TrueIsSound
  BY InitTypeOK, InitRingInv DEF Init, TrueIsSound
<1>2. TypeOK /\ RingInv /\ TrueIsSound /\ [Next]_vars
         => (TypeOK /\ RingInv /\ TrueIsSound)'
  BY NextTypeOK, NextRingInv, NextTrueIsSound
<1> QED
  BY <1>1, <1>2, PTL DEF Spec

-----------------------------------------------------------------------------
(* The answer "false".                                                     *)

LEMMA NextWalkInv ==
    TypeOK /\ RingInv /\ WalkInv /\ FalseIsSound /\ [Next]_vars
        => WalkInv' /\ FalseIsSound'
<1> SUFFICES ASSUME TypeOK, RingInv, WalkInv, FalseIsSound, [Next]_vars
             PROVE  WalkInv' /\ FalseIsSound'
  OBVIOUS
<1>t. /\ count \in Nat /\ countAtCall \in 0..count /\ target \in Nat
      /\ i \in 0..ROOT_HISTORY_SIZE /\ ROOT_HISTORY_SIZE \in Nat \ {0}
      /\ head \in Slots
  BY TargetsAssumption, HistoryAssumption DEF TypeOK
<1>s. Recent(target, count) => /\ SlotOf(target, head, count) \in Slots
                               /\ roots[SlotOf(target, head, count)] = target
  <2>1. Recent(target, count) => target \in 1..count
    BY <1>t DEF Recent
  <2>2. Recent(target, count) => SlotOf(target, head, count) \in Slots
    BY <1>t DEF Recent, SlotOf, Slots
  <2> QED
    BY <2>1, <2>2 DEF RingInv
<1>1. CASE NewRoot
  <2>1. /\ count' = count + 1 /\ UNCHANGED <<pc, target, i, countAtCall>>
    BY <1>1 DEF NewRoot, callVars
  <2>2. Recent(target, countAtCall) /\ Recent(target, count + 1) => Recent(target, count)
    BY <1>t DEF Recent
  <2>3. Recent(target, count) /\ Recent(target, count + 1) =>
           SlotOf(target, head', count + 1) = SlotOf(target, head, count)
    BY <1>1, <1>t, SlotKept
  <2> QED
    BY <2>1, <2>2, <2>3 DEF WalkInv, FalseIsSound
<1>2. CASE ReadCurrent
  <2>1. UNCHANGED <<count, head, target, i, countAtCall>> /\ pc' # "false"
    BY <1>2 DEF ReadCurrent, poolVars
  <2>2. i = 0
    BY <1>2 DEF ReadCurrent, WalkInv
  <2> QED
    BY <2>1, <2>2, <1>s, <1>t DEF WalkInv, FalseIsSound, Slots
<1>3. CASE ReadSlot
  <2>1. UNCHANGED <<count, head, target, countAtCall>> /\ pc' \in {"true", "walk"} /\ pc = "walk"
    BY <1>3 DEF ReadSlot, poolVars
  <2>2. CASE pc' = "walk"
    <3>1. i' = i + 1 /\ roots[i] # target
      BY <1>3, <2>2 DEF ReadSlot
    <3>2. Recent(target, countAtCall) /\ Recent(target, count) =>
             i <= SlotOf(target, head, count) /\ i # SlotOf(target, head, count)
      BY <3>1, <2>1, <1>s DEF WalkInv
    <3>3. Recent(target, count) => SlotOf(target, head, count) \in Int
      BY <1>s, <1>t DEF Slots
    <3>4. Recent(target, countAtCall) /\ Recent(target, count) =>
             i' <= SlotOf(target, head, count)
      BY <3>1, <3>2, <3>3, <1>t
    <3> QED
      BY <2>1, <2>2, <3>4 DEF WalkInv, FalseIsSound
  <2>3. CASE pc' # "walk"
    BY <2>1, <2>3 DEF WalkInv, FalseIsSound
  <2> QED
    BY <2>2, <2>3
<1>4. CASE NotFound
  <2>1. /\ UNCHANGED <<count, head, target, i, countAtCall>>
        /\ pc = "walk" /\ pc' = "false" /\ i = ROOT_HISTORY_SIZE
    BY <1>4 DEF NotFound, poolVars
  <2>2. Recent(target, countAtCall) /\ Recent(target, count) => FALSE
    BY <2>1, <1>s, <1>t DEF WalkInv, Slots
  <2> QED
    BY <2>1, <2>2 DEF WalkInv, FalseIsSound
<1>5. CASE Call \/ CallFails
  BY <1>5 DEF Call, CallFails, poolVars, WalkInv, FalseIsSound
<1>6. CASE UNCHANGED vars
  BY <1>6 DEF vars, poolVars, callVars, WalkInv, FalseIsSound
<1> QED
  BY <1>1, <1>2, <1>3, <1>4, <1>5, <1>6 DEF Next, VerifyStateRoot, Proceed

\* When verify_state_root answers false (sync.rs:304) the root was not one of
\* the pool's last ROOT_HISTORY_SIZE all through the call: a wallet whose scan
\* is current is never told that its root is unknown.
THEOREM RejectedRootWasNotRecent == Spec => []FalseIsSound
<1>1. Init => TypeOK /\ RingInv /\ WalkInv /\ FalseIsSound
  BY InitTypeOK, InitRingInv DEF Init, WalkInv, FalseIsSound
<1>2. TypeOK /\ RingInv /\ WalkInv /\ FalseIsSound /\ [Next]_vars
         => (TypeOK /\ RingInv /\ WalkInv /\ FalseIsSound)'
  BY NextTypeOK, NextRingInv, NextWalkInv
<1> QED
  BY <1>1, <1>2, PTL DEF Spec
=============================================================================
