----------------------------- MODULE RecoveredLemmas -----------------------------
(***************************************************************************)
(* Facts that the proofs of Recovery and of Wallet share: about the natural  *)
(* numbers (least and greatest elements, and induction in the form of a set  *)
(* that contains 0 and the successor of each of its members), and about what *)
(* Recovered.tla computes from logs of which nothing is known but that they *)
(* are sequences.                                                          *)
(***************************************************************************)
EXTENDS Recovered, TLAPS, WellFoundedInduction, FiniteSetTheorems

-----------------------------------------------------------------------------
(* Natural numbers.                                                        *)

LessThan == {p \in Nat \X Nat : p[1] < p[2]}

\* The order of the natural numbers has no infinite descent.
LEMMA LessThanWellFounded == IsWellFoundedOn(LessThan, Nat)
<1>1. IsWellFoundedOn(OpToRel(<, Nat), Nat)
  BY NatLessThanWellFounded, Zenon
<1>2. OpToRel(<, Nat) = LessThan
  BY Zenon DEF OpToRel, LessThan
<1> QED
  BY <1>1, <1>2, Zenon

\* A non-empty set of natural numbers has a least element.
LEMMA LeastElement ==
    ASSUME NEW S \in SUBSET Nat, S # {}
    PROVE  \E x \in S : \A y \in S : x <= y
<1>1. PICK x \in S : \A y \in S : ~ (<<y, x>> \in LessThan)
  BY LessThanWellFounded, WFMin, Zenon
<1>2. ASSUME NEW y \in S PROVE x <= y
  <2>1. ~ (<<y, x>> \in LessThan)
    BY <1>1
  <2>2. <<y, x>> \in Nat \X Nat
    OBVIOUS
  <2>3. ~ (y < x)
    BY <2>1, <2>2 DEF LessThan
  <2> QED
    BY <2>3
<1> QED
  BY <1>2

\* A non-empty set of natural numbers with an upper bound has a greatest
\* element: the least upper bound of the set.
LEMMA GreatestElement ==
    ASSUME NEW S \in SUBSET Nat, S # {},
           NEW b \in Nat, \A x \in S : x <= b
    PROVE  \E x \in S : \A y \in S : y <= x
<1> DEFINE U == {u \in Nat : \A x \in S : x <= u}
<1>1. U \in SUBSET Nat /\ b \in U
  OBVIOUS
<1>2. PICK u \in U : \A v \in U : u <= v
  BY <1>1, LeastElement
<1>3. CASE u \in S
  BY <1>3
<1>4. CASE u \notin S
  <2>1. \A x \in S : x <= u - 1
    BY <1>4
  <2>2. u - 1 \in Nat
    <3>1. PICK x \in S : TRUE
      OBVIOUS
    <3>2. x \in Nat /\ x <= u - 1 /\ u \in Nat
      BY <2>1
    <3> QED
      BY <3>2
  <2>3. u - 1 \in U
    BY <2>1, <2>2
  <2> QED
    BY <1>2, <2>3
<1> QED
  BY <1>3, <1>4

\* Induction over the natural numbers.
LEMMA SetInduction ==
    ASSUME NEW S \in SUBSET Nat, 0 \in S,
           \A n \in S : n + 1 \in S
    PROVE  S = Nat
<1> SUFFICES ASSUME NEW m \in Nat, m \notin S PROVE FALSE
  OBVIOUS
<1> DEFINE T == Nat \ S
<1>1. PICK x \in T : \A y \in T : x <= y
  BY LeastElement
<1>2. x # 0 /\ x - 1 \in Nat
  OBVIOUS
<1>3. x - 1 \notin T
  BY <1>1, <1>2
<1> QED
  BY <1>2, <1>3

\* f[k] is what is left of v after the first k amounts of g are taken.
Leaves(f, v, g, N) ==
    /\ f[0] = v
    /\ \A k \in 1..N : f[k] = f[k - 1] - g[k - 1]

\* There is such a function: a recursive definition of it defines one.
LEMMA LeavesExist ==
    ASSUME NEW v, NEW g, NEW N \in Nat
    PROVE  \E f : Leaves(f, v, g, N)
<1> DEFINE S == {n \in Nat : \E f : f = [k \in 0..n |-> IF k = 0 THEN v ELSE f[k - 1] - g[k - 1]]}
<1>1. 0 \in S
  <2> DEFINE f == [k \in 0..0 |-> v]
  <2>1. f = [k \in 0..0 |-> IF k = 0 THEN v ELSE f[k - 1] - g[k - 1]]
    OBVIOUS
  <2> HIDE DEF f
  <2> QED
    BY <2>1
<1>2. ASSUME NEW n \in S PROVE n + 1 \in S
  <2>1. PICK f : f = [k \in 0..n |-> IF k = 0 THEN v ELSE f[k - 1] - g[k - 1]]
    OBVIOUS
  <2> DEFINE h == [k \in 0..(n + 1) |-> IF k = n + 1 THEN f[n] - g[n] ELSE f[k]]
  <2>2. ASSUME NEW k \in 0..(n + 1)
        PROVE  h[k] = IF k = 0 THEN v ELSE h[k - 1] - g[k - 1]
    <3>1. CASE k = 0
      BY <2>1, <3>1
    <3>2. CASE k = n + 1
      <4>1. n \in 0..(n + 1) /\ n # n + 1 /\ k # 0 /\ k - 1 = n
        BY <3>2
      <4> QED
        BY <3>2, <4>1
    <3>3. CASE k # 0 /\ k # n + 1
      <4>1. k - 1 \in 0..(n + 1) /\ k - 1 # n + 1 /\ k \in 0..n
        BY <3>3
      <4>2. f[k] = f[k - 1] - g[k - 1]
        BY <2>1, <3>3, <4>1
      <4> QED
        BY <3>3, <4>1, <4>2
    <3> QED
      BY <3>1, <3>2, <3>3
  <2>3. h = [k \in 0..(n + 1) |-> h[k]]
    OBVIOUS
  <2> HIDE DEF h
  <2>4. h = [k \in 0..(n + 1) |-> IF k = 0 THEN v ELSE h[k - 1] - g[k - 1]]
    BY <2>2, <2>3
  <2> QED
    BY <2>4
<1> HIDE DEF S
<1>3. S = Nat
  <2>1. S \in SUBSET Nat
    BY DEF S
  <2> QED
    BY <1>1, <1>2, <2>1, SetInduction
<1>4. PICK f : f = [k \in 0..N |-> IF k = 0 THEN v ELSE f[k - 1] - g[k - 1]]
  BY <1>3 DEF S
<1>5. 0 \in 0..N /\ \A k \in 1..N : k \in 0..N /\ k # 0
  OBVIOUS
<1>6. f[0] = v /\ \A k \in 1..N : f[k] = f[k - 1] - g[k - 1]
  BY <1>4, <1>5
<1> QED
  BY <1>6 DEF Leaves

-----------------------------------------------------------------------------
(* Lookups in the logs.                                                    *)

IsLog(s) == Len(s) \in Nat /\ DOMAIN s = 1..Len(s)

\* Hashes are injective.
LEMMA NullifierInjective ==
    ASSUME NEW k1, NEW k2, nullifier_hash(k1) = nullifier_hash(k2)
    PROVE  k1 = k2
BY DEF nullifier_hash

\* The last position of a key in a log is a position of that key.
LEMMA LastOfMember ==
    ASSUME NEW n \in Nat, NEW S \in SUBSET (1..n), S # {}
    PROVE  LastOf(S) \in S
<1>1. S \in SUBSET Nat /\ \A x \in S : x <= n
  OBVIOUS
<1>2. \E x \in S : \A y \in S : y <= x
  BY <1>1, GreatestElement
<1> QED
  BY <1>2 DEF LastOf

LEMMA DepositForType ==
    ASSUME NEW l \in EventLogs, NEW pre, HasDeposit(l, pre)
    PROVE  /\ DepositFor(l, pre) \in DepositLogs
           /\ DepositFor(l, pre).precommitment = pre
<1>1. l.deposits \in Seq(DepositLogs)
  BY DEF EventLogs
<1>2. DOMAIN l.deposits = 1..Len(l.deposits) /\ Len(l.deposits) \in Nat
  BY <1>1
<1>3. DepositsFor(l, pre) \in SUBSET (1..Len(l.deposits)) /\ DepositsFor(l, pre) # {}
  BY <1>2 DEF DepositsFor, HasDeposit
<1>4. LastOf(DepositsFor(l, pre)) \in DepositsFor(l, pre)
  BY <1>2, <1>3, LastOfMember
<1>5. PICK i \in DOMAIN l.deposits :
           i = LastOf(DepositsFor(l, pre)) /\ l.deposits[i].precommitment = pre
  BY <1>4 DEF DepositsFor
<1>6. DepositFor(l, pre) = l.deposits[i]
  BY <1>5 DEF DepositFor
<1> QED
  BY <1>1, <1>2, <1>5, <1>6

LEMMA WithdrawalOfType ==
    ASSUME NEW l \in EventLogs, NEW spent, HasWithdrawal(l, spent)
    PROVE  /\ WithdrawalOf(l, spent) \in WithdrawLogs
           /\ WithdrawalOf(l, spent).spent_nullifier = spent
<1>1. l.withdrawals \in Seq(WithdrawLogs)
  BY DEF EventLogs
<1>2. DOMAIN l.withdrawals = 1..Len(l.withdrawals) /\ Len(l.withdrawals) \in Nat
  BY <1>1
<1>3. /\ WithdrawalsOf(l, spent) \in SUBSET (1..Len(l.withdrawals))
      /\ WithdrawalsOf(l, spent) # {}
  BY <1>2 DEF WithdrawalsOf, HasWithdrawal
<1>4. LastOf(WithdrawalsOf(l, spent)) \in WithdrawalsOf(l, spent)
  BY <1>2, <1>3, LastOfMember
<1>5. PICK i \in DOMAIN l.withdrawals :
           /\ i = LastOf(WithdrawalsOf(l, spent))
           /\ l.withdrawals[i].spent_nullifier = spent
  BY <1>4 DEF WithdrawalsOf
<1>6. WithdrawalOf(l, spent) = l.withdrawals[i]
  BY <1>5 DEF WithdrawalOf
<1> QED
  BY <1>1, <1>2, <1>5, <1>6

-----------------------------------------------------------------------------
(* The chain of a deposit.                                                 *)

\* The chain ends: from the second on its keys differ, each spent one is that
\* of another withdrawal, so not all of Len + 1 such keys can be spent.
LEMMA ChainEnds ==
    ASSUME NEW logs, IsLog(logs.withdrawals), NEW a, NEW i, NEW lab
    PROVE  \E n \in 0..(Len(logs.withdrawals) + 1) :
              /\ ~HasWithdrawal(logs, nullifier_hash(ChainKey(a, i, lab, n)))
              /\ \A k \in 0..(n - 1) :
                    HasWithdrawal(logs, nullifier_hash(ChainKey(a, i, lab, k)))
<1> DEFINE N == Len(logs.withdrawals)
           Spent(k) == HasWithdrawal(logs, nullifier_hash(ChainKey(a, i, lab, k)))
           U == {k \in 0..(N + 1) : ~Spent(k)}
<1>1. N \in Nat /\ DOMAIN logs.withdrawals = 1..N
  BY DEF IsLog
<1>2. U # {}
  <2> SUFFICES ASSUME \A k \in 0..(N + 1) : Spent(k) PROVE FALSE
    OBVIOUS
  <2> DEFINE At(k) == {m \in 1..N : logs.withdrawals[m].spent_nullifier
                                       = nullifier_hash(ChainKey(a, i, lab, k))}
             f == [k \in 1..(N + 1) |-> CHOOSE m \in 1..N : m \in At(k)]
  <2>1. \A k \in 1..(N + 1) : f[k] \in 1..N /\ f[k] \in At(k)
    <3> SUFFICES ASSUME NEW k \in 1..(N + 1) PROVE f[k] \in 1..N /\ f[k] \in At(k)
      OBVIOUS
    <3>1. k \in 0..(N + 1)
      BY <1>1
    <3>2. Spent(k)
      BY <3>1
    <3>3. At(k) # {}
      BY <1>1, <3>2 DEF HasWithdrawal, WithdrawalsOf
    <3> QED
      BY <3>3
  <2>2. f \in [1..(N + 1) -> 1..N]
    BY <2>1
  <2>3. /\ IsFiniteSet(1..(N + 1)) /\ Cardinality(1..(N + 1)) = N + 1
        /\ IsFiniteSet(1..N) /\ Cardinality(1..N) = N
    <3>1. 1 \in Int /\ N \in Int /\ N + 1 \in Int
      BY <1>1
    <3>2. /\ IsFiniteSet(1..(N + 1))
          /\ Cardinality(1..(N + 1)) = IF 1 > N + 1 THEN 0 ELSE (N + 1) - 1 + 1
          /\ IsFiniteSet(1..N) /\ Cardinality(1..N) = IF 1 > N THEN 0 ELSE N - 1 + 1
      BY <3>1, FS_Interval
    <3> QED
      BY <3>2, <1>1
  <2>4. Cardinality(1..N) < Cardinality(1..(N + 1))
    BY <2>3, <1>1
  <2> HIDE DEF f
  <2>5. PICK x \in 1..(N + 1), y \in 1..(N + 1) : x # y /\ f[x] = f[y]
    BY <2>2, <2>3, <2>4, FS_PigeonHole
  <2>6. nullifier_hash(ChainKey(a, i, lab, x)) = nullifier_hash(ChainKey(a, i, lab, y))
    BY <2>1, <2>5
  <2>7. x \in Nat /\ y \in Nat /\ x # 0 /\ y # 0
    BY <1>1
  <2>8. x - 1 = y - 1
    BY <2>6, <2>7, NullifierInjective DEF ChainKey, withdrawal_secrets
  <2> QED
    BY <2>5, <2>7, <2>8
<1>3. PICK c \in U : \A k \in U : c <= k
  <2>1. U \in SUBSET Nat
    BY <1>1
  <2> HIDE DEF U
  <2> QED
    BY <1>2, <2>1, LeastElement
<1>4. c \in 0..(N + 1) /\ ~Spent(c) /\ \A k \in 0..(c - 1) : Spent(k)
  <2>1. \A k \in 0..(c - 1) : k \in 0..(N + 1) /\ ~(c <= k)
    BY <1>1
  <2> QED
    BY <1>3, <2>1
<1> QED
  BY <1>4

\* ChainLength is where it ends.
LEMMA ChainLengthIs ==
    ASSUME NEW logs, IsLog(logs.withdrawals), NEW a, NEW i, NEW lab
    PROVE  /\ ChainLength(logs, a, i, lab) \in 0..(Len(logs.withdrawals) + 1)
           /\ ChainLength(logs, a, i, lab) \in Nat
           /\ ~HasWithdrawal(logs, nullifier_hash(ChainKey(a, i, lab, ChainLength(logs, a, i, lab))))
           /\ \A k \in 0..(ChainLength(logs, a, i, lab) - 1) :
                 HasWithdrawal(logs, nullifier_hash(ChainKey(a, i, lab, k)))
<1> DEFINE N == Len(logs.withdrawals)
           Spent(k) == HasWithdrawal(logs, nullifier_hash(ChainKey(a, i, lab, k)))
           c == ChainLength(logs, a, i, lab)
<1>1. N \in Nat
  BY DEF IsLog
<1>2. \E n \in 0..(N + 1) : ~Spent(n) /\ \A k \in 0..(n - 1) : Spent(k)
  BY ChainEnds
<1>3. c = CHOOSE n \in 0..(N + 1) : ~Spent(n) /\ \A k \in 0..(n - 1) : Spent(k)
  BY DEF ChainLength
<1> HIDE DEF c, N, Spent
<1>4. c \in 0..(N + 1) /\ ~Spent(c) /\ \A k \in 0..(c - 1) : Spent(k)
  BY <1>2, <1>3
<1>5. c \in Nat
  BY <1>1, <1>4
<1> QED
  BY <1>4, <1>5 DEF c, N, Spent

\* A chain of spent keys is no longer than that, and is that long if the next
\* key is not spent.
LEMMA ChainLengthFrom ==
    ASSUME NEW logs, IsLog(logs.withdrawals), NEW a, NEW i, NEW lab, NEW n \in Nat,
           \A k \in 0..(n - 1) : HasWithdrawal(logs, nullifier_hash(ChainKey(a, i, lab, k)))
    PROVE  /\ n <= ChainLength(logs, a, i, lab)
           /\ ~HasWithdrawal(logs, nullifier_hash(ChainKey(a, i, lab, n)))
                 => ChainLength(logs, a, i, lab) = n
           /\ HasWithdrawal(logs, nullifier_hash(ChainKey(a, i, lab, n)))
                 => n < ChainLength(logs, a, i, lab)
<1> DEFINE Spent(k) == HasWithdrawal(logs, nullifier_hash(ChainKey(a, i, lab, k)))
           c == ChainLength(logs, a, i, lab)
<1>1. c \in Nat /\ ~Spent(c) /\ \A k \in 0..(c - 1) : Spent(k)
  BY ChainLengthIs
<1>2. \A k \in 0..(n - 1) : Spent(k)
  OBVIOUS
<1> HIDE DEF Spent, c
<1>3. n <= c
  <2>1. c \notin 0..(n - 1)
    BY <1>1, <1>2
  <2> QED
    BY <1>1, <2>1
<1>4. ~Spent(n) => c = n
  <2>1. ~Spent(n) => n \notin 0..(c - 1)
    BY <1>1
  <2> QED
    BY <1>1, <1>3, <2>1
<1>5. Spent(n) => n < c
  <2>1. Spent(n) => n # c
    BY <1>1
  <2> QED
    BY <1>1, <1>3, <2>1
<1> QED
  BY <1>3, <1>4, <1>5 DEF Spent, c

\* What the walk along a chain has left, as its recursive definition says.
LEMMA ValueRecursion ==
    ASSUME NEW logs, IsLog(logs.withdrawals), NEW a, NEW i, NEW dep
    PROVE  /\ ValueAfter(logs, a, i, dep)[0] = dep.value
           /\ \A k \in 1..(Len(logs.withdrawals) + 1) :
                ValueAfter(logs, a, i, dep)[k]
                    = ValueAfter(logs, a, i, dep)[k - 1]
                        - SpendOf(logs, a, i, dep.label, k - 1).value
<1> DEFINE N == Len(logs.withdrawals) + 1
           taken(k) == SpendOf(logs, a, i, dep.label, k).value
           g == [k \in 0..N |-> taken(k)]
           IsLeft(f) == f = [k \in 0..N |-> IF k = 0 THEN dep.value ELSE f[k - 1] - taken(k - 1)]
<1>1. N \in Nat
  BY DEF IsLog
<1>2. PICK f : Leaves(f, dep.value, g, N)
  <2> HIDE DEF N, g
  <2> QED
    BY <1>1, LeavesExist
<1> DEFINE h == [k \in 0..N |-> f[k]]
<1>3. IsLeft(h)
  <2> HIDE DEF taken
  <2>1. ASSUME NEW k \in 0..N
        PROVE  f[k] = IF k = 0 THEN dep.value ELSE f[k - 1] - taken(k - 1)
    <3>1. CASE k = 0
      BY <1>2, <3>1 DEF Leaves
    <3>2. CASE k # 0
      <4>1. k \in 1..N /\ k - 1 \in 0..N
        BY <1>1, <3>2
      <4>2. g[k - 1] = taken(k - 1)
        BY <4>1
      <4> HIDE DEF g, N
      <4>3. f[k] = f[k - 1] - g[k - 1]
        BY <1>2, <4>1 DEF Leaves
      <4> QED
        BY <3>2, <4>2, <4>3
    <3> QED
      BY <3>1, <3>2
  <2>2. \A k \in 0..N : h[k] = f[k] /\ (k # 0 => h[k - 1] = f[k - 1])
    <3>1. \A k \in 0..N : k # 0 => k - 1 \in 0..N
      BY <1>1
    <3> HIDE DEF g, N
    <3> QED
      BY <3>1
  <2>3. h = [k \in 0..N |-> h[k]]
    OBVIOUS
  <2> HIDE DEF g, N, h
  <2> QED
    BY <2>1, <2>2, <2>3
<1> DEFINE V == ValueAfter(logs, a, i, dep)
<1>4. V = CHOOSE left : IsLeft(left)
  BY DEF ValueAfter
<1>5. IsLeft(V)
  BY <1>3, <1>4
<1> HIDE DEF V, taken
<1>6. V[0] = dep.value /\ \A k \in 1..N : V[k] = V[k - 1] - taken(k - 1)
  <2>1. 0 \in 0..N /\ \A k \in 1..N : k \in 0..N /\ k # 0
    BY <1>1
  <2> HIDE DEF N
  <2> QED
    BY <1>5, <2>1
<1> QED
  BY <1>6 DEF V, taken

-----------------------------------------------------------------------------
(* How far a gap limit reaches.                                            *)

LEMMA Windows ==
    ASSUME NEW g \in Nat, NEW x \in Nat, NEW y \in Nat, x < y
    PROVE  x * g + g <= y * g
<1> DEFINE d == y - (x + 1)
<1>1. d \in Nat /\ y = (x + 1) + d
  OBVIOUS
<1> HIDE DEF d
<1>2. y * g = (x * g + g) + d * g
  BY <1>1
<1>3. d * g \in Nat /\ x * g \in Nat
  BY <1>1
<1> QED
  BY <1>2, <1>3

\* With N deposits no index from (N + 1) windows on is reached: the windows
\* below it are disjoint and each would hold a deposit of its own.
LEMMA ReachedBound ==
    ASSUME NEW logs, IsLog(logs.deposits), NEW a, NEW g \in Nat, NEW i \in Nat,
           Reached(logs, a, g, i)
    PROVE  i <= (Len(logs.deposits) + 1) * g - 1
<1> DEFINE N == Len(logs.deposits)
           Window(k) == (k * g)..(k * g + g - 1)
           In(k) == {m \in 1..N : \E j \in Window(k) :
                        logs.deposits[m].precommitment = deposit_precommitment(a, j)}
           f == [k \in 0..N |-> CHOOSE m \in 1..N : m \in In(k)]
<1>0. g # 0
  BY DEF Reached
<1>1. N \in Nat /\ DOMAIN logs.deposits = 1..N /\ g \in Nat \ {0}
  BY <1>0 DEF IsLog
<1> SUFFICES ASSUME i > (N + 1) * g - 1 PROVE FALSE
  <2>1. (N + 1) * g \in Nat
    BY <1>1
  <2> QED
    BY <2>1
<1>2. \A k \in 0..N : k * g \in Nat /\ k * g \in 0..(i - g)
  <2> SUFFICES ASSUME NEW k \in 0..N PROVE k * g \in Nat /\ k * g \in 0..(i - g)
    OBVIOUS
  <2>1. k \in Nat /\ N + 1 \in Nat /\ k < N + 1
    BY <1>1
  <2>2. k * g + g <= (N + 1) * g
    BY <1>1, <2>1, Windows
  <2>3. k * g \in Nat /\ (N + 1) * g \in Nat
    BY <1>1, <2>1
  <2> DEFINE kg == k * g
             ng == (N + 1) * g
  <2> HIDE DEF kg, ng
  <2>4. kg \in 0..(i - g)
    <3>1. i > ng - 1 /\ kg + g <= ng /\ kg \in Nat /\ ng \in Nat
      BY <2>2, <2>3 DEF kg, ng
    <3> QED
      BY <3>1, <1>1
  <2> QED
    BY <2>3, <2>4 DEF kg
<1>3. \A k \in 0..N : In(k) # {}
  <2> SUFFICES ASSUME NEW k \in 0..N PROVE In(k) # {}
    OBVIOUS
  <2>1. \E j \in Window(k) : HasDeposit(logs, deposit_precommitment(a, j))
    BY <1>2 DEF Reached
  <2> QED
    BY <2>1, <1>1 DEF HasDeposit, DepositsFor
<1>4. \A k \in 0..N : f[k] \in 1..N /\ f[k] \in In(k)
  BY <1>3
<1>5. f \in [0..N -> 1..N]
  BY <1>4
<1>6. /\ IsFiniteSet(0..N) /\ Cardinality(0..N) = N + 1
      /\ IsFiniteSet(1..N) /\ Cardinality(1..N) = N
  <2>1. 0 \in Int /\ 1 \in Int /\ N \in Int
    BY <1>1
  <2>2. /\ IsFiniteSet(0..N) /\ Cardinality(0..N) = IF 0 > N THEN 0 ELSE N - 0 + 1
        /\ IsFiniteSet(1..N) /\ Cardinality(1..N) = IF 1 > N THEN 0 ELSE N - 1 + 1
    BY <2>1, FS_Interval
  <2> QED
    BY <2>2, <1>1
<1>7. Cardinality(1..N) < Cardinality(0..N)
  BY <1>6, <1>1
<1> HIDE DEF f
<1>8. PICK x \in 0..N, y \in 0..N : x # y /\ f[x] = f[y]
  BY <1>5, <1>6, <1>7, FS_PigeonHole
<1>9. PICK j \in Window(x) :
          logs.deposits[f[x]].precommitment = deposit_precommitment(a, j)
  BY <1>4
<1>10. PICK h \in Window(y) :
          logs.deposits[f[y]].precommitment = deposit_precommitment(a, h)
  BY <1>4
<1>11. j = h
  BY <1>8, <1>9, <1>10 DEF deposit_precommitment, deposit_secrets, precommitment
<1> DEFINE xg == x * g
           yg == y * g
<1>12. /\ x \in Nat /\ y \in Nat /\ xg \in Nat /\ yg \in Nat
       /\ xg + g <= yg \/ yg + g <= xg
  <2>1. x \in Nat /\ y \in Nat
    BY <1>1
  <2>2. x < y \/ y < x
    BY <1>8, <2>1
  <2>3. x < y => xg + g <= yg
    BY <1>1, <2>1, Windows
  <2>4. y < x => yg + g <= xg
    BY <1>1, <2>1, Windows
  <2> QED
    BY <1>2, <2>1, <2>2, <2>3, <2>4
<1>13. j \in xg..(xg + g - 1) /\ j \in yg..(yg + g - 1)
  BY <1>9, <1>10, <1>11
<1> HIDE DEF xg, yg, Window, In, N
<1>14. CASE xg + g <= yg
  BY <1>1, <1>12, <1>13, <1>14
<1>15. CASE yg + g <= xg
  BY <1>1, <1>12, <1>13, <1>15
<1> QED
  BY <1>12, <1>14, <1>15

\* So the indices recovered are all that are reached and deposited at.
LEMMA RecoveredIndicesAre ==
    ASSUME NEW logs, IsLog(logs.deposits), NEW a, NEW g \in Nat
    PROVE  RecoveredIndices(logs, a, g)
             = {i \in Nat : HasDeposit(logs, deposit_precommitment(a, i)) /\ Reached(logs, a, g, i)}
<1> DEFINE top == (Len(logs.deposits) + 1) * g - 1
<1>1. top \in Int
  BY DEF IsLog
<1>2. \A i \in Nat : Reached(logs, a, g, i) => i <= top
  BY ReachedBound
<1>3. RecoveredIndices(logs, a, g)
        = {i \in 0..top : HasDeposit(logs, deposit_precommitment(a, i)) /\ Reached(logs, a, g, i)}
  BY DEF RecoveredIndices
<1> HIDE DEF top
<1>4. \A i : i \in 0..top <=> i \in Nat /\ i <= top
  BY <1>1
<1> QED
  BY <1>2, <1>3, <1>4
=================================================================================
