----------------------------- MODULE WalletProofs -----------------------------
(***************************************************************************)
(* Wallet's invariants, for any number of devices and accounts, any gap    *)
(* limit, amounts and history size.  First what holds of any logs in which *)
(* HistoryOK holds, then the steps that keep it, then the theorems.        *)
(***************************************************************************)
EXTENDS WalletLedger, RecoveredLemmas, FiniteSetTheorems, SequenceTheorems

-----------------------------------------------------------------------------
(* Types and hashes.                                                       *)

LEMMA LogTypes ==
    ASSUME NEW logs \in PoolLogs
    PROVE  /\ logs.leaves \in Seq(CommitmentHashes)
           /\ logs.deposits \in Seq(DepositLogs)
           /\ logs.withdrawals \in Seq(WithdrawLogs)
           /\ logs.ragequits \in Seq(RagequitLogs)
           /\ \A leaf \in LeavesOf(logs) : leaf \in CommitmentHashes
           /\ \A n \in DOMAIN logs.deposits : n \in Nat \ {0} /\ logs.deposits[n] \in DepositLogs
           /\ \A m \in DOMAIN logs.withdrawals : logs.withdrawals[m] \in WithdrawLogs
           /\ \A r \in DOMAIN logs.ragequits : logs.ragequits[r] \in RagequitLogs
BY DEF PoolLogs, LeavesOf

LEMMA LeafType ==
    ASSUME NEW leaf \in CommitmentHashes
    PROVE  /\ leaf.value \in Nat /\ leaf.label \in Nat
           /\ KeyOf(leaf) \in Keys
           /\ leaf.precommitment = precommitment(KeyOf(leaf))
BY DEF CommitmentHashes, Precommitments, KeyOf, precommitment

LEMMA DepositType ==
    ASSUME NEW logs \in PoolLogs, NEW n \in DOMAIN logs.deposits
    PROVE  /\ DepositKey(logs, n) \in Keys
           /\ logs.deposits[n].precommitment = precommitment(DepositKey(logs, n))
           /\ logs.deposits[n].value \in Nat
           /\ logs.deposits[n].label \in Nat
           /\ logs.deposits[n].commitment \in CommitmentHashes
BY LogTypes DEF DepositLogs, Precommitments, DepositKey, precommitment

\* Hashes are injective.
LEMMA PrecommitmentInjective ==
    ASSUME NEW k1, NEW k2, precommitment(k1) = precommitment(k2)
    PROVE  k1 = k2
BY DEF precommitment

LEMMA HashType ==
    /\ \A key \in Keys : nullifier_hash(key) \in NullifierHashes
    /\ \A key \in Keys : precommitment(key) \in Precommitments
    /\ \A note \in Commitments : commitment_hash(note) \in CommitmentHashes
BY DEF nullifier_hash, NullifierHashes, precommitment, Precommitments, commitment_hash,
       CommitmentHashes, Commitments

LEMMA CommitmentKey == ASSUME NEW note PROVE KeyOf(commitment_hash(note)) = note.key
BY DEF KeyOf, commitment_hash, precommitment

\* A note's fields are those of its leaf.
LEMMA CommitmentInjective ==
    ASSUME NEW note, NEW leaf, commitment_hash(note) = leaf
    PROVE  note.value = leaf.value /\ note.label = leaf.label /\ note.key = KeyOf(leaf)
BY DEF KeyOf, commitment_hash, precommitment

\* Amounts below the field's order are field elements as they are.
LEMMA FieldIdentity == \A x \in Nat : x < FieldOrder => u256_to_field(x) = x
BY FieldOrderAssumption DEF u256_to_field

LEMMA AmountType == DepositAmounts \subseteq Nat /\ WithdrawAmounts \subseteq Nat
BY AmountsAssumption

-----------------------------------------------------------------------------
(* Lookups in the logs.                                                    *)

LEMMA DepositLookup ==
    ASSUME NEW logs \in PoolLogs, HistoryOK(logs), NEW n \in DOMAIN logs.deposits
    PROVE  /\ HasDeposit(logs, logs.deposits[n].precommitment)
           /\ DepositFor(logs, logs.deposits[n].precommitment) = logs.deposits[n]
<1> DEFINE pre == logs.deposits[n].precommitment
<1>1. ASSUME NEW m \in DOMAIN logs.deposits, logs.deposits[m].precommitment = pre
      PROVE  m = n
  BY <1>1 DEF HistoryOK, DepositsOK, DepositKey
<1>2. DepositsFor(logs, pre) = {n}
  BY <1>1 DEF DepositsFor
<1>3. LastOf({n}) = n
  BY LogTypes DEF LastOf
<1> QED
  BY <1>2, <1>3 DEF HasDeposit, DepositFor

\* The deposit at a deposit index of an account.
LEMMA DepositAt ==
    ASSUME NEW logs \in PoolLogs, HistoryOK(logs), NEW a, NEW i,
           HasDeposit(logs, deposit_precommitment(a, i))
    PROVE  \E n \in DOMAIN logs.deposits :
              /\ DepositFor(logs, deposit_precommitment(a, i)) = logs.deposits[n]
              /\ DepositKey(logs, n) = deposit_secrets(a, i)
<1>1. PICK n \in DOMAIN logs.deposits :
          logs.deposits[n].precommitment = deposit_precommitment(a, i)
  BY DEF HasDeposit, DepositsFor
<1>2. DepositFor(logs, deposit_precommitment(a, i)) = logs.deposits[n]
  BY <1>1, DepositLookup
<1>3. DepositKey(logs, n) = deposit_secrets(a, i)
  BY <1>1 DEF DepositKey, deposit_precommitment, precommitment
<1> QED
  BY <1>2, <1>3

LEMMA WithdrawalLookup ==
    ASSUME NEW logs \in PoolLogs, HistoryOK(logs), NEW m \in DOMAIN logs.withdrawals
    PROVE  /\ HasWithdrawal(logs, logs.withdrawals[m].spent_nullifier)
           /\ WithdrawalOf(logs, logs.withdrawals[m].spent_nullifier) = logs.withdrawals[m]
<1> DEFINE spent == logs.withdrawals[m].spent_nullifier
<1>1. WithdrawalsOf(logs, spent) = {m}
  BY DEF WithdrawalsOf, HistoryOK, WithdrawalsOK
<1>2. m \in Nat
  BY LogTypes
<1>3. LastOf({m}) = m
  BY <1>2 DEF LastOf
<1> QED
  BY <1>1, <1>3 DEF HasWithdrawal, WithdrawalOf

LEMMA WithdrawalAt ==
    ASSUME NEW logs \in PoolLogs, HistoryOK(logs), NEW spent, HasWithdrawal(logs, spent)
    PROVE  \E m \in DOMAIN logs.withdrawals :
              /\ logs.withdrawals[m].spent_nullifier = spent
              /\ WithdrawalOf(logs, spent) = logs.withdrawals[m]
<1>1. PICK m \in DOMAIN logs.withdrawals : logs.withdrawals[m].spent_nullifier = spent
  BY DEF HasWithdrawal, WithdrawalsOf
<1> QED
  BY <1>1, WithdrawalLookup

\* A leaf is the only one with its key.
LEMMA LeafOfKey ==
    ASSUME NEW logs, HistoryOK(logs),
           NEW x \in LeavesOf(logs), NEW y \in LeavesOf(logs), KeyOf(x) = KeyOf(y)
    PROVE  x = y
BY DEF HistoryOK, LeavesOK, LeavesOf

-----------------------------------------------------------------------------
(* The chain of notes of a deposit: deposit n of the logs, its owner, and   *)
(* the k-th key and note of its chain as recovery derives them.             *)

Owner(logs, n) == DepositKey(logs, n).account
Index(logs, n) == DepositKey(logs, n).index
KeyAt(logs, n, k) == ChainKey(Owner(logs, n), Index(logs, n), n, k)
Length(logs, n) == ChainLength(logs, Owner(logs, n), Index(logs, n), n)
ValueAt(logs, n) == ValueAfter(logs, Owner(logs, n), Index(logs, n), logs.deposits[n])
NoteAt(logs, n, k) ==
    ChainNote(logs, Owner(logs, n), Index(logs, n), logs.deposits[n], k)
Spent(logs, n, k) == HasWithdrawal(logs, nullifier_hash(KeyAt(logs, n, k)))

LEMMA DepositOK ==
    ASSUME NEW logs \in PoolLogs, HistoryOK(logs), NEW n \in DOMAIN logs.deposits
    PROVE  /\ Owner(logs, n) \in Accounts /\ Index(logs, n) \in Nat
           /\ DepositKey(logs, n) = deposit_secrets(Owner(logs, n), Index(logs, n))
           /\ DepositKey(logs, n).base = 0
           /\ logs.deposits[n].label = n
           /\ logs.deposits[n].value \in Nat /\ logs.deposits[n].value < FieldOrder
           /\ logs.deposits[n].commitment \in LeavesOf(logs)
           /\ logs.deposits[n].commitment = [value |-> logs.deposits[n].value, label |-> n,
                                             precommitment |-> logs.deposits[n].precommitment]
<1>1. DepositKey(logs, n) \in Keys /\ DepositKey(logs, n).base = Scope
  BY DepositType DEF HistoryOK, DepositsOK
<1>2. DepositKey(logs, n) = deposit_secrets(Owner(logs, n), Index(logs, n))
  BY <1>1 DEF Keys, deposit_secrets, Owner, Index
<1>3. /\ logs.deposits[n].value \in DepositAmounts
      /\ logs.deposits[n].label = n
      /\ logs.deposits[n].commitment \in LeavesOf(logs)
      /\ logs.deposits[n].commitment = [value |-> logs.deposits[n].value, label |-> n,
                                        precommitment |-> logs.deposits[n].precommitment]
  BY DEF HistoryOK, DepositsOK
<1>4. logs.deposits[n].value \in Nat /\ logs.deposits[n].value < FieldOrder
  BY <1>3, AmountsAssumption
<1> QED
  BY <1>1, <1>2, <1>3, <1>4 DEF Keys, Owner, Index, Scope

LEMMA DepositLeaf ==
    ASSUME NEW logs \in PoolLogs, HistoryOK(logs), NEW n \in DOMAIN logs.deposits
    PROVE  /\ logs.deposits[n].commitment.label = n
           /\ logs.deposits[n].commitment.value = logs.deposits[n].value
           /\ KeyOf(logs.deposits[n].commitment) = DepositKey(logs, n)
<1>1. logs.deposits[n].commitment = [value |-> logs.deposits[n].value, label |-> n,
                                     precommitment |-> logs.deposits[n].precommitment]
  BY DepositOK
<1> QED
  BY <1>1 DEF KeyOf, DepositKey

\* The keys of a chain: the deposit's, then one per index under its label.
LEMMA ChainKeys ==
    ASSUME NEW logs \in PoolLogs, HistoryOK(logs), NEW n \in DOMAIN logs.deposits
    PROVE  /\ KeyAt(logs, n, 0) = DepositKey(logs, n)
           /\ \A k \in Nat : KeyAt(logs, n, k + 1)
                               = [account |-> Owner(logs, n), base |-> n, index |-> k]
           /\ \A k \in Nat \ {0} : KeyAt(logs, n, k)
                               = [account |-> Owner(logs, n), base |-> n, index |-> k - 1]
           /\ \A k \in Nat : KeyAt(logs, n, k) \in Keys
           /\ \A j, k \in Nat : KeyAt(logs, n, j) = KeyAt(logs, n, k) => j = k
<1>1. KeyAt(logs, n, 0) = DepositKey(logs, n) /\ DepositKey(logs, n).base = 0
  <2>1. /\ DepositKey(logs, n) = deposit_secrets(Owner(logs, n), Index(logs, n))
        /\ deposit_secrets(Owner(logs, n), Index(logs, n)).base = 0
    BY DepositOK DEF deposit_secrets, Scope
  <2>2. KeyAt(logs, n, 0) = deposit_secrets(Owner(logs, n), Index(logs, n))
    BY DEF KeyAt, ChainKey
  <2> QED
    BY <2>1, <2>2
<1>2. ASSUME NEW k \in Nat
      PROVE  KeyAt(logs, n, k + 1) = [account |-> Owner(logs, n), base |-> n, index |-> k]
  BY DEF KeyAt, ChainKey, withdrawal_secrets
<1>3. n \in Nat \ {0} /\ DepositKey(logs, n) \in Keys /\ Owner(logs, n) \in Accounts
  BY LogTypes, DepositType, DepositOK
<1>4. ASSUME NEW k \in Nat, k # 0
      PROVE  KeyAt(logs, n, k) = [account |-> Owner(logs, n), base |-> n, index |-> k - 1]
  <2>1. k - 1 \in Nat /\ (k - 1) + 1 = k
    BY <1>4
  <2> QED
    BY <1>2, <2>1
<1>5. \A k \in Nat : KeyAt(logs, n, k) \in Keys
  BY <1>1, <1>3, <1>4 DEF Keys
<1>6. ASSUME NEW j \in Nat, NEW k \in Nat, KeyAt(logs, n, j) = KeyAt(logs, n, k)
      PROVE  j = k
  <2>1. CASE j = 0 \/ k = 0
    BY <2>1, <1>1, <1>3, <1>4, <1>6
  <2>2. CASE j # 0 /\ k # 0
    <3>1. j - 1 = k - 1
      BY <2>2, <1>4, <1>6
    <3> QED
      BY <3>1
  <2> QED
    BY <2>1, <2>2
<1> QED
  BY <1>1, <1>2, <1>4, <1>5, <1>6

LEMMA LengthIsFirstUnspent ==
    ASSUME NEW logs \in PoolLogs, HistoryOK(logs), NEW n \in DOMAIN logs.deposits
    PROVE  /\ Length(logs, n) \in 0..(Len(logs.withdrawals) + 1)
           /\ Length(logs, n) \in Nat
           /\ ~Spent(logs, n, Length(logs, n))
           /\ \A k \in 0..(Length(logs, n) - 1) : Spent(logs, n, k)
BY LogTypes, ChainLengthIs DEF IsLog, Length, Spent, KeyAt

\* What the walk along a chain has left.
LEMMA ValuesLeft ==
    ASSUME NEW logs \in PoolLogs, HistoryOK(logs), NEW n \in DOMAIN logs.deposits
    PROVE  /\ ValueAt(logs, n)[0] = logs.deposits[n].value
           /\ \A k \in 1..(Len(logs.withdrawals) + 1) :
                ValueAt(logs, n)[k] = ValueAt(logs, n)[k - 1]
                    - WithdrawalOf(logs, nullifier_hash(KeyAt(logs, n, k - 1))).value
<1>1. logs.deposits[n].label = n
  BY DepositOK
<1> QED
  BY <1>1, LogTypes, ValueRecursion DEF IsLog, ValueAt, SpendOf, KeyAt

\* A withdrawal that spends the k-th key of a chain makes the note of the next
\* key, under the same label, out of the leaf of the k-th key.
LEMMA ChainStep ==
    ASSUME NEW logs \in PoolLogs, HistoryOK(logs), NEW n \in DOMAIN logs.deposits,
           NEW k \in Nat, NEW m \in DOMAIN logs.withdrawals,
           logs.withdrawals[m].spent_nullifier = nullifier_hash(KeyAt(logs, n, k))
    PROVE  LET w == logs.withdrawals[m]  new == w.new_commitment
           IN  /\ new \in LeavesOf(logs) /\ new.label = n
               /\ KeyOf(new) = KeyAt(logs, n, k + 1)
               /\ \E old \in LeavesOf(logs) :
                     /\ KeyOf(old) = KeyAt(logs, n, k)
                     /\ old.label = n
                     /\ old.value = new.value + w.value
<1> DEFINE w == logs.withdrawals[m]
           new == w.new_commitment
<1>1. /\ new \in LeavesOf(logs) /\ new.label \in DOMAIN logs.deposits
      /\ KeyOf(new).base = new.label
      /\ KeyOf(new).account = Owner(logs, new.label)
  BY DEF HistoryOK, WithdrawalsOK, WithdrawalOK, Owner
<1>2. PICK old \in LeavesOf(logs) :
          /\ w.spent_nullifier = nullifier_hash(KeyOf(old))
          /\ KeyOf(old) = Previous(logs, KeyOf(new))
          /\ old.label = new.label
          /\ old.value = new.value + w.value
  BY DEF HistoryOK, WithdrawalsOK, WithdrawalOK
<1> HIDE DEF w, new
<1>3. KeyOf(old) = KeyAt(logs, n, k)
  BY <1>2, NullifierInjective DEF w
<1>4. /\ KeyOf(new) \in Keys /\ new.label \in Nat \ {0} /\ n \in Nat \ {0}
  BY <1>1, LogTypes, LeafType
<1>k. /\ KeyAt(logs, n, 0) = DepositKey(logs, n)
      /\ k # 0 => KeyAt(logs, n, k) = [account |-> Owner(logs, n), base |-> n, index |-> k - 1]
      /\ KeyAt(logs, n, k + 1) = [account |-> Owner(logs, n), base |-> n, index |-> k]
  BY ChainKeys
<1>d. DepositKey(logs, n).base = 0 /\ DepositKey(logs, new.label).base = 0
  BY <1>1, DepositOK
<1>5. new.label = n /\ KeyOf(new) = KeyAt(logs, n, k + 1)
  <2>1. CASE KeyOf(new).index = 0
    <3>1. KeyAt(logs, n, k) = DepositKey(logs, new.label)
      BY <2>1, <1>1, <1>2, <1>3 DEF Previous
    <3>2. KeyAt(logs, n, k).base = 0
      BY <3>1, <1>d
    <3>3. k = 0
      BY <3>2, <1>k, <1>4
    <3>4. DepositKey(logs, n) = DepositKey(logs, new.label)
      BY <3>1, <3>3, <1>k
    <3>5. new.label = n
      BY <3>4, <1>1 DEF HistoryOK, DepositsOK
    <3>6. KeyOf(new) = [account |-> Owner(logs, n), base |-> n, index |-> 0]
      BY <2>1, <3>5, <1>1, <1>4 DEF Keys
    <3> QED
      BY <3>3, <3>5, <3>6, <1>k
  <2>2. CASE KeyOf(new).index # 0
    <3>1. KeyAt(logs, n, k) = [KeyOf(new) EXCEPT !.index = @ - 1]
      BY <2>2, <1>2, <1>3 DEF Previous
    <3>2. /\ KeyAt(logs, n, k).base = new.label
          /\ KeyAt(logs, n, k).index = KeyOf(new).index - 1
      BY <3>1, <1>1, <1>4 DEF Keys
    <3>3. k # 0
      BY <3>2, <1>k, <1>d, <1>4
    <3>5. KeyAt(logs, n, k) = [account |-> Owner(logs, n), base |-> n, index |-> k - 1]
      BY <3>3, <1>k
    <3>6. new.label = n /\ KeyOf(new).index = k
      BY <3>2, <3>5, <1>4 DEF Keys
    <3>7. KeyOf(new) = [account |-> Owner(logs, n), base |-> n, index |-> k]
      BY <3>6, <1>1, <1>4 DEF Keys
    <3> QED
      BY <3>6, <3>7, <1>k
  <2> QED
    BY <2>1, <2>2
<1>6. /\ KeyOf(old) = KeyAt(logs, n, k)
      /\ old.label = n
      /\ old.value = new.value + w.value
  BY <1>2, <1>3, <1>5
<1> QED
  BY <1>1, <1>5, <1>6 DEF w, new

\* The k-th note of a chain is what recovery says it is.
GoodNote(logs, n, k) ==
    /\ ValueAt(logs, n)[k] \in Nat /\ ValueAt(logs, n)[k] < FieldOrder
    /\ NoteAt(logs, n, k) = Note(ValueAt(logs, n)[k], n, KeyAt(logs, n, k))
    /\ commitment_hash(NoteAt(logs, n, k)) \in LeavesOf(logs)
    /\ k # 0 => commitment_hash(NoteAt(logs, n, k))
                  = WithdrawalOf(logs, nullifier_hash(KeyAt(logs, n, k - 1))).new_commitment

\* Every note of a chain is a leaf, and from the second on the one that the
\* withdrawal of the key before it announced.
LEMMA ChainNotes ==
    ASSUME NEW logs \in PoolLogs, HistoryOK(logs), NEW n \in DOMAIN logs.deposits
    PROVE  \A k \in 0..Length(logs, n) : GoodNote(logs, n, k)
<1> DEFINE c == Length(logs, n)
           V == ValueAt(logs, n)
           S == {k \in Nat : k <= c => GoodNote(logs, n, k)}
<1>1. /\ Len(logs.withdrawals) \in Nat /\ c \in 0..(Len(logs.withdrawals) + 1)
      /\ \A k \in 0..(c - 1) : Spent(logs, n, k)
  BY LogTypes, LengthIsFirstUnspent
<1>2. /\ logs.deposits[n].label = n
      /\ logs.deposits[n].value \in Nat /\ logs.deposits[n].value < FieldOrder
      /\ logs.deposits[n].commitment \in LeavesOf(logs)
      /\ logs.deposits[n].commitment = [value |-> logs.deposits[n].value, label |-> n,
                                        precommitment |-> logs.deposits[n].precommitment]
  BY DepositOK
<1>3. ASSUME NEW k \in Nat, V[k] \in Nat, V[k] < FieldOrder
      PROVE  NoteAt(logs, n, k) = Note(V[k], n, KeyAt(logs, n, k))
  BY <1>2, <1>3, FieldIdentity DEF NoteAt, ChainNote, ValueAt, KeyAt
<1>4. 0 \in S
  <2>1. V[0] = logs.deposits[n].value
    BY ValuesLeft
  <2>2. NoteAt(logs, n, 0) = Note(V[0], n, DepositKey(logs, n))
    BY <1>2, <1>3, <2>1, ChainKeys
  <2>3. commitment_hash(NoteAt(logs, n, 0)) = logs.deposits[n].commitment
    BY <1>2, <2>1, <2>2, DepositType DEF commitment_hash, Note
  <2>4. GoodNote(logs, n, 0)
    BY <1>2, <1>3, <2>1, <2>3 DEF GoodNote
  <2> QED
    BY <2>4
<1>5. ASSUME NEW k \in S PROVE k + 1 \in S
  <2> SUFFICES ASSUME k + 1 <= c PROVE GoodNote(logs, n, k + 1)
    OBVIOUS
  <2>1. k \in Nat /\ k <= c /\ k \in 0..(c - 1) /\ k + 1 \in 1..(Len(logs.withdrawals) + 1)
        /\ (k + 1) - 1 = k /\ k + 1 # 0
    BY <1>1
  <2>2. GoodNote(logs, n, k) /\ Spent(logs, n, k)
    BY <1>1, <2>1
  <2> DEFINE spent == nullifier_hash(KeyAt(logs, n, k))
  <2>3. PICK m \in DOMAIN logs.withdrawals :
            /\ logs.withdrawals[m].spent_nullifier = spent
            /\ WithdrawalOf(logs, spent) = logs.withdrawals[m]
    BY <2>2, WithdrawalAt DEF Spent
  <2> DEFINE w == logs.withdrawals[m]
             new == w.new_commitment
  <2>4. /\ new \in LeavesOf(logs) /\ new.label = n /\ KeyOf(new) = KeyAt(logs, n, k + 1)
    BY <2>1, <2>3, ChainStep
  <2>5. PICK old \in LeavesOf(logs) :
            /\ KeyOf(old) = KeyAt(logs, n, k)
            /\ old.value = new.value + w.value
    BY <2>1, <2>3, ChainStep
  <2>6. /\ w.value \in Nat /\ new.value \in Nat /\ new.value < FieldOrder
        /\ new = [value |-> new.value, label |-> new.label,
                  precommitment |-> precommitment(KeyOf(new))]
    <3>1. w \in WithdrawLogs /\ new \in CommitmentHashes
      BY <2>4, LogTypes
    <3>2. new.value < FieldOrder
      BY <2>4 DEF HistoryOK, LeavesOK
    <3> QED
      BY <3>1, <3>2, LeafType DEF WithdrawLogs, CommitmentHashes
  <2>7. old.value = V[k]
    <3>1. NoteAt(logs, n, k) = Note(V[k], n, KeyAt(logs, n, k))
      BY <2>2 DEF GoodNote
    <3>2. KeyOf(commitment_hash(NoteAt(logs, n, k))) = KeyAt(logs, n, k)
      BY <3>1, CommitmentKey DEF Note
    <3>3. commitment_hash(NoteAt(logs, n, k)) = old
      BY <2>2, <2>5, <3>2, LeafOfKey DEF GoodNote
    <3> QED
      BY <3>1, <3>3 DEF commitment_hash, Note
  <2>8. V[k + 1] = V[k] - w.value
    BY <2>1, <2>3, ValuesLeft
  <2> HIDE DEF V, w, new, spent
  <2>9. V[k + 1] = new.value
    BY <2>5, <2>6, <2>7, <2>8
  <2>10. NoteAt(logs, n, k + 1) = Note(new.value, n, KeyAt(logs, n, k + 1))
    BY <1>3, <2>1, <2>6, <2>9
  <2>11. commitment_hash(NoteAt(logs, n, k + 1)) = new
    BY <2>4, <2>6, <2>10 DEF commitment_hash, Note
  <2> QED
    BY <2>1, <2>3, <2>4, <2>6, <2>9, <2>10, <2>11 DEF GoodNote, V, w, new, spent
<1> HIDE DEF S
<1>6. S = Nat
  <2>1. S \in SUBSET Nat
    BY DEF S
  <2> QED
    BY <1>4, <1>5, <2>1, SetInduction
<1> QED
  BY <1>1, <1>6 DEF S

-----------------------------------------------------------------------------
(* Recovered accounts.                                                     *)

AccountAt(logs, n) == RecoveredAccount(logs, Owner(logs, n), Index(logs, n))

\* A recovered account is that of a deposit in the logs, of the same owner.
LEMMA IndexOfDeposit ==
    ASSUME NEW logs \in PoolLogs, HistoryOK(logs), NEW a,
           NEW i \in RecoveredIndices(logs, a, gap_limit)
    PROVE  \E n \in DOMAIN logs.deposits :
              /\ Owner(logs, n) = a /\ Index(logs, n) = i
              /\ DepositFor(logs, deposit_precommitment(a, i)) = logs.deposits[n]
<1>1. HasDeposit(logs, deposit_precommitment(a, i))
  BY DEF RecoveredIndices
<1>2. PICK n \in DOMAIN logs.deposits :
          /\ DepositFor(logs, deposit_precommitment(a, i)) = logs.deposits[n]
          /\ DepositKey(logs, n) = deposit_secrets(a, i)
  BY <1>1, DepositAt
<1> QED
  BY <1>2 DEF Owner, Index, deposit_secrets

LEMMA RecoveredAccountOf ==
    ASSUME NEW logs \in PoolLogs, HistoryOK(logs), NEW a,
           NEW acct \in RecoveredAccounts(logs, a, gap_limit)
    PROVE  \E n \in DOMAIN logs.deposits :
              /\ Owner(logs, n) = a
              /\ acct = AccountAt(logs, n)
<1>1. PICK i \in RecoveredIndices(logs, a, gap_limit) : acct = RecoveredAccount(logs, a, i)
  BY DEF RecoveredAccounts
<1> QED
  BY <1>1, IndexOfDeposit DEF AccountAt

LEMMA DepositOfOwner ==
    ASSUME NEW logs \in PoolLogs, HistoryOK(logs), NEW n \in DOMAIN logs.deposits
    PROVE  /\ HasDeposit(logs, deposit_precommitment(Owner(logs, n), Index(logs, n)))
           /\ DepositFor(logs, deposit_precommitment(Owner(logs, n), Index(logs, n)))
                = logs.deposits[n]
<1>1. deposit_precommitment(Owner(logs, n), Index(logs, n)) = logs.deposits[n].precommitment
  <2>1. DepositKey(logs, n) = deposit_secrets(Owner(logs, n), Index(logs, n))
    BY DepositOK
  <2>2. logs.deposits[n].precommitment = precommitment(DepositKey(logs, n))
    BY DepositType
  <2> QED
    BY <2>1, <2>2 DEF deposit_precommitment
<1> QED
  BY <1>1, DepositLookup

LEMMA AccountIs ==
    ASSUME NEW logs \in PoolLogs, HistoryOK(logs), NEW n \in DOMAIN logs.deposits
    PROVE  AccountAt(logs, n) = PoolAccount(n, Index(logs, n), NoteAt(logs, n, 0),
                                            [k \in 1..Length(logs, n) |-> NoteAt(logs, n, k)],
                                            n \in RagequitLabels(logs))
<1>1. /\ DepositFor(logs, deposit_precommitment(Owner(logs, n), Index(logs, n)))
            = logs.deposits[n]
      /\ logs.deposits[n].label = n
  BY DepositOfOwner, DepositOK
<1> QED
  BY <1>1 DEF AccountAt, RecoveredAccount, NoteAt, Length

LEMMA AccountFields ==
    ASSUME NEW logs \in PoolLogs, HistoryOK(logs), NEW n \in DOMAIN logs.deposits
    PROVE  /\ AccountAt(logs, n).label = n
           /\ AccountAt(logs, n).deposit_index = Index(logs, n)
           /\ AccountAt(logs, n).deposit = NoteAt(logs, n, 0)
           /\ AccountAt(logs, n).children
                = [k \in 1..Length(logs, n) |-> NoteAt(logs, n, k)]
           /\ Len(AccountAt(logs, n).children) = Length(logs, n)
           /\ AccountAt(logs, n).ragequit = (n \in RagequitLabels(logs))
           /\ CurrentNote(AccountAt(logs, n)) = NoteAt(logs, n, Length(logs, n))
<1> DEFINE acct == AccountAt(logs, n)
           c == Length(logs, n)
           kids == [k \in 1..c |-> NoteAt(logs, n, k)]
<1>1. c \in Nat
  BY LogTypes, LengthIsFirstUnspent
<1>3. acct = PoolAccount(n, Index(logs, n), NoteAt(logs, n, 0), kids,
                         n \in RagequitLabels(logs))
  BY AccountIs
<1> HIDE DEF acct, c
<1>4. /\ acct.label = n
      /\ acct.deposit_index = Index(logs, n)
      /\ acct.deposit = NoteAt(logs, n, 0)
      /\ acct.children = kids
      /\ acct.ragequit = (n \in RagequitLabels(logs))
  BY <1>3 DEF PoolAccount
<1>5. Len(kids) = c /\ DOMAIN kids = 1..c
  BY <1>1
<1>6. CurrentNote(acct) = NoteAt(logs, n, c)
  <2>1. CASE c = 0
    <3>1. kids = <<>>
      BY <2>1
    <3> QED
      BY <2>1, <3>1, <1>4 DEF CurrentNote
  <2>2. CASE c # 0
    <3>1. c \in 1..c
      BY <1>1, <2>2
    <3>2. kids # <<>> /\ kids[c] = NoteAt(logs, n, c)
      BY <3>1, <1>5
    <3> QED
      BY <3>2, <1>4, <1>5 DEF CurrentNote
  <2> QED
    BY <2>1, <2>2
<1> QED
  BY <1>4, <1>5, <1>6 DEF acct, c

\* The last note of a chain that was not taken out by a ragequit is unspent.
LEMMA TipUnspent ==
    ASSUME NEW logs \in PoolLogs, HistoryOK(logs), NEW n \in DOMAIN logs.deposits,
           n \notin RagequitLabels(logs)
    PROVE  nullifier_hash(KeyAt(logs, n, Length(logs, n))) \notin SpentIn(logs)
<1> DEFINE c == Length(logs, n)
           tip == commitment_hash(NoteAt(logs, n, c))
<1>1. c \in Nat /\ ~Spent(logs, n, c) /\ c \in 0..c
  BY LogTypes, LengthIsFirstUnspent
<1>2. GoodNote(logs, n, c)
  BY <1>1, ChainNotes
<1>3. /\ tip \in LeavesOf(logs) /\ tip.label = n
      /\ KeyOf(tip) = KeyAt(logs, n, c)
  BY <1>2 DEF GoodNote, commitment_hash, Note, KeyOf, precommitment
<1>4. ASSUME NEW m \in DOMAIN logs.withdrawals,
             logs.withdrawals[m].spent_nullifier = nullifier_hash(KeyAt(logs, n, c))
      PROVE  FALSE
  BY <1>1, <1>4 DEF Spent, HasWithdrawal, WithdrawalsOf
<1>5. ASSUME NEW r \in DOMAIN logs.ragequits,
             nullifier_hash(KeyOf(logs.ragequits[r].commitment))
                = nullifier_hash(KeyAt(logs, n, c))
      PROVE  FALSE
  <2> DEFINE note == logs.ragequits[r].commitment
  <2>1. KeyOf(note) = KeyOf(tip)
    BY <1>3, <1>5, NullifierInjective
  <2>2. note \in LeavesOf(logs) /\ logs.ragequits[r].label = note.label
    BY DEF HistoryOK, RagequitsOK
  <2>3. note = tip
    BY <1>3, <2>1, <2>2, LeafOfKey
  <2> QED
    BY <1>3, <2>2, <2>3 DEF RagequitLabels
<1> QED
  BY <1>4, <1>5 DEF SpentIn

\* Recovery's checks succeed.
LEMMA RecoveryOK ==
    ASSUME NEW logs \in PoolLogs, HistoryOK(logs), NEW a
    PROVE  RecoverySucceeds(logs, a, gap_limit)
<1> SUFFICES ASSUME NEW i \in RecoveredIndices(logs, a, gap_limit)
             PROVE  ChainChecks(logs, a, i, DepositFor(logs, deposit_precommitment(a, i)))
  BY DEF RecoverySucceeds
<1>1. PICK n \in DOMAIN logs.deposits :
          /\ Owner(logs, n) = a /\ Index(logs, n) = i
          /\ DepositFor(logs, deposit_precommitment(a, i)) = logs.deposits[n]
  BY IndexOfDeposit
<1>2. logs.deposits[n].label = n /\ Length(logs, n) \in Nat
  BY DepositOK, LengthIsFirstUnspent
<1> SUFFICES ASSUME NEW k \in 1..Length(logs, n)
             PROVE  /\ ValueAt(logs, n)[k] >= 0
                    /\ commitment_hash(NoteAt(logs, n, k))
                        = SpendOf(logs, Owner(logs, n), Index(logs, n), n, k - 1).new_commitment
  BY <1>1, <1>2 DEF ChainChecks, Length, ValueAt, NoteAt
<1>3. k \in 0..Length(logs, n) /\ k # 0
  BY <1>2
<1>4. GoodNote(logs, n, k)
  BY <1>3, ChainNotes
<1> QED
  BY <1>3, <1>4 DEF GoodNote, SpendOf, KeyAt

-----------------------------------------------------------------------------
(* Every unspent leaf is the last note of a chain that recovery finds.       *)

\* Every leaf is a note of the chain of the deposit its label names.
LEMMA LeafInChain ==
    ASSUME NEW logs \in PoolLogs, HistoryOK(logs), NEW leaf \in LeavesOf(logs)
    PROVE  /\ leaf.label \in DOMAIN logs.deposits
           /\ Owner(logs, leaf.label) = KeyOf(leaf).account
           /\ \E k \in Nat : KeyOf(leaf) = KeyAt(logs, leaf.label, k)
<1>1. CASE \E n \in DOMAIN logs.deposits : leaf = logs.deposits[n].commitment
  <2>1. PICK n \in DOMAIN logs.deposits : leaf = logs.deposits[n].commitment
    BY <1>1
  <2>2. leaf.label = n
    BY <2>1, DepositLeaf
  <2>3. KeyOf(leaf) = DepositKey(logs, n)
    BY <2>1, DepositLeaf
  <2>4. KeyOf(leaf) = KeyAt(logs, n, 0)
    BY <2>3, ChainKeys
  <2> QED
    BY <2>2, <2>3, <2>4 DEF Owner
<1>2. CASE \E m \in DOMAIN logs.withdrawals : leaf = logs.withdrawals[m].new_commitment
  <2>1. /\ leaf.label \in DOMAIN logs.deposits /\ KeyOf(leaf).base = leaf.label
        /\ KeyOf(leaf).account = Owner(logs, leaf.label)
    BY <1>2 DEF HistoryOK, WithdrawalsOK, WithdrawalOK, Owner
  <2> DEFINE j == KeyOf(leaf).index
  <2>2. KeyOf(leaf) = [account |-> Owner(logs, leaf.label), base |-> leaf.label, index |-> j]
        /\ j \in Nat
    BY <2>1, LogTypes, LeafType DEF Keys
  <2>3. KeyAt(logs, leaf.label, j + 1)
          = [account |-> Owner(logs, leaf.label), base |-> leaf.label, index |-> j]
    BY <2>1, <2>2, ChainKeys
  <2>4. j + 1 \in Nat
    BY <2>2
  <2> QED
    BY <2>1, <2>2, <2>3, <2>4
<1> QED
  BY <1>1, <1>2 DEF HistoryOK, LeavesOK

\* A leaf with the k-th key of a chain exists only if withdrawals have spent
\* the k keys before it.
LEMMA EarlierSpent ==
    ASSUME NEW logs \in PoolLogs, HistoryOK(logs), NEW n \in DOMAIN logs.deposits,
           NEW k \in Nat, NEW leaf \in LeavesOf(logs), KeyOf(leaf) = KeyAt(logs, n, k)
    PROVE  \A j \in 0..(k - 1) : Spent(logs, n, j)
<1> DEFINE S == {i \in Nat : \A x \in LeavesOf(logs) :
                    KeyOf(x) = KeyAt(logs, n, i) => \A j \in 0..(i - 1) : Spent(logs, n, j)}
<1>1. 0 \in S
  OBVIOUS
<1>2. ASSUME NEW i \in S PROVE i + 1 \in S
  <2> SUFFICES ASSUME NEW x \in LeavesOf(logs), KeyOf(x) = KeyAt(logs, n, i + 1)
               PROVE  \A j \in 0..i : Spent(logs, n, j)
    OBVIOUS
  <2>1. KeyOf(x) = [account |-> Owner(logs, n), base |-> n, index |-> i] /\ n \in Nat \ {0}
    BY ChainKeys, LogTypes
  <2>2. PICK m \in DOMAIN logs.withdrawals : x = logs.withdrawals[m].new_commitment
    <3>1. ASSUME NEW d \in DOMAIN logs.deposits, x = logs.deposits[d].commitment PROVE FALSE
      <4>1. KeyOf(x) = DepositKey(logs, d)
        BY <3>1, DepositLeaf
      <4>2. DepositKey(logs, d).base = 0
        BY DepositOK
      <4> QED
        BY <2>1, <4>1, <4>2
    <3> QED
      BY <3>1 DEF HistoryOK, LeavesOK
  <2>3. PICK old \in LeavesOf(logs) :
            /\ logs.withdrawals[m].spent_nullifier = nullifier_hash(KeyOf(old))
            /\ KeyOf(old) = Previous(logs, KeyOf(x))
    BY <2>2 DEF HistoryOK, WithdrawalsOK, WithdrawalOK
  <2>4. KeyOf(old) = KeyAt(logs, n, i)
    <3>1. CASE i = 0
      BY <2>1, <2>3, <3>1, ChainKeys DEF Previous
    <3>2. CASE i # 0
      <4>1. KeyOf(old) = [account |-> Owner(logs, n), base |-> n, index |-> i - 1]
        BY <2>1, <2>3, <3>2 DEF Previous
      <4>2. KeyAt(logs, n, i) = [account |-> Owner(logs, n), base |-> n, index |-> i - 1]
        BY <3>2, ChainKeys
      <4> QED
        BY <4>1, <4>2
    <3> QED
      BY <3>1, <3>2
  <2>5. Spent(logs, n, i)
    BY <2>3, <2>4 DEF Spent, HasWithdrawal, WithdrawalsOf
  <2>6. \A j \in 0..(i - 1) : Spent(logs, n, j)
    BY <2>4
  <2>7. \A j \in 0..i : j = i \/ j \in 0..(i - 1)
    OBVIOUS
  <2> QED
    BY <2>5, <2>6, <2>7
<1> HIDE DEF S
<1>3. S = Nat
  <2>1. S \in SUBSET Nat
    BY DEF S
  <2> QED
    BY <1>1, <1>2, <2>1, SetInduction
<1>4. k \in S
  BY <1>3
<1> QED
  BY <1>4 DEF S

\* So a leaf that no withdrawal spends is the last note of its chain.
LEMMA UnwithdrawnIsTip ==
    ASSUME NEW logs \in PoolLogs, HistoryOK(logs), NEW leaf \in LeavesOf(logs),
           ~HasWithdrawal(logs, nullifier_hash(KeyOf(leaf)))
    PROVE  /\ leaf.label \in DOMAIN logs.deposits
           /\ Owner(logs, leaf.label) = KeyOf(leaf).account
           /\ KeyOf(leaf) = KeyAt(logs, leaf.label, Length(logs, leaf.label))
<1> DEFINE n == leaf.label
           c == Length(logs, n)
<1>1. PICK k \in Nat : KeyOf(leaf) = KeyAt(logs, n, k)
  BY LeafInChain
<1>2. n \in DOMAIN logs.deposits /\ Owner(logs, n) = KeyOf(leaf).account
  BY LeafInChain
<1>3. /\ c \in Nat /\ ~Spent(logs, n, c)
      /\ \A j \in 0..(c - 1) : Spent(logs, n, j)
  BY <1>2, LengthIsFirstUnspent
<1>4. \A j \in 0..(k - 1) : Spent(logs, n, j)
  BY <1>1, <1>2, EarlierSpent
<1>5. ~Spent(logs, n, k)
  BY <1>1 DEF Spent
<1> HIDE DEF n, c
<1>6. k = c
  BY <1>3, <1>4, <1>5
<1> QED
  BY <1>1, <1>2, <1>6 DEF n, c

LEMMA UnspentIsTip ==
    ASSUME NEW logs \in PoolLogs, HistoryOK(logs), NEW leaf \in LeavesOf(logs),
           nullifier_hash(KeyOf(leaf)) \notin SpentIn(logs)
    PROVE  /\ leaf.label \in DOMAIN logs.deposits
           /\ Owner(logs, leaf.label) = KeyOf(leaf).account
           /\ leaf.label \notin RagequitLabels(logs)
           /\ leaf = commitment_hash(CurrentNote(AccountAt(logs, leaf.label)))
<1> DEFINE n == leaf.label
           c == Length(logs, n)
<1>1. ~HasWithdrawal(logs, nullifier_hash(KeyOf(leaf)))
  BY DEF HasWithdrawal, WithdrawalsOf, SpentIn
<1>2. /\ n \in DOMAIN logs.deposits /\ Owner(logs, n) = KeyOf(leaf).account
      /\ KeyOf(leaf) = KeyAt(logs, n, c)
  BY <1>1, UnwithdrawnIsTip
<1>3. c \in Nat /\ c \in 0..c
  BY <1>2, LengthIsFirstUnspent
<1>4. GoodNote(logs, n, c)
  BY <1>2, <1>3, ChainNotes
<1>5. KeyOf(commitment_hash(NoteAt(logs, n, c))) = KeyAt(logs, n, c)
  BY <1>4 DEF GoodNote, commitment_hash, Note, KeyOf, precommitment
<1>6. leaf = commitment_hash(NoteAt(logs, n, c))
  BY <1>2, <1>4, <1>5, LeafOfKey DEF GoodNote
<1>7. CurrentNote(AccountAt(logs, n)) = NoteAt(logs, n, c)
  BY <1>2, AccountFields
<1>8. ASSUME n \in RagequitLabels(logs) PROVE FALSE
  <2>1. PICK r \in DOMAIN logs.ragequits : logs.ragequits[r].label = n
    BY <1>8 DEF RagequitLabels
  <2> DEFINE note == logs.ragequits[r].commitment
  <2>2. /\ note \in LeavesOf(logs) /\ note.label = n
        /\ ~HasWithdrawal(logs, nullifier_hash(KeyOf(note)))
    BY <2>1 DEF HistoryOK, RagequitsOK, HasWithdrawal, WithdrawalsOf
  <2>3. KeyOf(note) = KeyAt(logs, n, c)
    BY <2>2, UnwithdrawnIsTip
  <2> QED
    BY <1>2, <2>3 DEF SpentIn
<1> QED
  BY <1>2, <1>6, <1>7, <1>8

\* Recovery reaches the index of every deposit.
LEMMA DepositRecovered ==
    ASSUME NEW logs \in PoolLogs, HistoryOK(logs), NEW n \in DOMAIN logs.deposits
    PROVE  /\ Index(logs, n) \in RecoveredIndices(logs, Owner(logs, n), gap_limit)
           /\ AccountAt(logs, n) \in RecoveredAccounts(logs, Owner(logs, n), gap_limit)
<1>1. Reached(logs, Owner(logs, n), gap_limit, Index(logs, n))
  BY DEF HistoryOK, DepositsOK, Owner, Index
<1>2. Index(logs, n) \in Nat
  BY DepositOK
<1>3. HasDeposit(logs, deposit_precommitment(Owner(logs, n), Index(logs, n)))
  BY DepositOfOwner
<1>4. IsLog(logs.deposits) /\ gap_limit \in Nat
  BY LogTypes, WalletGapLimitAssumption DEF IsLog
<1>5. Index(logs, n) \in RecoveredIndices(logs, Owner(logs, n), gap_limit)
  BY <1>1, <1>2, <1>3, <1>4, RecoveredIndicesAre
<1> QED
  BY <1>5 DEF RecoveredAccounts, AccountAt

\* Recovery from any logs with HistoryOK succeeds, and its spendable notes are
\* the unspent leaves of the account that hold something.
LEMMA RecoveryFindsUnspent ==
    ASSUME NEW logs \in PoolLogs, HistoryOK(logs), NEW a
    PROVE  {commitment_hash(note) : note \in SpendableNotes(logs, a, gap_limit)}
             = {leaf \in LeavesOf(logs) :
                   /\ KeyOf(leaf).account = a
                   /\ nullifier_hash(KeyOf(leaf)) \notin SpentIn(logs)
                   /\ leaf.value # 0}
<1>1. ASSUME NEW note \in SpendableNotes(logs, a, gap_limit)
      PROVE  /\ commitment_hash(note) \in LeavesOf(logs)
             /\ KeyOf(commitment_hash(note)).account = a
             /\ nullifier_hash(KeyOf(commitment_hash(note))) \notin SpentIn(logs)
             /\ commitment_hash(note).value # 0
  <2>1. PICK acct \in RecoveredAccounts(logs, a, gap_limit) :
            IsSpendable(acct) /\ note = CurrentNote(acct)
    BY DEF SpendableNotes
  <2>2. PICK n \in DOMAIN logs.deposits :
            Owner(logs, n) = a /\ acct = AccountAt(logs, n)
    BY <2>1, RecoveredAccountOf
  <2> DEFINE c == Length(logs, n)
  <2>3. c \in Nat /\ c \in 0..c
    BY LengthIsFirstUnspent
  <2>4. /\ note = NoteAt(logs, n, c) /\ note.value # 0
        /\ n \notin RagequitLabels(logs)
    BY <2>1, <2>2, AccountFields DEF IsSpendable
  <2>5. GoodNote(logs, n, c)
    BY <2>3, ChainNotes
  <2>6. /\ commitment_hash(note) \in LeavesOf(logs)
        /\ commitment_hash(note).value # 0
        /\ KeyOf(commitment_hash(note)) = KeyAt(logs, n, c)
    BY <2>4, <2>5 DEF GoodNote, commitment_hash, Note, KeyOf, precommitment
  <2>7. KeyAt(logs, n, c).account = a
    <3>1. CASE c = 0
      <4>1. KeyAt(logs, n, c) = DepositKey(logs, n)
        BY <3>1, ChainKeys
      <4> QED
        BY <4>1, <2>2 DEF Owner
    <3>2. CASE c # 0
      <4>1. KeyAt(logs, n, c) = [account |-> Owner(logs, n), base |-> n, index |-> c - 1]
        BY <3>2, <2>3, ChainKeys
      <4> QED
        BY <4>1, <2>2
    <3> QED
      BY <3>1, <3>2
  <2> QED
    BY <2>4, <2>6, <2>7, TipUnspent
<1>2. ASSUME NEW leaf \in LeavesOf(logs), KeyOf(leaf).account = a,
             nullifier_hash(KeyOf(leaf)) \notin SpentIn(logs), leaf.value # 0
      PROVE  \E note \in SpendableNotes(logs, a, gap_limit) : leaf = commitment_hash(note)
  <2> DEFINE n == leaf.label
             acct == AccountAt(logs, n)
  <2>1. /\ n \in DOMAIN logs.deposits /\ Owner(logs, n) = a
        /\ n \notin RagequitLabels(logs)
        /\ leaf = commitment_hash(CurrentNote(acct))
    BY <1>2, UnspentIsTip
  <2>2. acct \in RecoveredAccounts(logs, a, gap_limit)
    BY <2>1, DepositRecovered
  <2>3. CurrentNote(acct).value # 0
    BY <1>2, <2>1 DEF commitment_hash
  <2>4. ~acct.ragequit
    BY <2>1, AccountFields
  <2> HIDE DEF acct
  <2>5. CurrentNote(acct) \in SpendableNotes(logs, a, gap_limit)
    BY <2>2, <2>3, <2>4 DEF SpendableNotes, IsSpendable
  <2> QED
    BY <2>1, <2>5
<1> QED
  BY <1>1, <1>2

-----------------------------------------------------------------------------
(* Logs that continue others.                                              *)

LEMMA AppendToLog ==
    ASSUME NEW T, NEW s \in Seq(T), NEW x \in T
    PROVE  /\ Append(s, x) \in Seq(T)
           /\ Len(s) \in Nat /\ Len(Append(s, x)) = Len(s) + 1
           /\ DOMAIN s = 1..Len(s)
           /\ DOMAIN Append(s, x) = DOMAIN s \cup {Len(s) + 1}
           /\ Len(s) + 1 \notin DOMAIN s
           /\ Append(s, x)[Len(s) + 1] = x
           /\ \A k \in DOMAIN s : Append(s, x)[k] = s[k]
           /\ StartsWith(Append(s, x), s) /\ StartsWith(s, s)
<1>1. /\ Append(s, x) \in Seq(T)
      /\ Len(s) \in Nat /\ Len(Append(s, x)) = Len(s) + 1
      /\ DOMAIN s = 1..Len(s)
      /\ DOMAIN Append(s, x) = 1..(Len(s) + 1)
      /\ Append(s, x)[Len(s) + 1] = x
      /\ \A k \in DOMAIN s : Append(s, x)[k] = s[k]
  OBVIOUS
<1>2. /\ 1..(Len(s) + 1) = (1..Len(s)) \cup {Len(s) + 1}
      /\ Len(s) + 1 \notin 1..Len(s) /\ Len(s) <= Len(s) + 1 /\ Len(s) <= Len(s)
  BY <1>1
<1> QED
  BY <1>1, <1>2 DEF StartsWith

LEMMA StartsWithTransitive ==
    ASSUME NEW T, NEW r \in Seq(T), NEW s \in Seq(T), NEW t \in Seq(T),
           StartsWith(t, s), StartsWith(s, r)
    PROVE  StartsWith(t, r)
BY DEF StartsWith

LEMMA ContinuesTransitive ==
    ASSUME NEW x \in PoolLogs, NEW y \in PoolLogs, NEW z \in PoolLogs,
           Continues(z, y), Continues(y, x)
    PROVE  Continues(z, x)
BY LogTypes, StartsWithTransitive DEF Continues

LEMMA ContinuesReflexive == ASSUME NEW x \in PoolLogs PROVE Continues(x, x)
BY LogTypes DEF Continues, StartsWith

\* What the earlier logs have, the later ones have.
LEMMA ContinuesKeeps ==
    ASSUME NEW old \in PoolLogs, NEW new \in PoolLogs, Continues(new, old)
    PROVE  /\ LeavesOf(old) \subseteq LeavesOf(new)
           /\ \A n \in DOMAIN old.deposits :
                 /\ n \in DOMAIN new.deposits /\ new.deposits[n] = old.deposits[n]
                 /\ DepositKey(new, n) = DepositKey(old, n)
           /\ \A m \in DOMAIN old.withdrawals :
                 m \in DOMAIN new.withdrawals /\ new.withdrawals[m] = old.withdrawals[m]
           /\ \A r \in DOMAIN old.ragequits :
                 r \in DOMAIN new.ragequits /\ new.ragequits[r] = old.ragequits[r]
           /\ \A pre : HasDeposit(old, pre) => HasDeposit(new, pre)
           /\ \A a, i : Reached(old, a, gap_limit, i) => Reached(new, a, gap_limit, i)
<1>1. LeavesOf(old) \subseteq LeavesOf(new)
  <2>1. \A k \in DOMAIN old.leaves : k \in DOMAIN new.leaves /\ new.leaves[k] = old.leaves[k]
    BY LogTypes DEF Continues, StartsWith
  <2> QED
    BY <2>1 DEF LeavesOf
<1>2. \A n \in DOMAIN old.deposits :
         n \in DOMAIN new.deposits /\ new.deposits[n] = old.deposits[n]
  BY LogTypes DEF Continues, StartsWith
<1>3. \A m \in DOMAIN old.withdrawals :
         m \in DOMAIN new.withdrawals /\ new.withdrawals[m] = old.withdrawals[m]
  BY LogTypes DEF Continues, StartsWith
<1>4. \A r \in DOMAIN old.ragequits :
         r \in DOMAIN new.ragequits /\ new.ragequits[r] = old.ragequits[r]
  BY LogTypes DEF Continues, StartsWith
<1>5. \A pre : HasDeposit(old, pre) => HasDeposit(new, pre)
  BY <1>2 DEF HasDeposit, DepositsFor
<1>6. \A a, i : Reached(old, a, gap_limit, i) => Reached(new, a, gap_limit, i)
  BY <1>5 DEF Reached
<1> QED
  BY <1>1, <1>2, <1>3, <1>4, <1>5, <1>6 DEF DepositKey

\* The key before one under the label of an earlier deposit stays the same.
LEMMA PreviousKept ==
    ASSUME NEW old \in PoolLogs, NEW new \in PoolLogs, Continues(new, old),
           NEW key, key.base \in DOMAIN old.deposits
    PROVE  Previous(new, key) = Previous(old, key)
BY ContinuesKeeps DEF Previous

LEMMA PlanKept ==
    ASSUME NEW old \in PoolLogs, NEW new \in PoolLogs, Continues(new, old),
           NEW p \in Plans, PlanOK(p, old)
    PROVE  PlanOK(p, new)
<1>1. Previous(new, p.new_key) = Previous(old, p.new_key)
  BY PreviousKept DEF PlanOK
<1>2. /\ p.existing.label \in DOMAIN new.deposits
      /\ DepositKey(new, p.existing.label) = DepositKey(old, p.existing.label)
      /\ LeavesOf(old) \subseteq LeavesOf(new)
  BY ContinuesKeeps DEF PlanOK
<1>3. StartsWith(new.leaves, p.state_root)
  <2>1. p.state_root \in Seq(CommitmentHashes)
    BY DEF Plans
  <2>2. StartsWith(new.leaves, old.leaves) /\ StartsWith(old.leaves, p.state_root)
    BY DEF Continues, PlanOK
  <2> QED
    BY <2>1, <2>2, LogTypes, StartsWithTransitive
<1> QED
  BY <1>1, <1>2, <1>3 DEF PlanOK

\* What WithdrawalsOK says of one withdrawal stays true.
LEMMA WithdrawalKept ==
    ASSUME NEW old \in PoolLogs, NEW new \in PoolLogs, Continues(new, old),
           NEW w, WithdrawalOK(old, w)
    PROVE  WithdrawalOK(new, w)
<1> DEFINE leaf == w.new_commitment
<1>1. Previous(new, KeyOf(leaf)) = Previous(old, KeyOf(leaf))
  BY PreviousKept DEF WithdrawalOK
<1>2. /\ leaf.label \in DOMAIN old.deposits
      /\ leaf.label \in DOMAIN new.deposits
      /\ DepositKey(new, leaf.label) = DepositKey(old, leaf.label)
      /\ LeavesOf(old) \subseteq LeavesOf(new)
  BY ContinuesKeeps DEF WithdrawalOK
<1>3. PICK x \in LeavesOf(old) :
          /\ w.spent_nullifier = nullifier_hash(KeyOf(x))
          /\ KeyOf(x) = Previous(old, KeyOf(leaf))
          /\ x.label = leaf.label
          /\ x.value = leaf.value + w.value
  BY DEF WithdrawalOK
<1>4. x \in LeavesOf(new)
  BY <1>2, <1>3
<1>5. /\ leaf \in LeavesOf(new)
      /\ KeyOf(leaf).base = leaf.label
      /\ KeyOf(leaf).account = DepositKey(new, leaf.label).account
  BY <1>2 DEF WithdrawalOK
<1> HIDE DEF leaf
<1>6. \E y \in LeavesOf(new) :
          /\ w.spent_nullifier = nullifier_hash(KeyOf(y))
          /\ KeyOf(y) = Previous(new, KeyOf(leaf))
          /\ y.label = leaf.label
          /\ y.value = leaf.value + w.value
  BY <1>1, <1>3, <1>4
<1> QED
  BY <1>2, <1>5, <1>6 DEF WithdrawalOK, leaf

-----------------------------------------------------------------------------
(* What the pool accepts keeps its logs in order.                          *)

ChainOK(ch) ==
    /\ ch \in [logs: PoolLogs, spent: SUBSET NullifierHashes]
    /\ HistoryOK(ch.logs)
    /\ ch.spent = SpentIn(ch.logs)

KeysDiffer(leaves) ==
    \A m, n \in DOMAIN leaves : m # n => KeyOf(leaves[m]) # KeyOf(leaves[n])

LEMMA KeysDifferAppend ==
    ASSUME NEW s \in Seq(CommitmentHashes), NEW leaf \in CommitmentHashes, KeysDiffer(s),
           \A k \in DOMAIN s : KeyOf(s[k]) # KeyOf(leaf)
    PROVE  KeysDiffer(Append(s, leaf))
BY AppendToLog DEF KeysDiffer

LEMMA GenesisOK == ChainOK(Genesis)
<1> USE DEF EmptyLogs, Genesis
<1>1. EmptyLogs \in PoolLogs
  BY EmptySeq DEF PoolLogs
<1>2. HistoryOK(EmptyLogs) /\ SpentIn(EmptyLogs) = {}
  BY DEF HistoryOK, DepositsOK, WithdrawalsOK, LeavesOK, RagequitsOK, SpentIn, LeavesOf
<1> QED
  BY <1>1, <1>2 DEF ChainOK

\* The pool appends to some of its logs and leaves the others alone.
WithDeposit(logs, leaves, deposits) ==
    [logs EXCEPT !.leaves = leaves, !.deposits = deposits]
WithWithdrawal(logs, leaves, withdrawals) ==
    [logs EXCEPT !.leaves = leaves, !.withdrawals = withdrawals]
WithRagequit(logs, ragequits) == [logs EXCEPT !.ragequits = ragequits]

LEMMA LogsUpdated ==
    ASSUME NEW logs \in PoolLogs
    PROVE  /\ \A x, y : WithDeposit(logs, x, y)
                = [leaves |-> x, deposits |-> y, withdrawals |-> logs.withdrawals,
                   ragequits |-> logs.ragequits]
           /\ \A x, y : WithWithdrawal(logs, x, y)
                = [leaves |-> x, deposits |-> logs.deposits, withdrawals |-> y,
                   ragequits |-> logs.ragequits]
           /\ \A x : WithRagequit(logs, x)
                = [leaves |-> logs.leaves, deposits |-> logs.deposits,
                   withdrawals |-> logs.withdrawals, ragequits |-> x]
<1>1. PICK l, d, w, r : logs = [leaves |-> l, deposits |-> d, withdrawals |-> w, ragequits |-> r]
  BY DEF PoolLogs
<1>2. logs.leaves = l /\ logs.deposits = d /\ logs.withdrawals = w /\ logs.ragequits = r
  BY <1>1
<1>3. ASSUME NEW x, NEW y
      PROVE  /\ WithDeposit(logs, x, y)
                  = [leaves |-> x, deposits |-> y, withdrawals |-> w, ragequits |-> r]
             /\ WithWithdrawal(logs, x, y)
                  = [leaves |-> x, deposits |-> d, withdrawals |-> y, ragequits |-> r]
  <2>1. PICK z : z = [logs EXCEPT !.leaves = x]
    OBVIOUS
  <2>2. z = [leaves |-> x, deposits |-> d, withdrawals |-> w, ragequits |-> r]
    BY <1>1, <2>1
  <2>3. /\ [z EXCEPT !.deposits = y]
             = [leaves |-> x, deposits |-> y, withdrawals |-> w, ragequits |-> r]
        /\ [z EXCEPT !.withdrawals = y]
             = [leaves |-> x, deposits |-> d, withdrawals |-> y, ragequits |-> r]
    BY <2>2
  <2>4. /\ WithDeposit(logs, x, y) = [z EXCEPT !.deposits = y]
        /\ WithWithdrawal(logs, x, y) = [z EXCEPT !.withdrawals = y]
    BY <2>1 DEF WithDeposit, WithWithdrawal
  <2> QED
    BY <2>3, <2>4
<1>4. \A x : WithRagequit(logs, x)
        = [leaves |-> l, deposits |-> d, withdrawals |-> w, ragequits |-> x]
  BY <1>1 DEF WithRagequit
<1> QED
  BY <1>2, <1>3, <1>4

\* A deposit whose precommitment is new, within the gap limit of the others.
LEMMA DepositKeepsOrder ==
    ASSUME NEW ch, ChainOK(ch), NEW pre \in Precommitments, NEW value \in DepositAmounts,
           pre.nullifier_and_secret.base = Scope,
           Reached(ch.logs, pre.nullifier_and_secret.account, gap_limit,
                   pre.nullifier_and_secret.index),
           AcceptsDeposit(ch, pre)
    PROVE  /\ ChainOK(AfterDeposit(ch, pre, value))
           /\ Continues(AfterDeposit(ch, pre, value).logs, ch.logs)
<1> DEFINE logs == ch.logs
           key  == pre.nullifier_and_secret
           N    == Len(logs.deposits)
           leaf == [value |-> u256_to_field(value), label |-> label(N + 1),
                    precommitment |-> pre]
           dep  == DepositLog(leaf, label(N + 1), value, pre)
           new  == AfterDeposit(ch, pre, value).logs
<1>1. logs \in PoolLogs /\ HistoryOK(logs) /\ ch.spent = SpentIn(logs)
      /\ ch = [logs |-> logs, spent |-> ch.spent] /\ ch.spent \subseteq NullifierHashes
  BY DEF ChainOK
<1>2. /\ value \in Nat /\ value < FieldOrder /\ u256_to_field(value) = value
      /\ N \in Nat /\ DOMAIN logs.deposits = 1..N
  BY <1>1, AmountsAssumption, FieldIdentity, LogTypes
<1>3. /\ leaf = [value |-> value, label |-> N + 1, precommitment |-> pre]
      /\ dep = [commitment |-> leaf, label |-> N + 1, value |-> value, precommitment |-> pre]
      /\ leaf \in CommitmentHashes /\ dep \in DepositLogs /\ KeyOf(leaf) = key
  BY <1>2 DEF label, DepositLog, CommitmentHashes, DepositLogs, KeyOf
<1> HIDE DEF leaf, dep
<1>4. /\ AfterDeposit(ch, pre, value) = [logs |-> new, spent |-> ch.spent]
      /\ new = [leaves |-> Append(logs.leaves, leaf), deposits |-> Append(logs.deposits, dep),
                withdrawals |-> logs.withdrawals, ragequits |-> logs.ragequits]
  <2>2. AfterDeposit(ch, pre, value)
          = [ch EXCEPT !.logs = WithDeposit(logs, Append(logs.leaves, leaf), Append(logs.deposits, dep))]
    BY <1>1 DEF AfterDeposit, LeafAdded, WithDeposit, leaf, dep
  <2>3. WithDeposit(logs, Append(logs.leaves, leaf), Append(logs.deposits, dep))
          = [leaves |-> Append(logs.leaves, leaf), deposits |-> Append(logs.deposits, dep),
             withdrawals |-> logs.withdrawals, ragequits |-> logs.ragequits]
    <3> HIDE DEF logs, new
    <3>1. logs \in PoolLogs
      BY <1>1
    <3>2. \A x, y : WithDeposit(logs, x, y)
            = [leaves |-> x, deposits |-> y,
               withdrawals |-> logs.withdrawals, ragequits |-> logs.ragequits]
      BY <3>1, LogsUpdated, Zenon
    <3> QED
      BY <3>2, Zenon
  <2> QED
    BY <1>1, <2>2, <2>3
<1> HIDE DEF new, logs
<1>5. new \in PoolLogs /\ Continues(new, logs)
  BY <1>1, <1>3, <1>4, LogTypes, AppendToLog, ContinuesReflexive
     DEF PoolLogs, Continues
<1>6. /\ LeavesOf(new) = LeavesOf(logs) \cup {leaf}
      /\ DOMAIN new.deposits = DOMAIN logs.deposits \cup {N + 1} /\ N + 1 \notin DOMAIN logs.deposits
      /\ new.deposits[N + 1] = dep
      /\ \A n \in DOMAIN logs.deposits : new.deposits[n] = logs.deposits[n]
      /\ new.withdrawals = logs.withdrawals /\ new.ragequits = logs.ragequits
  <2>1. new.leaves = Append(logs.leaves, leaf) /\ new.deposits = Append(logs.deposits, dep)
    BY <1>4
  <2>2. /\ DOMAIN new.leaves = DOMAIN logs.leaves \cup {Len(logs.leaves) + 1}
        /\ new.leaves[Len(logs.leaves) + 1] = leaf
        /\ \A k \in DOMAIN logs.leaves : new.leaves[k] = logs.leaves[k]
    BY <1>1, <1>3, <2>1, LogTypes, AppendToLog
  <2>3. /\ DOMAIN new.deposits = DOMAIN logs.deposits \cup {N + 1} /\ N + 1 \notin DOMAIN logs.deposits
        /\ new.deposits[N + 1] = dep
        /\ \A n \in DOMAIN logs.deposits : new.deposits[n] = logs.deposits[n]
    BY <1>1, <1>3, <2>1, LogTypes, AppendToLog
  <2> QED
    BY <1>4, <2>2, <2>3 DEF LeavesOf
<1>7. \A n \in DOMAIN logs.deposits : DepositKey(logs, n) # key
  <2>1. pre = precommitment(key)
    BY DEF Precommitments, precommitment
  <2>2. \A n \in DOMAIN logs.deposits : logs.deposits[n].precommitment # pre
    BY DEF AcceptsDeposit, HasDeposit, DepositsFor, logs
  <2>3. \A n \in DOMAIN logs.deposits :
           logs.deposits[n].precommitment = precommitment(DepositKey(logs, n))
    BY <1>1, DepositType
  <2> QED
    BY <2>1, <2>2, <2>3
<1>8. DepositsOK(new)
  <2>1. ASSUME NEW n \in DOMAIN new.deposits
        PROVE  /\ new.deposits[n].label = n
               /\ new.deposits[n].value \in DepositAmounts
               /\ new.deposits[n].commitment
                    = [value |-> new.deposits[n].value, label |-> n,
                       precommitment |-> new.deposits[n].precommitment]
               /\ new.deposits[n].commitment \in LeavesOf(new)
               /\ DepositKey(new, n).base = Scope
               /\ Reached(new, DepositKey(new, n).account, gap_limit, DepositKey(new, n).index)
    <3>1. CASE n \in DOMAIN logs.deposits
      <4>1. /\ logs.deposits[n].label = n
            /\ logs.deposits[n].value \in DepositAmounts
            /\ logs.deposits[n].commitment
                 = [value |-> logs.deposits[n].value, label |-> n,
                    precommitment |-> logs.deposits[n].precommitment]
            /\ logs.deposits[n].commitment \in LeavesOf(logs)
            /\ DepositKey(logs, n).base = Scope
            /\ Reached(logs, DepositKey(logs, n).account, gap_limit, DepositKey(logs, n).index)
        BY <1>1, <3>1 DEF HistoryOK, DepositsOK
      <4>2. new.deposits[n] = logs.deposits[n] /\ DepositKey(new, n) = DepositKey(logs, n)
        BY <1>6, <3>1 DEF DepositKey
      <4>3. Reached(new, DepositKey(logs, n).account, gap_limit, DepositKey(logs, n).index)
        BY <1>1, <1>5, <4>1, ContinuesKeeps
      <4> QED
        BY <1>6, <4>1, <4>2, <4>3
    <3>2. CASE n = N + 1
      <4>1. DepositKey(new, n) = key /\ new.deposits[n] = dep
        BY <1>3, <1>6, <3>2 DEF DepositKey
      <4>2. Reached(new, key.account, gap_limit, key.index)
        BY <1>1, <1>5, ContinuesKeeps DEF logs
      <4> QED
        BY <1>3, <1>6, <3>2, <4>1, <4>2
    <3> QED
      BY <1>6, <3>1, <3>2
  <2>2. \A m, n \in DOMAIN new.deposits : m # n => DepositKey(new, m) # DepositKey(new, n)
    <3>1. \A n \in DOMAIN logs.deposits : DepositKey(new, n) = DepositKey(logs, n)
      BY <1>6 DEF DepositKey
    <3>2. DepositKey(new, N + 1) = key
      BY <1>3, <1>6 DEF DepositKey
    <3>3. \A m, n \in DOMAIN logs.deposits : m # n => DepositKey(logs, m) # DepositKey(logs, n)
      BY <1>1 DEF HistoryOK, DepositsOK
    <3> QED
      BY <1>6, <1>7, <3>1, <3>2, <3>3
  <2> QED
    BY <2>1, <2>2 DEF DepositsOK
<1>9. WithdrawalsOK(new)
  <2>1. \A m \in DOMAIN logs.withdrawals : WithdrawalOK(logs, logs.withdrawals[m])
    BY <1>1 DEF HistoryOK, WithdrawalsOK
  <2>2. \A m \in DOMAIN logs.withdrawals : WithdrawalOK(new, logs.withdrawals[m])
    BY <1>1, <1>5, <2>1, WithdrawalKept
  <2> QED
    BY <1>1, <1>6, <2>2 DEF HistoryOK, WithdrawalsOK
<1>10. LeavesOK(new)
  <2>1. \A x \in LeavesOf(new) :
           /\ x.value < FieldOrder
           /\ \/ \E n \in DOMAIN new.deposits : x = new.deposits[n].commitment
              \/ \E m \in DOMAIN new.withdrawals : x = new.withdrawals[m].new_commitment
    <3>1. leaf.value < FieldOrder /\ leaf = new.deposits[N + 1].commitment
      BY <1>2, <1>3, <1>6
    <3>2. \A x \in LeavesOf(logs) :
             /\ x.value < FieldOrder
             /\ \/ \E n \in DOMAIN logs.deposits : x = logs.deposits[n].commitment
                \/ \E m \in DOMAIN logs.withdrawals : x = logs.withdrawals[m].new_commitment
      BY <1>1 DEF HistoryOK, LeavesOK
    <3> QED
      BY <1>6, <3>1, <3>2
  <2>2. ASSUME NEW x \in LeavesOf(logs), KeyOf(x) = key PROVE FALSE
    <3>1. PICK k \in Nat : KeyOf(x) = KeyAt(logs, x.label, k)
      BY <1>1, LeafInChain
    <3>2. x.label \in DOMAIN logs.deposits /\ x.label # 0
      BY <1>1, LeafInChain, LogTypes
    <3>3. k # 0 => KeyAt(logs, x.label, k)
                    = [account |-> Owner(logs, x.label), base |-> x.label, index |-> k - 1]
      BY <1>1, <3>2, ChainKeys
    <3>4. k = 0
      BY <2>2, <3>1, <3>2, <3>3 DEF Scope
    <3>5. DepositKey(logs, x.label) = key
      BY <1>1, <2>2, <3>1, <3>2, <3>4, ChainKeys
    <3> QED
      BY <1>7, <3>2, <3>5
  <2>3. KeysDiffer(new.leaves)
    <3>1. new.leaves = Append(logs.leaves, leaf)
      BY <1>4
    <3>2. KeysDiffer(logs.leaves)
      BY <1>1 DEF HistoryOK, LeavesOK, KeysDiffer
    <3>3. \A k \in DOMAIN logs.leaves : KeyOf(logs.leaves[k]) # KeyOf(leaf)
      BY <1>3, <2>2 DEF LeavesOf
    <3> QED
      BY <1>1, <1>3, <3>1, <3>2, <3>3, LogTypes, KeysDifferAppend
  <2> QED
    BY <2>1, <2>3 DEF LeavesOK, KeysDiffer
<1>11. RagequitsOK(new)
  BY <1>1, <1>6 DEF HistoryOK, RagequitsOK
<1>12. SpentIn(new) = SpentIn(logs)
  BY <1>6 DEF SpentIn
<1>13. ChainOK([logs |-> new, spent |-> ch.spent])
  BY <1>1, <1>5, <1>8, <1>9, <1>10, <1>11, <1>12 DEF ChainOK, HistoryOK
<1> QED
  BY <1>4, <1>5, <1>13 DEF new, logs

\* A key under a deposit's label and of its owner follows one of its chain.
LEMMA KeyInChain ==
    ASSUME NEW logs \in PoolLogs, HistoryOK(logs), NEW key \in Keys,
           key.base \in DOMAIN logs.deposits, key.account = Owner(logs, key.base)
    PROVE  /\ key = KeyAt(logs, key.base, key.index + 1)
           /\ Previous(logs, key) = KeyAt(logs, key.base, key.index)
<1> DEFINE n == key.base
           i == key.index
<1>1. /\ i \in Nat /\ key = [account |-> Owner(logs, n), base |-> n, index |-> i]
  BY DEF Keys
<1>2. key = KeyAt(logs, n, i + 1)
  BY <1>1, ChainKeys
<1>3. CASE i = 0
  BY <1>2, <1>3, ChainKeys DEF Previous
<1>4. CASE i # 0
  <2>1. Previous(logs, key) = [key EXCEPT !.index = i - 1]
    BY <1>4 DEF Previous
  <2>2. [key EXCEPT !.index = i - 1] = [account |-> Owner(logs, n), base |-> n, index |-> i - 1]
    BY <1>1
  <2>3. KeyAt(logs, n, i) = [account |-> Owner(logs, n), base |-> n, index |-> i - 1]
    BY <1>1, <1>4, ChainKeys
  <2> QED
    BY <1>2, <2>1, <2>2, <2>3
<1> QED
  BY <1>2, <1>3, <1>4

\* The key of a plan's change note is not yet in the tree: the note before it
\* would have been withdrawn already.
LEMMA NewKeyUnused ==
    ASSUME NEW logs \in PoolLogs, HistoryOK(logs), NEW p \in Plans, PlanOK(p, logs),
           nullifier_hash(p.existing.key) \notin SpentIn(logs)
    PROVE  \A x \in LeavesOf(logs) : KeyOf(x) # p.new_key
<1> DEFINE n == p.new_key.base
           i == p.new_key.index
<1>1. /\ p.new_key \in Keys /\ i \in Nat /\ n \in DOMAIN logs.deposits
      /\ p.new_key.account = Owner(logs, n) /\ p.existing.key = Previous(logs, p.new_key)
  BY DEF PlanOK, Plans, Keys, Owner
<1>2. /\ p.new_key = KeyAt(logs, n, i + 1)
      /\ p.existing.key = KeyAt(logs, n, i)
  BY <1>1, KeyInChain
<1>3. SUFFICES ASSUME NEW x \in LeavesOf(logs), KeyOf(x) = p.new_key PROVE FALSE
  OBVIOUS
<1> HIDE DEF n, i
<1>4. \A j \in 0..((i + 1) - 1) : Spent(logs, n, j)
  BY <1>1, <1>2, <1>3, EarlierSpent
<1>5. HasWithdrawal(logs, nullifier_hash(p.existing.key))
  BY <1>1, <1>2, <1>4 DEF Spent
<1> QED
  BY <1>5 DEF HasWithdrawal, WithdrawalsOf, SpentIn

\* A withdrawal of a note that is still unspent, as a plan has it.
LEMMA WithdrawalKeepsOrder ==
    ASSUME NEW ch, ChainOK(ch), NEW p \in Plans, PlanOK(p, ch.logs),
           nullifier_hash(p.existing.key) \notin ch.spent
    PROVE  /\ ChainOK(AfterWithdrawal(ch, p))
           /\ Continues(AfterWithdrawal(ch, p).logs, ch.logs)
<1> DEFINE logs == ch.logs
           spent == nullifier_hash(p.existing.key)
           M    == Len(logs.withdrawals)
           leaf == NewCommitment(p)
           w    == WithdrawLog(p.withdrawn_value, spent, leaf)
           old  == commitment_hash(p.existing)
           new  == AfterWithdrawal(ch, p).logs
<1>1. /\ logs \in PoolLogs /\ HistoryOK(logs) /\ ch.spent = SpentIn(logs)
      /\ ch = [logs |-> logs, spent |-> ch.spent] /\ ch.spent \subseteq NullifierHashes
      /\ PlanOK(p, logs) /\ spent \notin SpentIn(logs)
  BY DEF ChainOK
<1>2. /\ p.existing \in Commitments /\ p.new_key \in Keys /\ p.withdrawn_value \in Nat
      /\ p.existing.value \in Nat /\ p.existing.label \in Nat /\ p.existing.key \in Keys
      /\ p.withdrawn_value <= p.existing.value
      /\ old \in LeavesOf(logs) /\ p.existing.label \in DOMAIN logs.deposits
      /\ p.existing.key = Previous(logs, p.new_key)
      /\ p.new_key.base = p.existing.label
      /\ p.new_key.account = DepositKey(logs, p.existing.label).account
  BY <1>1 DEF PlanOK, WithdrawCircuit, Plans, Commitments
<1>3. /\ leaf = [value |-> p.existing.value - p.withdrawn_value, label |-> p.existing.label,
                 precommitment |-> precommitment(p.new_key)]
      /\ KeyOf(leaf) = p.new_key /\ leaf.label = p.existing.label
      /\ leaf.value = p.existing.value - p.withdrawn_value
      /\ leaf.value \in Nat
  BY <1>2 DEF NewCommitment, Note, commitment_hash, KeyOf, precommitment
<1>4. /\ leaf \in CommitmentHashes /\ spent \in NullifierHashes
      /\ w \in WithdrawLogs /\ w.value = p.withdrawn_value
      /\ w.spent_nullifier = spent /\ w.new_commitment = leaf
  <2>1. leaf \in CommitmentHashes /\ spent \in NullifierHashes
    BY <1>2, <1>3, HashType DEF CommitmentHashes
  <2> QED
    BY <1>2, <2>1 DEF WithdrawLog, WithdrawLogs
<1>5. /\ KeyOf(old) = p.existing.key /\ old.label = p.existing.label
      /\ old.value = p.existing.value
  BY DEF commitment_hash, KeyOf, precommitment
<1>6. leaf.value < FieldOrder
  <2>1. old.value < FieldOrder
    BY <1>1, <1>2 DEF HistoryOK, LeavesOK
  <2> QED
    BY <1>2, <1>3, <1>5, <2>1, FieldOrderAssumption
<1> HIDE DEF leaf, w, old
<1>7. /\ AfterWithdrawal(ch, p) = [logs |-> new, spent |-> ch.spent \cup {spent}]
      /\ new = [leaves |-> Append(logs.leaves, leaf), deposits |-> logs.deposits,
                withdrawals |-> Append(logs.withdrawals, w), ragequits |-> logs.ragequits]
  <2>1. AfterWithdrawal(ch, p)
          = [logs |-> WithWithdrawal(logs, Append(logs.leaves, leaf), Append(logs.withdrawals, w)),
             spent |-> ch.spent \cup {spent}]
    <3> DEFINE updated == WithWithdrawal(logs, Append(logs.leaves, leaf), Append(logs.withdrawals, w))
    <3>1. PICK s : ch = [logs |-> logs, spent |-> s] /\ ch.spent = s
      BY <1>1
    <3>2. AfterWithdrawal(ch, p) = [[ch EXCEPT !.logs = updated] EXCEPT !.spent = s \cup {spent}]
      BY <3>1 DEF AfterWithdrawal, LeafAdded, WithWithdrawal, leaf, w
    <3> HIDE DEF updated
    <3>3. PICK mid : mid = [ch EXCEPT !.logs = updated]
      OBVIOUS
    <3>4. mid = [logs |-> updated, spent |-> s]
      BY <3>1, <3>3
    <3>5. [mid EXCEPT !.spent = s \cup {spent}] = [logs |-> updated, spent |-> s \cup {spent}]
      BY <3>4
    <3>6. AfterWithdrawal(ch, p) = [mid EXCEPT !.spent = s \cup {spent}]
      BY <3>2, <3>3
    <3> QED
      BY <3>1, <3>5, <3>6 DEF updated
  <2>2. WithWithdrawal(logs, Append(logs.leaves, leaf), Append(logs.withdrawals, w))
          = [leaves |-> Append(logs.leaves, leaf), deposits |-> logs.deposits,
             withdrawals |-> Append(logs.withdrawals, w), ragequits |-> logs.ragequits]
    <3> HIDE DEF logs, new
    <3>1. \A x, y : WithWithdrawal(logs, x, y)
            = [leaves |-> x, deposits |-> logs.deposits, withdrawals |-> y,
               ragequits |-> logs.ragequits]
      BY <1>1, LogsUpdated
    <3> QED
      BY <3>1, Zenon
  <2> QED
    BY <2>1, <2>2
<1> HIDE DEF new, logs, spent
<1>8. new \in PoolLogs /\ Continues(new, logs)
  BY <1>1, <1>4, <1>7, LogTypes, AppendToLog, ContinuesReflexive
     DEF PoolLogs, Continues
<1>9. /\ LeavesOf(new) = LeavesOf(logs) \cup {leaf}
      /\ DOMAIN new.withdrawals = DOMAIN logs.withdrawals \cup {M + 1}
      /\ M + 1 \notin DOMAIN logs.withdrawals
      /\ new.withdrawals[M + 1] = w
      /\ \A m \in DOMAIN logs.withdrawals : new.withdrawals[m] = logs.withdrawals[m]
      /\ new.deposits = logs.deposits /\ new.ragequits = logs.ragequits
  <2>1. new.leaves = Append(logs.leaves, leaf) /\ new.withdrawals = Append(logs.withdrawals, w)
    BY <1>7
  <2>2. /\ DOMAIN new.leaves = DOMAIN logs.leaves \cup {Len(logs.leaves) + 1}
        /\ new.leaves[Len(logs.leaves) + 1] = leaf
        /\ \A k \in DOMAIN logs.leaves : new.leaves[k] = logs.leaves[k]
    BY <1>1, <1>4, <2>1, LogTypes, AppendToLog
  <2>3. /\ DOMAIN new.withdrawals = DOMAIN logs.withdrawals \cup {M + 1}
        /\ M + 1 \notin DOMAIN logs.withdrawals
        /\ new.withdrawals[M + 1] = w
        /\ \A m \in DOMAIN logs.withdrawals : new.withdrawals[m] = logs.withdrawals[m]
    BY <1>1, <1>4, <2>1, LogTypes, AppendToLog
  <2> QED
    BY <1>7, <2>2, <2>3 DEF LeavesOf
<1>10. DepositsOK(new)
  <2>1. DepositsOK(logs)
    BY <1>1 DEF HistoryOK
  <2>2. /\ \A n : DepositKey(new, n) = DepositKey(logs, n)
        /\ LeavesOf(logs) \subseteq LeavesOf(new)
    BY <1>9 DEF DepositKey
  <2>3. \A a, i : Reached(logs, a, gap_limit, i) => Reached(new, a, gap_limit, i)
    BY <1>1, <1>8, ContinuesKeeps
  <2> QED
    BY <1>9, <2>1, <2>2, <2>3 DEF DepositsOK
<1>11. WithdrawalsOK(new)
  <2>1. /\ \A m \in DOMAIN logs.withdrawals : WithdrawalOK(logs, logs.withdrawals[m])
        /\ \A m, n \in DOMAIN logs.withdrawals : m # n =>
              logs.withdrawals[m].spent_nullifier # logs.withdrawals[n].spent_nullifier
        /\ \A m \in DOMAIN logs.withdrawals : logs.withdrawals[m].spent_nullifier # spent
    BY <1>1 DEF HistoryOK, WithdrawalsOK, SpentIn
  <2>2. \A m \in DOMAIN logs.withdrawals : WithdrawalOK(new, logs.withdrawals[m])
    BY <1>1, <1>8, <2>1, WithdrawalKept
  <2>3. WithdrawalOK(new, w)
    <3>1. /\ leaf \in LeavesOf(new) /\ old \in LeavesOf(new)
          /\ leaf.label \in DOMAIN new.deposits
          /\ KeyOf(leaf).base = leaf.label
          /\ KeyOf(leaf).account = DepositKey(new, leaf.label).account
      BY <1>2, <1>3, <1>9 DEF DepositKey
    <3>2. KeyOf(old) = Previous(new, KeyOf(leaf))
      BY <1>1, <1>2, <1>3, <1>5, <1>8, PreviousKept
    <3>3. w.spent_nullifier = nullifier_hash(KeyOf(old))
      BY <1>4, <1>5 DEF spent
    <3>4. old.label = leaf.label /\ old.value = leaf.value + w.value
      BY <1>2, <1>3, <1>4, <1>5
    <3> QED
      BY <1>4, <3>1, <3>2, <3>3, <3>4 DEF WithdrawalOK
  <2> QED
    BY <1>4, <1>9, <2>1, <2>2, <2>3 DEF WithdrawalsOK
<1>12. LeavesOK(new)
  <2>1. \A x \in LeavesOf(new) :
           /\ x.value < FieldOrder
           /\ \/ \E n \in DOMAIN new.deposits : x = new.deposits[n].commitment
              \/ \E m \in DOMAIN new.withdrawals : x = new.withdrawals[m].new_commitment
    <3>1. leaf = new.withdrawals[M + 1].new_commitment
      BY <1>4, <1>9
    <3>2. \A x \in LeavesOf(logs) :
             /\ x.value < FieldOrder
             /\ \/ \E n \in DOMAIN logs.deposits : x = logs.deposits[n].commitment
                \/ \E m \in DOMAIN logs.withdrawals : x = logs.withdrawals[m].new_commitment
      BY <1>1 DEF HistoryOK, LeavesOK
    <3> QED
      BY <1>6, <1>9, <3>1, <3>2
  <2>2. KeysDiffer(new.leaves)
    <3>1. new.leaves = Append(logs.leaves, leaf)
      BY <1>7
    <3>2. KeysDiffer(logs.leaves)
      BY <1>1 DEF HistoryOK, LeavesOK, KeysDiffer
    <3>3. \A x \in LeavesOf(logs) : KeyOf(x) # p.new_key
      BY <1>1, NewKeyUnused DEF spent
    <3>4. \A k \in DOMAIN logs.leaves : KeyOf(logs.leaves[k]) # KeyOf(leaf)
      BY <1>3, <3>3 DEF LeavesOf
    <3> QED
      BY <1>1, <1>4, <3>1, <3>2, <3>4, LogTypes, KeysDifferAppend
  <2> QED
    BY <2>1, <2>2 DEF LeavesOK, KeysDiffer
<1>13. RagequitsOK(new)
  <2>1. \A r \in DOMAIN logs.ragequits :
           LET note == logs.ragequits[r].commitment
           IN  /\ note \in LeavesOf(logs)
               /\ logs.ragequits[r].label = note.label
               /\ nullifier_hash(KeyOf(note)) # spent
               /\ \A m \in DOMAIN logs.withdrawals :
                     logs.withdrawals[m].spent_nullifier # nullifier_hash(KeyOf(note))
    BY <1>1 DEF HistoryOK, RagequitsOK, SpentIn
  <2> QED
    BY <1>4, <1>9, <2>1 DEF RagequitsOK
<1>14. SpentIn(new) = SpentIn(logs) \cup {spent}
  BY <1>4, <1>9 DEF SpentIn
<1>15. ChainOK([logs |-> new, spent |-> ch.spent \cup {spent}])
  BY <1>1, <1>4, <1>8, <1>10, <1>11, <1>12, <1>13, <1>14 DEF ChainOK, HistoryOK
<1> QED
  BY <1>7, <1>8, <1>15 DEF new, logs

\* A ragequit of a note of the tree that is not spent.
LEMMA RagequitKeepsOrder ==
    ASSUME NEW ch, ChainOK(ch), NEW note \in Commitments, AcceptsRagequit(ch, note)
    PROVE  /\ ChainOK(AfterRagequit(ch, note))
           /\ Continues(AfterRagequit(ch, note).logs, ch.logs)
<1> DEFINE logs == ch.logs
           spent == nullifier_hash(note.key)
           R    == Len(logs.ragequits)
           leaf == commitment_hash(note)
           rage == RagequitLog(leaf, note.label, note.value)
           new  == AfterRagequit(ch, note).logs
<1>1. /\ logs \in PoolLogs /\ HistoryOK(logs) /\ ch.spent = SpentIn(logs)
      /\ ch = [logs |-> logs, spent |-> ch.spent] /\ ch.spent \subseteq NullifierHashes
      /\ leaf \in LeavesOf(logs) /\ spent \notin SpentIn(logs)
  BY DEF ChainOK, AcceptsRagequit, LeavesOf
<1>2. /\ leaf \in CommitmentHashes /\ leaf.label = note.label /\ KeyOf(leaf) = note.key
      /\ spent \in NullifierHashes
      /\ rage \in RagequitLogs /\ rage.commitment = leaf /\ rage.label = note.label
  <2>1. leaf \in CommitmentHashes /\ spent \in NullifierHashes
    BY HashType DEF Commitments
  <2>2. leaf.label = note.label /\ KeyOf(leaf) = note.key
    BY CommitmentInjective
  <2> HIDE DEF leaf
  <2> QED
    BY <2>1, <2>2 DEF Commitments, RagequitLog, RagequitLogs
<1> HIDE DEF leaf, rage, spent
<1>3. /\ AfterRagequit(ch, note) = [logs |-> new, spent |-> ch.spent \cup {spent}]
      /\ new = [leaves |-> logs.leaves, deposits |-> logs.deposits,
                withdrawals |-> logs.withdrawals, ragequits |-> Append(logs.ragequits, rage)]
  <2> DEFINE updated == WithRagequit(logs, Append(logs.ragequits, rage))
  <2>1. PICK s : ch = [logs |-> logs, spent |-> s] /\ ch.spent = s
    BY <1>1
  <2>2. AfterRagequit(ch, note) = [[ch EXCEPT !.logs = updated] EXCEPT !.spent = s \cup {spent}]
    BY <2>1 DEF AfterRagequit, WithRagequit, leaf, rage, spent
  <2>3. updated = [leaves |-> logs.leaves, deposits |-> logs.deposits,
                   withdrawals |-> logs.withdrawals, ragequits |-> Append(logs.ragequits, rage)]
    <3> HIDE DEF logs
    <3>1. \A x : WithRagequit(logs, x)
            = [leaves |-> logs.leaves, deposits |-> logs.deposits,
               withdrawals |-> logs.withdrawals, ragequits |-> x]
      BY <1>1, LogsUpdated
    <3> QED
      BY <3>1, Zenon
  <2> HIDE DEF updated
  <2>4. PICK mid : mid = [ch EXCEPT !.logs = updated]
    OBVIOUS
  <2>5. mid = [logs |-> updated, spent |-> s]
    BY <2>1, <2>4
  <2>6. [mid EXCEPT !.spent = s \cup {spent}] = [logs |-> updated, spent |-> s \cup {spent}]
    BY <2>5
  <2>7. AfterRagequit(ch, note) = [mid EXCEPT !.spent = s \cup {spent}]
    BY <2>2, <2>4
  <2> QED
    BY <2>1, <2>3, <2>6, <2>7
<1> HIDE DEF new, logs
<1>4. new \in PoolLogs /\ Continues(new, logs)
  BY <1>1, <1>2, <1>3, LogTypes, AppendToLog, ContinuesReflexive
     DEF PoolLogs, Continues
<1>5. /\ new.leaves = logs.leaves /\ LeavesOf(new) = LeavesOf(logs)
      /\ new.deposits = logs.deposits /\ new.withdrawals = logs.withdrawals
      /\ DOMAIN new.ragequits = DOMAIN logs.ragequits \cup {R + 1}
      /\ new.ragequits[R + 1] = rage
      /\ \A r \in DOMAIN logs.ragequits : new.ragequits[r] = logs.ragequits[r]
      /\ R + 1 \notin DOMAIN logs.ragequits
  BY <1>1, <1>2, <1>3, LogTypes, AppendToLog DEF LeavesOf
<1>6. DepositsOK(new)
  <2>1. DepositsOK(logs)
    BY <1>1 DEF HistoryOK
  <2>2. \A n : DepositKey(new, n) = DepositKey(logs, n)
    BY <1>5 DEF DepositKey
  <2>3. \A a, i : Reached(logs, a, gap_limit, i) => Reached(new, a, gap_limit, i)
    BY <1>1, <1>4, ContinuesKeeps
  <2> QED
    BY <1>5, <2>1, <2>2, <2>3 DEF DepositsOK
<1>7. WithdrawalsOK(new)
  <2>1. \A m \in DOMAIN logs.withdrawals : WithdrawalOK(logs, logs.withdrawals[m])
    BY <1>1 DEF HistoryOK, WithdrawalsOK
  <2>2. \A m \in DOMAIN logs.withdrawals : WithdrawalOK(new, logs.withdrawals[m])
    BY <1>1, <1>4, <2>1, WithdrawalKept
  <2> QED
    BY <1>1, <1>5, <2>2 DEF HistoryOK, WithdrawalsOK
<1>8. LeavesOK(new)
  BY <1>1, <1>5 DEF HistoryOK, LeavesOK
<1>9. RagequitsOK(new)
  <2>1. /\ leaf \in LeavesOf(new) /\ rage.label = leaf.label
        /\ \A m \in DOMAIN new.withdrawals :
              new.withdrawals[m].spent_nullifier # nullifier_hash(KeyOf(leaf))
    BY <1>1, <1>2, <1>5 DEF SpentIn, spent
  <2> QED
    BY <1>1, <1>2, <1>5, <2>1 DEF HistoryOK, RagequitsOK
<1>10. SpentIn(new) = SpentIn(logs) \cup {spent}
  BY <1>2, <1>5 DEF SpentIn, spent
<1>11. ChainOK([logs |-> new, spent |-> ch.spent \cup {spent}])
  BY <1>1, <1>2, <1>4, <1>6, <1>7, <1>8, <1>9, <1>10 DEF ChainOK, HistoryOK
<1> QED
  BY <1>3, <1>4, <1>11 DEF new, logs

-----------------------------------------------------------------------------
(* Every step keeps the invariant.                                         *)

\* What build_withdrawal makes of the spendable note of a recovered account.
LEMMA PlanBuilt ==
    ASSUME NEW logs \in PoolLogs, HistoryOK(logs), NEW n \in DOMAIN logs.deposits,
           n \notin RagequitLabels(logs),
           NEW labels \in SUBSET Nat, n \in labels,
           NEW withdrawn \in WithdrawAmounts, withdrawn <= NoteAt(logs, n, Length(logs, n)).value,
           NEW p,
           p = [withdrawn_value |-> withdrawn, state_root |-> logs.leaves,
                asp_root |-> labels, existing |-> NoteAt(logs, n, Length(logs, n)),
                new_key |-> withdrawal_secrets(Owner(logs, n), n, Length(logs, n)),
                new_note |-> Note(NoteAt(logs, n, Length(logs, n)).value - withdrawn, n,
                                  withdrawal_secrets(Owner(logs, n), n, Length(logs, n)))]
    PROVE  /\ p \in Plans
           /\ PlanOK(p, logs)
           /\ nullifier_hash(p.existing.key) \notin SpentIn(logs)
<1> DEFINE c    == Length(logs, n)
           note == NoteAt(logs, n, c)
           key  == withdrawal_secrets(Owner(logs, n), n, c)
<1>0. withdrawn \in Nat
  BY AmountType
<1>1. c \in Nat /\ c \in 0..c
  BY LengthIsFirstUnspent
<1>2. GoodNote(logs, n, c)
  BY <1>1, ChainNotes
<1>3. /\ n \in Nat \ {0} /\ Owner(logs, n) \in Accounts
      /\ KeyAt(logs, n, c) \in Keys /\ KeyAt(logs, n, c + 1) \in Keys
      /\ KeyAt(logs, n, c + 1) # KeyAt(logs, n, c)
  <2>1. c \in Nat /\ c + 1 \in Nat /\ c + 1 # c
    BY <1>1
  <2> HIDE DEF c
  <2>2. /\ \A k \in Nat : KeyAt(logs, n, k) \in Keys
        /\ \A j, k \in Nat : KeyAt(logs, n, j) = KeyAt(logs, n, k) => j = k
    BY ChainKeys
  <2> QED
    BY <2>1, <2>2, LogTypes, DepositOK
<1>4. /\ note \in Commitments /\ note.label = n /\ note.key = KeyAt(logs, n, c)
      /\ note.value \in Nat /\ commitment_hash(note) \in LeavesOf(logs)
  BY <1>2, <1>3 DEF GoodNote, Note, Commitments
<1>5. /\ key = [account |-> Owner(logs, n), base |-> n, index |-> c]
      /\ key = KeyAt(logs, n, c + 1)
  BY <1>1, ChainKeys DEF withdrawal_secrets
<1>6. Previous(logs, key) = KeyAt(logs, n, c)
  BY <1>1, <1>3, <1>5, KeyInChain
<1> HIDE DEF c, note, key
<1>7. p = [withdrawn_value |-> withdrawn, state_root |-> logs.leaves, asp_root |-> labels,
           existing |-> note, new_key |-> key, new_note |-> Note(note.value - withdrawn, n, key)]
  BY DEF c, note, key
<1>8. Note(note.value - withdrawn, n, key) \in Commitments
  <2>1. note.value - withdrawn \in Nat
    BY <1>0, <1>4 DEF c, note
  <2> QED
    BY <1>3, <1>5, <2>1 DEF Note, Commitments
<1>9. p \in Plans
  BY <1>0, <1>3, <1>4, <1>5, <1>7, <1>8, LogTypes DEF Plans
<1>10. WithdrawCircuit(p)
  <2>1. \E k \in DOMAIN logs.leaves : logs.leaves[k] = commitment_hash(note)
    BY <1>4 DEF LeavesOf
  <2>2. withdrawn <= note.value
    BY DEF note, c
  <2> QED
    BY <1>3, <1>4, <1>5, <1>7, <2>1, <2>2 DEF WithdrawCircuit
<1>11. PlanOK(p, logs)
  <2>1. StartsWith(logs.leaves, logs.leaves)
    BY LogTypes DEF StartsWith
  <2> QED
    BY <1>4, <1>5, <1>6, <1>7, <1>10, <2>1 DEF PlanOK, Owner
<1>12. nullifier_hash(note.key) \notin SpentIn(logs)
  BY <1>4, TipUnspent DEF c
<1> QED
  BY <1>7, <1>9, <1>11, <1>12

\* The current note of a recovered account is typed, and a leaf of the tree.
LEMMA CurrentNoteType ==
    ASSUME NEW logs \in PoolLogs, HistoryOK(logs), NEW a,
           NEW acct \in RecoveredAccounts(logs, a, gap_limit)
    PROVE  CurrentNote(acct) \in Commitments
<1>1. PICK n \in DOMAIN logs.deposits : acct = AccountAt(logs, n)
  BY RecoveredAccountOf
<1>2. Length(logs, n) \in Nat /\ Length(logs, n) \in 0..Length(logs, n)
  BY LengthIsFirstUnspent
<1>3. GoodNote(logs, n, Length(logs, n)) /\ KeyAt(logs, n, Length(logs, n)) \in Keys
  BY <1>2, ChainNotes, ChainKeys
<1>4. NoteAt(logs, n, Length(logs, n)) \in Commitments
  BY <1>3, LogTypes DEF GoodNote, Note, Commitments
<1> QED
  BY <1>1, <1>4, AccountFields

LEMMA NoPlanType == ASSUME NEW d \in Devices PROVE NoPlan \in Plans
<1>1. (CHOOSE a \in Accounts : TRUE) \in Accounts
  BY DevicesAssumption
<1>2. deposit_secrets(CHOOSE a \in Accounts : TRUE, 0) \in Keys
  BY <1>1 DEF deposit_secrets, Keys, Scope
<1>3. NoNote \in Commitments /\ NoNote.key \in Keys
  BY <1>2 DEF NoNote, Note, Commitments, Scope
<1>4. <<>> \in Seq(CommitmentHashes)
  OBVIOUS
<1> QED
  BY <1>3, <1>4 DEF NoPlan, Plans

LEMMA EmptyOK ==
    /\ EmptyLogs \in PoolLogs /\ HistoryOK(EmptyLogs)
    /\ \A logs \in PoolLogs : Continues(logs, EmptyLogs)
<1>1. EmptyLogs \in PoolLogs /\ HistoryOK(EmptyLogs)
  BY GenesisOK DEF ChainOK, Genesis
<1>2. ASSUME NEW logs \in PoolLogs PROVE Continues(logs, EmptyLogs)
  BY LogTypes DEF Continues, StartsWith, EmptyLogs
<1> QED
  BY <1>1, <1>2

LEMMA InitInv == Init => WalletInv
<1> SUFFICES ASSUME Init PROVE WalletInv
  OBVIOUS
<1>1. ChainOK(chain) /\ chain.logs = EmptyLogs
  BY GenesisOK DEF Init, Genesis
<1>2. TypeOK
  <2>1. \A d \in Devices : EmptyLogs \in PoolLogs /\ NoPlan \in Plans
    BY EmptyOK, NoPlanType
  <2>2. aspUpdates \in 0..MaxAspUpdates
    BY BoundsAssumption DEF Init
  <2> QED
    BY <1>1, <2>1, <2>2 DEF Init, TypeOK, ChainOK, Stages
<1>3. DevicesOK
  BY <1>1, EmptyOK DEF Init, DevicesOK
<1>4. PendingOK
  BY DEF Init, PendingOK
<1> QED
  BY <1>1, <1>2, <1>3, <1>4 DEF WalletInv, ChainOK, Init

\* A step of the chain: what the devices know and the plans in flight stay
\* as good as they were.
LEMMA ChainStepInv ==
    ASSUME WalletInv, ChainOK(chain'), Continues(chain'.logs, chain.logs),
           pending' \subseteq pending, UNCHANGED <<asp, aspUpdates, deviceVars>>
    PROVE  WalletInv'
<1>1. /\ TypeOK /\ DevicesOK /\ PendingOK
      /\ chain.logs \in PoolLogs /\ chain'.logs \in PoolLogs
  BY DEF WalletInv, TypeOK, ChainOK
<1>2. TypeOK'
  BY <1>1 DEF TypeOK, ChainOK, deviceVars
<1>3. DevicesOK'
  <2>1. \A d \in Devices : view[d] \in PoolLogs /\ Continues(chain.logs, view[d])
    BY <1>1 DEF DevicesOK, TypeOK
  <2>2. \A d \in Devices : Continues(chain'.logs, view[d])
    BY <1>1, <2>1, ContinuesTransitive
  <2> QED
    BY <1>1, <2>2 DEF DevicesOK, deviceVars
<1>4. PendingOK'
  <2>1. \A a, i : Reached(chain.logs, a, gap_limit, i) => Reached(chain'.logs, a, gap_limit, i)
    BY <1>1, ContinuesKeeps
  <2>2. \A p \in Plans : PlanOK(p, chain.logs) => PlanOK(p, chain'.logs)
    BY <1>1, PlanKept
  <2>3. \A tx \in pending : tx.kind = "withdraw" => tx.plan \in Plans
    BY <1>1 DEF TypeOK, Transactions
  <2> QED
    BY <1>1, <2>1, <2>2, <2>3 DEF PendingOK
<1>5. (asp \subseteq DOMAIN chain.logs.deposits)'
  <2>1. DOMAIN chain.logs.deposits \subseteq DOMAIN chain'.logs.deposits
    BY <1>1, ContinuesKeeps
  <2> QED
    BY <2>1 DEF WalletInv
<1> QED
  BY <1>2, <1>3, <1>4, <1>5 DEF WalletInv, ChainOK

\* A step of a device, which leaves the chain alone.
LEMMA DeviceStepInv ==
    ASSUME WalletInv, UNCHANGED <<chain, asp>>, TypeOK', PendingOK',
           NEW d \in Devices,
           \A e \in Devices : e # d =>
               view'[e] = view[e] /\ stage'[e] = stage[e] /\ plan'[e] = plan[e],
           HistoryOK(view'[d]), Continues(chain.logs, view'[d]),
           stage'[d] = "planned" =>
              /\ PlanOK(plan'[d], view'[d])
              /\ plan'[d].state_root = view'[d].leaves
              /\ nullifier_hash(plan'[d].existing.key) \notin SpentIn(view'[d])
    PROVE  WalletInv'
<1>1. DevicesOK'
  BY DEF WalletInv, DevicesOK
<1> QED
  BY <1>1 DEF WalletInv

\* A device that is done, with or without a transaction in flight.
LEMMA BackToIdleInv ==
    ASSUME WalletInv, NEW d \in Devices, BackToIdle(d),
           UNCHANGED <<chain, asp, aspUpdates>>,
           pending' \subseteq Transactions, PendingOK'
    PROVE  WalletInv'
<1>1. TypeOK
  BY DEF WalletInv
<1>2. EmptyLogs \in PoolLogs /\ NoPlan \in Plans
  BY EmptyOK, NoPlanType
<1>3. TypeOK'
  BY <1>1, <1>2 DEF BackToIdle, TypeOK, Stages
<1>4. /\ view'[d] = EmptyLogs /\ stage'[d] = "idle"
      /\ \A e \in Devices : e # d =>
            view'[e] = view[e] /\ stage'[e] = stage[e] /\ plan'[e] = plan[e]
  BY <1>1 DEF BackToIdle, TypeOK
<1>5. HistoryOK(view'[d]) /\ Continues(chain.logs, view'[d])
  BY <1>1, <1>4, EmptyOK DEF TypeOK
<1> QED
  BY <1>3, <1>4, <1>5, DeviceStepInv

\* The last index a device used, if it used one.
LEMMA LastIndexRecovered ==
    ASSUME NEW d \in Devices, view[d] \in PoolLogs
    PROVE  \/ LastIndex(d) = -1
           \/ /\ LastIndex(d) \in Nat
              /\ LastIndex(d) \in RecoveredIndices(view[d], accountOf[d], gap_limit)
<1> DEFINE logs == view[d]
           used == {acct.deposit_index : acct \in Accounts_(d)}
           Used == RecoveredIndices(logs, accountOf[d], gap_limit)
           bound == (Len(logs.deposits) + 1) * gap_limit - 1
<1>1. used = Used
  <2>1. \A j : RecoveredAccount(logs, accountOf[d], j).deposit_index = j
    BY DEF RecoveredAccount, PoolAccount
  <2> QED
    BY <2>1 DEF Accounts_, RecoveredAccounts
<1>2. CASE used = {}
  BY <1>2 DEF LastIndex
<1>3. CASE used # {}
  <2>1. Used \subseteq 0..bound
    BY DEF RecoveredIndices
  <2>2. bound \in Int
    <3>1. Len(logs.deposits) \in Nat
      BY LogTypes
    <3> QED
      BY WalletGapLimitAssumption, <3>1
  <2> HIDE DEF bound
  <2>3. Used \subseteq Nat /\ \A j \in Used : j <= bound
    BY <2>1, <2>2
  <2>4. bound \in Nat
    BY <1>1, <1>3, <2>2, <2>3
  <2> HIDE DEF Used
  <2>5. \E m \in Used : \A j \in Used : j <= m
    BY <1>1, <1>3, <2>3, <2>4, GreatestElement
  <2>6. LastIndex(d) \in Used
    BY <1>1, <1>3, <2>5 DEF LastIndex
  <2> QED
    BY <2>3, <2>6 DEF Used
<1> QED
  BY <1>2, <1>3

\* The indices a wallet may deposit at: recovery tries them all.
LEMMA NextIndexReached ==
    ASSUME NEW d \in Devices, view[d] \in PoolLogs, NEW i \in Nat,
           i <= LastIndex(d) + gap_limit
    PROVE  Reached(view[d], accountOf[d], gap_limit, i)
<1> DEFINE logs == view[d]
           a    == accountOf[d]
           last == LastIndex(d)
<1>1. gap_limit \in Nat \ {0} /\ i <= last + gap_limit
  BY WalletGapLimitAssumption
<1>2. CASE last = -1
  <2> HIDE DEF last
  <2>1. i < gap_limit
    BY <1>1, <1>2
  <2> QED
    BY <1>1, <2>1 DEF Reached
<1>3. CASE last \in Nat /\ last \in RecoveredIndices(logs, a, gap_limit)
  <2>1. /\ HasDeposit(logs, deposit_precommitment(a, last))
        /\ Reached(logs, a, gap_limit, last)
    BY <1>3 DEF RecoveredIndices
  <2> HIDE DEF last, logs, a
  <2>2. ASSUME NEW first \in 0..(i - gap_limit)
        PROVE  \E j \in first..(first + gap_limit - 1) :
                  HasDeposit(logs, deposit_precommitment(a, j))
    <3>1. first \in Nat /\ first <= last
      BY <1>1, <1>3
    <3>2. CASE first \in 0..(last - gap_limit)
      BY <2>1, <3>2 DEF Reached
    <3>3. CASE first \notin 0..(last - gap_limit)
      <4>1. last \in first..(first + gap_limit - 1)
        BY <1>1, <1>3, <3>1, <3>3
      <4> QED
        BY <2>1, <4>1
    <3> QED
      BY <3>2, <3>3
  <2> QED
    BY <2>2 DEF Reached, logs, a
<1> QED
  BY <1>2, <1>3, LastIndexRecovered

\* What the pool mines keeps its logs in order, and adds to them.
LEMMA MinedInOrder ==
    ASSUME WalletInv, NEW tx \in pending,
           MineDeposit(tx) \/ MineWithdrawal(tx) \/ MineRagequit(tx)
    PROVE  /\ ChainOK(chain') /\ Continues(chain'.logs, chain.logs)
           /\ pending' \subseteq pending /\ UNCHANGED <<asp, aspUpdates, deviceVars>>
<1>0. TypeOK /\ PendingOK /\ ChainOK(chain) /\ tx \in Transactions
  BY DEF WalletInv, TypeOK, ChainOK
<1>1. CASE MineDeposit(tx)
  <2>1. /\ tx.kind = "deposit"
        /\ AcceptsDeposit(chain, tx.pre) /\ chain' = AfterDeposit(chain, tx.pre, tx.value)
        /\ pending' \subseteq pending /\ UNCHANGED <<asp, aspUpdates, deviceVars>>
    BY <1>1 DEF MineDeposit, Accepts
  <2>2. tx.pre \in Precommitments /\ tx.value \in DepositAmounts
    BY <1>0, <2>1 DEF Transactions
  <2>3. /\ tx.pre.nullifier_and_secret.base = Scope
        /\ Reached(chain.logs, tx.pre.nullifier_and_secret.account, gap_limit,
                   tx.pre.nullifier_and_secret.index)
    BY <1>0, <2>1 DEF PendingOK
  <2> QED
    BY <1>0, <2>1, <2>2, <2>3, DepositKeepsOrder
<1>2. CASE MineWithdrawal(tx)
  <2>1. /\ tx.kind = "withdraw"
        /\ AcceptsWithdrawal(chain, asp, tx.plan) /\ chain' = AfterWithdrawal(chain, tx.plan)
        /\ pending' \subseteq pending /\ UNCHANGED <<asp, aspUpdates, deviceVars>>
    BY <1>2 DEF MineWithdrawal, Accepts
  <2>2. tx.plan \in Plans /\ PlanOK(tx.plan, chain.logs)
    BY <1>0, <2>1 DEF Transactions, PendingOK
  <2> QED
    BY <1>0, <2>1, <2>2, WithdrawalKeepsOrder DEF AcceptsWithdrawal
<1>3. CASE MineRagequit(tx)
  <2>1. /\ tx.kind = "ragequit"
        /\ AcceptsRagequit(chain, tx.note) /\ chain' = AfterRagequit(chain, tx.note)
        /\ pending' \subseteq pending /\ UNCHANGED <<asp, aspUpdates, deviceVars>>
    BY <1>3 DEF MineRagequit, Accepts
  <2>2. tx.note \in Commitments
    BY <1>0, <2>1 DEF Transactions
  <2> QED
    BY <1>0, <2>1, <2>2, RagequitKeepsOrder
<1> QED
  BY <1>1, <1>2, <1>3

LEMMA StepInv == WalletInv /\ [Next]_vars => WalletInv'
<1> SUFFICES ASSUME WalletInv, [Next]_vars PROVE WalletInv'
  OBVIOUS
<1>0. /\ TypeOK /\ DevicesOK /\ PendingOK /\ ChainOK(chain)
      /\ chain.logs \in PoolLogs /\ HistoryOK(chain.logs)
      /\ \A d \in Devices : view[d] \in PoolLogs /\ HistoryOK(view[d])
                              /\ Continues(chain.logs, view[d])
  BY DEF WalletInv, TypeOK, ChainOK, DevicesOK
<1>1. ASSUME NEW tx \in pending, MineDeposit(tx) PROVE WalletInv'
  BY <1>1, MinedInOrder, ChainStepInv
<1>2. ASSUME NEW tx \in pending, MineWithdrawal(tx) PROVE WalletInv'
  BY <1>2, MinedInOrder, ChainStepInv
<1>3. ASSUME NEW tx \in pending, MineRagequit(tx) PROVE WalletInv'
  BY <1>3, MinedInOrder, ChainStepInv
<1>4. ASSUME NEW tx \in pending, Drop(tx) PROVE WalletInv'
  BY <1>0, <1>4, ChainStepInv, ContinuesReflexive DEF Drop
<1>5. ASSUME NEW i \in DOMAIN chain.logs.deposits, PublishAsp(chain.logs.deposits[i].label)
      PROVE  WalletInv'
  <2>1. chain.logs.deposits[i].label \in Nat /\ chain.logs.deposits[i].label = i
    BY <1>0, DepositType, DepositOK
  <2>2. TypeOK'
    <3>1. asp' \subseteq Nat
      BY <1>0, <1>5, <2>1 DEF PublishAsp, TypeOK
    <3>2. aspUpdates' \in 0..MaxAspUpdates
      <4>1. aspUpdates + 1 \in 0..MaxAspUpdates
        BY <1>0, <1>5, BoundsAssumption DEF PublishAsp, TypeOK
      <4> QED
        BY <1>5, <4>1 DEF PublishAsp
    <3> QED
      BY <1>0, <1>5, <3>1, <3>2 DEF PublishAsp, TypeOK, deviceVars
  <2>3. (asp \subseteq DOMAIN chain.logs.deposits)'
    BY <1>5, <2>1 DEF PublishAsp, WalletInv
  <2> QED
    BY <1>0, <1>5, <2>2, <2>3 DEF PublishAsp, WalletInv, DevicesOK, PendingOK, deviceVars
<1>6. ASSUME NEW d \in Devices, DeviceStep(d) PROVE WalletInv'
  <2>0. pending' = pending /\ chain' = chain => PendingOK'
    BY <1>0 DEF PendingOK
  <2>1. CASE Scan(d)
    <3>1. TypeOK'
      BY <1>0, <2>1 DEF Scan, TypeOK, Stages
    <3>2. /\ view'[d] = chain.logs /\ stage'[d] = "scanned"
          /\ \A e \in Devices : e # d =>
                view'[e] = view[e] /\ stage'[e] = stage[e] /\ plan'[e] = plan[e]
      BY <1>0, <2>1 DEF Scan, TypeOK
    <3>3. Continues(chain.logs, view'[d]) /\ HistoryOK(view'[d])
      BY <1>0, <3>2, ContinuesReflexive
    <3> QED
      BY <2>0, <2>1, <3>1, <3>2, <3>3, DeviceStepInv DEF Scan
  <2>2. CASE VerifyStateRoot(d)
    <3>1. CASE stage' = [stage EXCEPT ![d] = "rooted"] /\ UNCHANGED <<view, fetched, plan>>
      <4>1. TypeOK'
        BY <1>0, <2>2, <3>1 DEF VerifyStateRoot, TypeOK, Stages
      <4>2. /\ stage'[d] = "rooted" /\ view' = view /\ plan' = plan
            /\ \A e \in Devices : e # d => stage'[e] = stage[e]
        BY <1>0, <3>1 DEF TypeOK
      <4> QED
        BY <1>0, <2>0, <2>2, <4>1, <4>2, DeviceStepInv DEF VerifyStateRoot
    <3>2. CASE BackToIdle(d)
      BY <1>0, <2>0, <2>2, <3>2, BackToIdleInv DEF VerifyStateRoot, TypeOK
    <3> QED
      BY <2>2, <3>1, <3>2 DEF VerifyStateRoot
  <2>3. CASE FetchAsp(d)
    <3>1. TypeOK'
      BY <1>0, <2>3 DEF FetchAsp, TypeOK, Stages
    <3>2. /\ stage'[d] = "fetched" /\ view' = view /\ plan' = plan
          /\ \A e \in Devices : e # d => stage'[e] = stage[e]
      BY <1>0, <2>3 DEF FetchAsp, TypeOK
    <3> QED
      BY <1>0, <2>0, <2>3, <3>1, <3>2, DeviceStepInv DEF FetchAsp
  <2>4. CASE VerifyAspRoot(d)
    <3>1. CASE stage' = [stage EXCEPT ![d] = "verified"] /\ UNCHANGED <<view, fetched, plan>>
      <4>1. TypeOK'
        BY <1>0, <2>4, <3>1 DEF VerifyAspRoot, TypeOK, Stages
      <4>2. /\ stage'[d] = "verified" /\ view' = view /\ plan' = plan
            /\ \A e \in Devices : e # d => stage'[e] = stage[e]
        BY <1>0, <3>1 DEF TypeOK
      <4> QED
        BY <1>0, <2>0, <2>4, <4>1, <4>2, DeviceStepInv DEF VerifyAspRoot
    <3>2. CASE BackToIdle(d)
      BY <1>0, <2>0, <2>4, <3>2, BackToIdleInv DEF VerifyAspRoot, TypeOK
    <3> QED
      BY <2>4, <3>1, <3>2 DEF VerifyAspRoot
  <2>5. ASSUME NEW acct \in Accounts_(d), NEW withdrawn \in WithdrawAmounts,
               BuildWithdrawal(d, acct, withdrawn)
        PROVE  WalletInv'
    <3> DEFINE logs == view[d]
               p    == PlanFor(d, CurrentNote(acct), child_index(acct), withdrawn)
    <3>1. PICK n \in DOMAIN logs.deposits : Owner(logs, n) = accountOf[d] /\ acct = AccountAt(logs, n)
      BY <1>0, RecoveredAccountOf DEF Accounts_
    <3>2. /\ CurrentNote(acct) = NoteAt(logs, n, Length(logs, n))
          /\ Len(acct.children) = Length(logs, n)
          /\ acct.ragequit = (n \in RagequitLabels(logs))
      BY <1>0, <3>1, AccountFields
    <3>3. Length(logs, n) \in Nat /\ Length(logs, n) \in 0..Length(logs, n)
      BY <1>0, LengthIsFirstUnspent
    <3>4. NoteAt(logs, n, Length(logs, n)).label = n
      BY <1>0, <3>3, ChainNotes DEF GoodNote, Note
    <3>5. /\ n \notin RagequitLabels(logs)
          /\ n \in fetched[d]
          /\ withdrawn <= NoteAt(logs, n, Length(logs, n)).value
      BY <2>5, <3>2, <3>4 DEF BuildWithdrawal, IsSpendable, WithdrawalChecks
    <3>6. fetched[d] \in SUBSET Nat
      BY <1>0 DEF TypeOK
    <3>7. p = [withdrawn_value |-> withdrawn, state_root |-> logs.leaves,
               asp_root |-> fetched[d], existing |-> NoteAt(logs, n, Length(logs, n)),
               new_key |-> withdrawal_secrets(Owner(logs, n), n, Length(logs, n)),
               new_note |-> Note(NoteAt(logs, n, Length(logs, n)).value - withdrawn, n,
                                 withdrawal_secrets(Owner(logs, n), n, Length(logs, n)))]
      BY <3>1, <3>2, <3>4 DEF PlanFor, child_index
    <3> HIDE DEF p
    <3>8. /\ p \in Plans /\ PlanOK(p, logs)
          /\ nullifier_hash(p.existing.key) \notin SpentIn(logs)
      BY <1>0, <3>5, <3>6, <3>7, PlanBuilt
    <3>9. p.state_root = logs.leaves
      BY <3>7
    <3>10. /\ plan' = [plan EXCEPT ![d] = p] /\ stage' = [stage EXCEPT ![d] = "planned"]
           /\ UNCHANGED <<chain, asp, aspUpdates, pending, view, fetched>>
      BY <2>5 DEF BuildWithdrawal, p
    <3>11. TypeOK'
      BY <1>0, <3>8, <3>10 DEF TypeOK, Stages
    <3>12. /\ plan'[d] = p /\ view' = view
           /\ \A e \in Devices : e # d => stage'[e] = stage[e] /\ plan'[e] = plan[e]
      BY <1>0, <3>10 DEF TypeOK
    <3> QED
      BY <1>0, <2>0, <3>8, <3>9, <3>10, <3>11, <3>12, DeviceStepInv
  <2>6. CASE SubmitWithdrawal(d)
    <3> DEFINE tx == [kind |-> "withdraw", plan |-> plan[d]]
    <3>1. /\ pending' = pending \cup {tx} /\ BackToIdle(d) /\ stage[d] = "planned"
          /\ UNCHANGED <<chain, asp, aspUpdates>>
      BY <2>6 DEF SubmitWithdrawal, Submit
    <3>2. tx \in Transactions
      BY <1>0 DEF TypeOK, Transactions
    <3>3. PlanOK(tx.plan, chain.logs)
      <4>1. PlanOK(plan[d], view[d]) /\ plan[d] \in Plans
        BY <1>0, <3>1 DEF DevicesOK, TypeOK
      <4> QED
        BY <1>0, <4>1, PlanKept
    <3>4. pending' \subseteq Transactions
      BY <1>0, <3>1, <3>2 DEF TypeOK
    <3>5. PendingOK'
      BY <1>0, <3>1, <3>3 DEF PendingOK
    <3> QED
      BY <3>1, <3>4, <3>5, BackToIdleInv
  <2>7. ASSUME NEW value \in DepositAmounts,
               NEW index \in (LastIndex(d) + 1)..(LastIndex(d) + gap_limit),
               Deposit(d, value, index)
        PROVE  WalletInv'
    <3> DEFINE pre == deposit_precommitment(accountOf[d], index)
               tx  == [kind |-> "deposit", value |-> value, pre |-> pre]
    <3>1. /\ pending' = pending \cup {tx} /\ BackToIdle(d)
          /\ UNCHANGED <<chain, asp, aspUpdates>>
      BY <2>7 DEF Deposit, Submit
    <3>2. index \in Nat /\ index <= LastIndex(d) + gap_limit
      <4>1. LastIndex(d) \in Int /\ LastIndex(d) >= -1
        BY <1>0, LastIndexRecovered
      <4> QED
        BY <2>7, <4>1, WalletGapLimitAssumption DEF Deposit
    <3>3. /\ pre.nullifier_and_secret
               = [account |-> accountOf[d], base |-> Scope, index |-> index]
          /\ pre \in Precommitments
      BY <3>2, DevicesAssumption
         DEF deposit_precommitment, precommitment, deposit_secrets, Precommitments, Keys, Scope
    <3>4. Reached(chain.logs, accountOf[d], gap_limit, index)
      <4>1. Reached(view[d], accountOf[d], gap_limit, index)
        BY <1>0, <3>2, NextIndexReached
      <4> QED
        BY <1>0, <4>1, ContinuesKeeps
    <3> HIDE DEF pre
    <3>5. tx \in Transactions
      BY <3>3 DEF Transactions
    <3>6. pending' \subseteq Transactions
      BY <1>0, <3>1, <3>5 DEF TypeOK
    <3>7. PendingOK'
      BY <1>0, <3>1, <3>3, <3>4 DEF PendingOK
    <3> QED
      BY <3>1, <3>6, <3>7, BackToIdleInv
  <2>8. ASSUME NEW acct \in Accounts_(d), Ragequit(d, acct) PROVE WalletInv'
    <3> DEFINE tx == [kind |-> "ragequit", note |-> CurrentNote(acct)]
    <3>1. /\ pending' = pending \cup {tx} /\ BackToIdle(d)
          /\ UNCHANGED <<chain, asp, aspUpdates>> /\ CurrentNote(acct).value # 0
      BY <2>8 DEF Ragequit, Submit, IsSpendable
    <3>2. tx \in Transactions
      BY <1>0, <2>8, CurrentNoteType DEF Accounts_, Transactions
    <3>3. pending' \subseteq Transactions
      BY <1>0, <3>1, <3>2 DEF TypeOK
    <3>4. PendingOK'
      BY <1>0, <3>1 DEF PendingOK
    <3> QED
      BY <3>1, <3>3, <3>4, BackToIdleInv
  <2>9. CASE Crash(d)
    BY <1>0, <2>0, <2>9, BackToIdleInv DEF Crash, TypeOK
  <2> QED
    BY <1>6, <2>1, <2>2, <2>3, <2>4, <2>5, <2>6, <2>7, <2>8, <2>9 DEF DeviceStep
<1>7. CASE UNCHANGED vars
  BY <1>0, <1>7 DEF vars, deviceVars, WalletInv, TypeOK, DevicesOK, PendingOK
<1> QED
  BY <1>1, <1>2, <1>3, <1>4, <1>5, <1>6, <1>7 DEF Next, Environment

\* The root over the leaves of an earlier scan is one the pool knows, until as
\* many leaves follow as the ring has slots.
LEMMA RecentRootKnown ==
    ASSUME NEW logs \in PoolLogs, NEW root \in Seq(CommitmentHashes), root # <<>>,
           StartsWith(logs.leaves, root), Len(logs.leaves) < Len(root) + ROOT_HISTORY_SIZE
    PROVE  IsKnownRoot(logs, root)
<1> DEFINE s == logs.leaves
           n == Len(root)
<1>1. /\ s \in Seq(CommitmentHashes) /\ Len(s) \in Nat /\ DOMAIN s = 1..Len(s)
      /\ n \in Nat /\ n # 0 /\ DOMAIN root = 1..n
      /\ ROOT_HISTORY_SIZE \in Nat
  BY LogTypes, RootHistoryAssumption
<1>2. n <= Len(s) /\ \A k \in 1..n : s[k] = root[k]
  BY <1>1 DEF StartsWith
<1>3. SubSeq(s, 1, n) = root
  BY <1>1, <1>2
<1>4. n \in 1..Len(s) /\ n > Len(s) - ROOT_HISTORY_SIZE
  BY <1>1, <1>2
<1> QED
  BY <1>3, <1>4 DEF IsKnownRoot

-----------------------------------------------------------------------------
(* The theorems.                                                           *)

\* Every run of the wallets and the pool keeps the logs in order, and what the
\* devices hold in step with them (flow.rs, sync.rs, and the pool's rules).
THEOREM WalletInvariant == Spec => []WalletInv
<1>1. Init => WalletInv
  BY InitInv
<1>2. WalletInv /\ [Next]_vars => WalletInv'
  BY StepInv
<1> QED
  BY <1>1, <1>2, PTL DEF Spec

\* Views, plans and transactions in flight are what the SDK's types say.
THEOREM WalletTypes == Spec => []TypeOK
<1>1. WalletInv => TypeOK
  BY DEF WalletInv
<1> QED
  BY <1>1, WalletInvariant, PTL

\* Spending one note never spends another (account.rs:72-90): the change note
\* of a withdrawal (flow.rs:84) has a key no leaf has yet, because the
\* withdrawal that made such a leaf would have spent the note before.
THEOREM NullifiersAreDistinct == Spec => []NullifiersDistinct
<1>1. WalletInv => NullifiersDistinct
  BY DEF WalletInv, HistoryOK, LeavesOK, NullifiersDistinct
<1> QED
  BY <1>1, WalletInvariant, PTL

\* The circuit accepts every plan build_withdrawal makes (flow.rs:88-163),
\* from whatever scan and set the device fetched.
THEOREM PlansAreProvable == Spec => []PlansProvable
<1>1. WalletInv => PlansProvable
  BY DEF WalletInv, DevicesOK, PlanOK, PlansProvable
<1> QED
  BY <1>1, WalletInvariant, PTL

\* A plan whose roots still hold and whose note was not spent since its scan is
\* one the pool accepts (flow.rs:106-120), stale as the scan may be: leaves that
\* were inserted since leave its own root a prefix of the tree's leaves.
THEOREM OnlyStalenessIsRejected == Spec => []OnlyStalenessRejects
<1>1. ASSUME WalletInv, NEW p \in Plans, PlanOK(p, chain.logs), RootsHold(p),
             nullifier_hash(p.existing.key) \notin SpentIn(chain.logs)
      PROVE  AcceptsWithdrawal(chain, asp, p)
  <2>1. /\ chain.logs \in PoolLogs /\ chain.spent = SpentIn(chain.logs)
        /\ WithdrawCircuit(p) /\ StartsWith(chain.logs.leaves, p.state_root)
    BY <1>1 DEF WalletInv, TypeOK, PlanOK
  <2>2. p.state_root \in Seq(CommitmentHashes) /\ p.state_root # <<>>
    BY <1>1, <2>1 DEF Plans, WithdrawCircuit
  <2>3. IsKnownRoot(chain.logs, p.state_root)
    BY <1>1, <2>1, <2>2, RecentRootKnown DEF RootsHold
  <2> QED
    BY <1>1, <2>1, <2>3 DEF AcceptsWithdrawal, RootsHold
<1>2. ASSUME WalletInv, NEW d \in Devices, stage[d] = "planned", RootsHold(plan[d]),
             nullifier_hash(plan[d].existing.key) \notin SpentIn(chain.logs) \ SpentIn(view[d])
      PROVE  AcceptsWithdrawal(chain, asp, plan[d])
  <2>1. /\ chain.logs \in PoolLogs /\ view[d] \in PoolLogs /\ Continues(chain.logs, view[d])
        /\ plan[d] \in Plans /\ PlanOK(plan[d], view[d])
        /\ nullifier_hash(plan[d].existing.key) \notin SpentIn(view[d])
    BY <1>2 DEF WalletInv, TypeOK, DevicesOK
  <2>2. PlanOK(plan[d], chain.logs)
    BY <2>1, PlanKept
  <2>3. nullifier_hash(plan[d].existing.key) \notin SpentIn(chain.logs)
    BY <1>2, <2>1
  <2> QED
    BY <1>1, <1>2, <2>1, <2>2, <2>3
<1>3. ASSUME WalletInv, NEW tx \in pending, tx.kind = "withdraw", RootsHold(tx.plan),
             nullifier_hash(tx.plan.existing.key) \notin SpentIn(chain.logs)
      PROVE  Accepts(tx)
  <2>1. tx.plan \in Plans /\ PlanOK(tx.plan, chain.logs)
    BY <1>3 DEF WalletInv, TypeOK, Transactions, PendingOK
  <2>2. AcceptsWithdrawal(chain, asp, tx.plan)
    BY <1>1, <1>3, <2>1
  <2> QED
    BY <1>3, <2>2 DEF Accepts
<1>4. WalletInv => OnlyStalenessRejects
  BY <1>2, <1>3 DEF OnlyStalenessRejects
<1> QED
  BY <1>4, WalletInvariant, PTL

\* Recovery from the seed phrase alone (sync.rs:313-393) succeeds whatever has
\* happened, and finds exactly the notes the pool still owes the account.
THEOREM RecoveryIsSound == Spec => []RecoverySound
<1>1. WalletInv => RecoverySound
  <2> SUFFICES ASSUME WalletInv, NEW a \in Accounts
               PROVE  /\ RecoverySucceeds(chain.logs, a, gap_limit)
                      /\ {commitment_hash(n) : n \in SpendableNotes(chain.logs, a, gap_limit)}
                           = Unspent(a)
    BY DEF RecoverySound
  <2>1. chain.logs \in PoolLogs /\ HistoryOK(chain.logs) /\ chain.spent = SpentIn(chain.logs)
    BY DEF WalletInv, TypeOK
  <2>2. RecoverySucceeds(chain.logs, a, gap_limit)
    BY <2>1, RecoveryOK
  <2>3. {commitment_hash(n) : n \in SpendableNotes(chain.logs, a, gap_limit)} = Unspent(a)
    BY <2>1, RecoveryFindsUnspent DEF Unspent
  <2> QED
    BY <2>2, <2>3
<1> QED
  BY <1>1, WalletInvariant, PTL

-----------------------------------------------------------------------------
(* What a step does to recovered accounts.                                 *)

LEMMA ChainContinues ==
    WalletInv /\ [Next]_vars =>
        /\ chain.logs \in PoolLogs /\ HistoryOK(chain.logs)
        /\ chain'.logs \in PoolLogs /\ HistoryOK(chain'.logs)
        /\ Continues(chain'.logs, chain.logs)
<1> SUFFICES ASSUME WalletInv, [Next]_vars
             PROVE  /\ chain.logs \in PoolLogs /\ HistoryOK(chain.logs)
                    /\ chain'.logs \in PoolLogs /\ HistoryOK(chain'.logs)
                    /\ Continues(chain'.logs, chain.logs)
  OBVIOUS
<1>1. chain.logs \in PoolLogs /\ HistoryOK(chain.logs)
  BY DEF WalletInv, TypeOK
<1>2. CASE \E tx \in pending : MineDeposit(tx) \/ MineWithdrawal(tx) \/ MineRagequit(tx)
  BY <1>1, <1>2, MinedInOrder DEF ChainOK
<1>3. CASE UNCHANGED chain
  BY <1>1, <1>3, ContinuesReflexive
<1>4. ASSUME NEW d \in Devices, DeviceStep(d) PROVE UNCHANGED chain
  BY <1>4 DEF DeviceStep, Scan, VerifyStateRoot, FetchAsp, VerifyAspRoot, BuildWithdrawal,
              SubmitWithdrawal, Deposit, Ragequit, Crash
<1> QED
  BY <1>2, <1>3, <1>4 DEF Next, Environment, Drop, PublishAsp, vars

\* The keys and the notes of a chain stay what they are as the logs grow.
LEMMA ChainKept ==
    ASSUME NEW old \in PoolLogs, HistoryOK(old), NEW new \in PoolLogs, HistoryOK(new),
           Continues(new, old), NEW n \in DOMAIN old.deposits
    PROVE  /\ n \in DOMAIN new.deposits
           /\ Owner(new, n) = Owner(old, n) /\ Index(new, n) = Index(old, n)
           /\ Length(old, n) <= Length(new, n)
           /\ \A k \in Nat : KeyAt(new, n, k) = KeyAt(old, n, k)
           /\ \A k \in 0..Length(old, n) : NoteAt(new, n, k) = NoteAt(old, n, k)
<1>1. /\ n \in DOMAIN new.deposits /\ new.deposits[n] = old.deposits[n]
      /\ DepositKey(new, n) = DepositKey(old, n)
  BY ContinuesKeeps
<1>2. Owner(new, n) = Owner(old, n) /\ Index(new, n) = Index(old, n)
  BY <1>1 DEF Owner, Index
<1>3. \A k : KeyAt(new, n, k) = KeyAt(old, n, k)
  BY <1>2 DEF KeyAt
<1>4. ASSUME NEW spent, HasWithdrawal(old, spent)
      PROVE  HasWithdrawal(new, spent) /\ WithdrawalOf(new, spent) = WithdrawalOf(old, spent)
  <2>1. PICK m \in DOMAIN old.withdrawals :
            /\ old.withdrawals[m].spent_nullifier = spent
            /\ WithdrawalOf(old, spent) = old.withdrawals[m]
    BY <1>4, WithdrawalAt
  <2>2. m \in DOMAIN new.withdrawals /\ new.withdrawals[m] = old.withdrawals[m]
    BY ContinuesKeeps
  <2> QED
    BY <2>1, <2>2, WithdrawalLookup
<1> DEFINE c == Length(old, n)
           e == Length(new, n)
<1>5. /\ c \in Nat /\ e \in Nat
      /\ \A k \in 0..(c - 1) : Spent(old, n, k)
      /\ ~Spent(new, n, e)
  BY <1>1, LengthIsFirstUnspent
<1>6. \A k : Spent(old, n, k) => Spent(new, n, k)
  BY <1>3, <1>4 DEF Spent
<1> HIDE DEF c, e
<1>7. c <= e
  BY <1>5, <1>6
<1>8. ASSUME NEW k \in 0..c PROVE NoteAt(new, n, k) = NoteAt(old, n, k)
  <2>1. GoodNote(old, n, k)
    BY <1>8, ChainNotes DEF c
  <2>2. GoodNote(new, n, k)
    <3>1. k \in 0..e
      BY <1>5, <1>7
    <3> QED
      BY <1>1, <3>1, ChainNotes DEF e
  <2>3. commitment_hash(NoteAt(new, n, k)) = commitment_hash(NoteAt(old, n, k))
    <3>1. CASE k = 0
      <4>1. ValueAt(new, n)[0] = ValueAt(old, n)[0]
        BY <1>1, ValuesLeft
      <4> QED
        BY <1>3, <2>1, <2>2, <3>1, <4>1 DEF GoodNote
    <3>2. CASE k # 0
      <4>1. k - 1 \in 0..(c - 1)
        BY <1>5, <3>2
      <4>2. HasWithdrawal(old, nullifier_hash(KeyAt(old, n, k - 1)))
        BY <1>5, <4>1 DEF Spent
      <4>3. WithdrawalOf(new, nullifier_hash(KeyAt(new, n, k - 1)))
              = WithdrawalOf(old, nullifier_hash(KeyAt(old, n, k - 1)))
        BY <1>3, <1>4, <4>2
      <4> QED
        BY <2>1, <2>2, <3>2, <4>3 DEF GoodNote
    <3> QED
      BY <3>1, <3>2
  <2>4. NoteAt(new, n, k).value = NoteAt(old, n, k).value
    BY <2>3, CommitmentInjective DEF commitment_hash
  <2>5. /\ NoteAt(new, n, k) = Note(ValueAt(new, n)[k], n, KeyAt(new, n, k))
        /\ NoteAt(old, n, k) = Note(ValueAt(old, n)[k], n, KeyAt(old, n, k))
    BY <2>1, <2>2 DEF GoodNote
  <2>6. ValueAt(new, n)[k] = ValueAt(old, n)[k]
    BY <2>4, <2>5 DEF Note
  <2> QED
    BY <1>3, <2>5, <2>6
<1> QED
  BY <1>1, <1>2, <1>3, <1>7, <1>8 DEF c, e

\* Accounts only grow.
LEMMA AccountKept ==
    ASSUME NEW old \in PoolLogs, HistoryOK(old), NEW new \in PoolLogs, HistoryOK(new),
           Continues(new, old), NEW n \in DOMAIN old.deposits
    PROVE  /\ AccountAt(new, n).deposit_index = AccountAt(old, n).deposit_index
           /\ AccountAt(new, n).deposit = AccountAt(old, n).deposit
           /\ Len(AccountAt(old, n).children) <= Len(AccountAt(new, n).children)
           /\ \A k \in DOMAIN AccountAt(old, n).children :
                 AccountAt(new, n).children[k] = AccountAt(old, n).children[k]
           /\ AccountAt(old, n).ragequit => AccountAt(new, n).ragequit
<1>1. /\ n \in DOMAIN new.deposits
      /\ Index(new, n) = Index(old, n)
      /\ Length(old, n) <= Length(new, n)
      /\ \A k \in 0..Length(old, n) : NoteAt(new, n, k) = NoteAt(old, n, k)
  BY ChainKept
<1>2. Length(old, n) \in Nat /\ Length(new, n) \in Nat
  BY <1>1, LengthIsFirstUnspent
<1>3. /\ AccountAt(old, n).children = [k \in 1..Length(old, n) |-> NoteAt(old, n, k)]
      /\ AccountAt(new, n).children = [k \in 1..Length(new, n) |-> NoteAt(new, n, k)]
  BY <1>1, AccountFields
<1>4. \A k \in 1..Length(old, n) :
         k \in 1..Length(new, n) /\ NoteAt(new, n, k) = NoteAt(old, n, k)
  BY <1>1, <1>2
<1>5. \A k \in DOMAIN AccountAt(old, n).children :
         AccountAt(new, n).children[k] = AccountAt(old, n).children[k]
  BY <1>3, <1>4
<1>6. RagequitLabels(old) \subseteq RagequitLabels(new)
  BY ContinuesKeeps DEF RagequitLabels
<1>7. NoteAt(new, n, 0) = NoteAt(old, n, 0)
  BY <1>1, <1>2
<1>8. /\ AccountAt(old, n).deposit_index = Index(old, n)
      /\ AccountAt(old, n).deposit = NoteAt(old, n, 0)
      /\ Len(AccountAt(old, n).children) = Length(old, n)
      /\ AccountAt(old, n).ragequit = (n \in RagequitLabels(old))
  BY AccountFields
<1>9. /\ AccountAt(new, n).deposit_index = Index(new, n)
      /\ AccountAt(new, n).deposit = NoteAt(new, n, 0)
      /\ Len(AccountAt(new, n).children) = Length(new, n)
      /\ AccountAt(new, n).ragequit = (n \in RagequitLabels(new))
  BY <1>1, AccountFields
<1>10. AccountAt(old, n).ragequit => AccountAt(new, n).ragequit
  BY <1>6, <1>8, <1>9
<1> QED
  BY <1>1, <1>5, <1>7, <1>8, <1>9, <1>10

\* A spent nullifier is that of a leaf.
LEMMA SpentKeysAreLeaves ==
    ASSUME NEW logs \in PoolLogs, HistoryOK(logs), NEW key,
           nullifier_hash(key) \in SpentIn(logs)
    PROVE  \E x \in LeavesOf(logs) : KeyOf(x) = key
<1>1. CASE \E m \in DOMAIN logs.withdrawals :
              logs.withdrawals[m].spent_nullifier = nullifier_hash(key)
  <2>1. PICK m \in DOMAIN logs.withdrawals :
            logs.withdrawals[m].spent_nullifier = nullifier_hash(key)
    BY <1>1
  <2>2. PICK x \in LeavesOf(logs) : nullifier_hash(key) = nullifier_hash(KeyOf(x))
    BY <2>1 DEF HistoryOK, WithdrawalsOK, WithdrawalOK
  <2> QED
    BY <2>2, NullifierInjective
<1>2. CASE \E r \in DOMAIN logs.ragequits :
              nullifier_hash(KeyOf(logs.ragequits[r].commitment)) = nullifier_hash(key)
  BY <1>2, NullifierInjective DEF HistoryOK, RagequitsOK
<1> QED
  BY <1>1, <1>2 DEF SpentIn

\* What a mined withdrawal leaves: its change note is a leaf, unspent.
LEMMA ChangeNoteUnspent ==
    ASSUME WalletInv, NEW tx \in pending, MineWithdrawal(tx)
    PROVE  /\ tx.plan \in Plans /\ PlanOK(tx.plan, chain.logs)
           /\ chain' = AfterWithdrawal(chain, tx.plan)
           /\ nullifier_hash(tx.plan.existing.key) \notin SpentIn(chain.logs)
           /\ NewCommitment(tx.plan) = commitment_hash(tx.plan.new_note)
           /\ KeyOf(NewCommitment(tx.plan)) = tx.plan.new_key
           /\ NewCommitment(tx.plan).label = tx.plan.existing.label
           /\ NewCommitment(tx.plan).value
                = tx.plan.existing.value - tx.plan.withdrawn_value
           /\ LeavesOf(chain'.logs) = LeavesOf(chain.logs) \cup {NewCommitment(tx.plan)}
           /\ chain'.spent = chain.spent \cup {nullifier_hash(tx.plan.existing.key)}
           /\ nullifier_hash(tx.plan.new_key) \notin chain'.spent
<1> DEFINE p == tx.plan
           leaf == NewCommitment(p)
           logs == chain.logs
<1>1. /\ tx \in Transactions /\ tx.kind = "withdraw" /\ AcceptsWithdrawal(chain, asp, p)
      /\ chain' = AfterWithdrawal(chain, p)
  BY DEF MineWithdrawal, Accepts, WalletInv, TypeOK
<1>2. p \in Plans /\ PlanOK(p, logs)
  BY <1>1 DEF Transactions, WalletInv, PendingOK
<1>3. /\ logs \in PoolLogs /\ HistoryOK(logs) /\ chain.spent = SpentIn(logs)
      /\ chain \in [logs: PoolLogs, spent: SUBSET NullifierHashes]
      /\ nullifier_hash(p.existing.key) \notin SpentIn(logs)
  BY <1>1 DEF WalletInv, TypeOK, AcceptsWithdrawal
<1>4. leaf = commitment_hash(p.new_note)
  BY <1>2 DEF PlanOK, NewCommitment
<1>5. /\ KeyOf(leaf) = p.new_key /\ leaf.label = p.existing.label
      /\ leaf.value = p.existing.value - p.withdrawn_value
  BY DEF NewCommitment, Note, commitment_hash, KeyOf, precommitment
<1> HIDE DEF leaf
<1>6. /\ chain'.logs.leaves = Append(logs.leaves, leaf)
      /\ chain'.spent = chain.spent \cup {nullifier_hash(p.existing.key)}
  BY <1>1, <1>3 DEF AfterWithdrawal, LeafAdded, PoolLogs, leaf
<1>7. LeavesOf(chain'.logs) = LeavesOf(logs) \cup {leaf}
  <2>1. leaf \in CommitmentHashes /\ logs.leaves \in Seq(CommitmentHashes)
    <3>1. p.new_note \in Commitments
      BY <1>2 DEF Plans
    <3> QED
      BY <1>3, <1>4, <3>1, HashType, LogTypes
  <2>2. /\ DOMAIN Append(logs.leaves, leaf) = DOMAIN logs.leaves \cup {Len(logs.leaves) + 1}
        /\ Append(logs.leaves, leaf)[Len(logs.leaves) + 1] = leaf
        /\ \A k \in DOMAIN logs.leaves : Append(logs.leaves, leaf)[k] = logs.leaves[k]
    BY <2>1, AppendToLog
  <2> QED
    BY <1>6, <2>2 DEF LeavesOf
<1>8. nullifier_hash(p.new_key) \notin chain'.spent
  <2>1. \A x \in LeavesOf(logs) : KeyOf(x) # p.new_key
    BY <1>2, <1>3, NewKeyUnused
  <2>2. nullifier_hash(p.new_key) \notin SpentIn(logs)
    BY <1>3, <2>1, SpentKeysAreLeaves
  <2>3. nullifier_hash(p.new_key) # nullifier_hash(p.existing.key)
    BY <1>2, NullifierInjective DEF PlanOK, WithdrawCircuit
  <2> QED
    BY <1>3, <1>6, <2>2, <2>3
<1> QED
  BY <1>1, <1>2, <1>3, <1>4, <1>5, <1>6, <1>7, <1>8 DEF leaf

\* Recovery after a mined withdrawal ends the account's chain in the change note.
LEMMA ChangeNoteFound ==
    ASSUME WalletInv, NEW tx \in pending, MineWithdrawal(tx)
    PROVE  \E acct \in RecoveredAccounts(chain'.logs, tx.plan.existing.key.account, gap_limit) :
              acct.children # <<>> /\ CurrentNote(acct) = tx.plan.new_note
<1> DEFINE p    == tx.plan
           leaf == NewCommitment(p)
           n    == p.existing.label
           new  == chain'.logs
<1>1. /\ p \in Plans /\ PlanOK(p, chain.logs)
      /\ leaf = commitment_hash(p.new_note) /\ KeyOf(leaf) = p.new_key /\ leaf.label = n
      /\ leaf \in LeavesOf(new) /\ nullifier_hash(KeyOf(leaf)) \notin chain'.spent
  BY ChangeNoteUnspent
<1>2. /\ chain.logs \in PoolLogs /\ HistoryOK(chain.logs)
      /\ new \in PoolLogs /\ HistoryOK(new) /\ chain'.spent = SpentIn(new)
      /\ Continues(new, chain.logs)
  BY MinedInOrder DEF WalletInv, TypeOK, ChainOK
<1>3. /\ n \in DOMAIN chain.logs.deposits /\ p.new_key \in Keys /\ p.new_key.base = n
      /\ p.new_key.account = Owner(chain.logs, n)
      /\ p.existing.key = Previous(chain.logs, p.new_key)
  BY <1>1 DEF PlanOK, Plans, Owner
<1> HIDE DEF new, leaf, n
<1>4. /\ n \in DOMAIN new.deposits /\ Owner(new, n) = p.new_key.account
      /\ p.new_key = KeyAt(new, n, p.new_key.index + 1) /\ p.new_key.index \in Nat
  <2>1. n \in DOMAIN new.deposits /\ Owner(new, n) = p.new_key.account
    BY <1>2, <1>3, ChainKept
  <2> QED
    BY <1>2, <1>3, <2>1, KeyInChain DEF Keys
<1>5. p.existing.key.account = p.new_key.account
  <2>1. p.existing.key = KeyAt(chain.logs, n, p.new_key.index)
    BY <1>2, <1>3, KeyInChain
  <2>2. \A k \in Nat : KeyAt(chain.logs, n, k).account = Owner(chain.logs, n)
    BY DEF KeyAt, ChainKey, deposit_secrets, withdrawal_secrets
  <2> QED
    BY <1>3, <1>4, <2>1, <2>2
<1> DEFINE acct == AccountAt(new, n)
<1>6. acct \in RecoveredAccounts(new, Owner(new, n), gap_limit)
  BY <1>2, <1>4, DepositRecovered
<1>7. CurrentNote(acct) = p.new_note
  <2>1. commitment_hash(CurrentNote(acct)) = commitment_hash(p.new_note)
    BY <1>1, <1>2, UnspentIsTip
  <2>2. CurrentNote(acct) \in Commitments /\ p.new_note \in Commitments
    BY <1>1, <1>2, <1>6, CurrentNoteType DEF Plans
  <2> HIDE DEF acct
  <2> QED
    BY <2>1, <2>2 DEF commitment_hash, precommitment, Commitments
<1>8. acct.children # <<>>
  <2>1. CurrentNote(acct) = NoteAt(new, n, Length(new, n)) /\ Len(acct.children) = Length(new, n)
    BY <1>2, <1>4, AccountFields
  <2>2. Length(new, n) \in Nat /\ Length(new, n) \in 0..Length(new, n)
    BY <1>2, <1>4, LengthIsFirstUnspent
  <2>3. p.new_note.key = KeyAt(new, n, Length(new, n))
    BY <1>2, <1>4, <1>7, <2>1, <2>2, ChainNotes DEF GoodNote, Note
  <2>4. p.new_note.key = p.new_key
    BY <1>1 DEF PlanOK, Note
  <2>5. Length(new, n) = p.new_key.index + 1
    <3>1. /\ p.new_key.index + 1 \in Nat
          /\ KeyAt(new, n, p.new_key.index + 1) = KeyAt(new, n, Length(new, n))
      BY <1>4, <2>3, <2>4
    <3>2. \A j, k \in Nat : KeyAt(new, n, j) = KeyAt(new, n, k) => j = k
      BY <1>2, <1>4, ChainKeys
    <3> QED
      BY <2>2, <3>1, <3>2
  <2>6. Len(acct.children) # 0
    BY <1>4, <2>1, <2>5
  <2> HIDE DEF acct
  <2>7. Len(<<>>) = 0
    OBVIOUS
  <2> QED
    BY <2>6, <2>7
<1> QED
  BY <1>4, <1>5, <1>6, <1>7, <1>8 DEF new

\* The accounts recovered are those of the deposits that are the account's own.
LEMMA RecoveredIs ==
    ASSUME NEW logs \in PoolLogs, HistoryOK(logs), NEW a
    PROVE  RecoveredAccounts(logs, a, gap_limit)
             = {AccountAt(logs, n) : n \in {m \in DOMAIN logs.deposits : Owner(logs, m) = a}}
<1>1. \A acct \in RecoveredAccounts(logs, a, gap_limit) :
         \E n \in DOMAIN logs.deposits : Owner(logs, n) = a /\ acct = AccountAt(logs, n)
  BY RecoveredAccountOf
<1>2. \A n \in DOMAIN logs.deposits :
         AccountAt(logs, n) \in RecoveredAccounts(logs, Owner(logs, n), gap_limit)
  BY DepositRecovered
<1> QED
  BY <1>1, <1>2

\* An account whose last note nothing spends stays as it is.
LEMMA AccountUntouched ==
    ASSUME NEW old \in PoolLogs, HistoryOK(old), NEW new \in PoolLogs, HistoryOK(new),
           Continues(new, old), NEW n \in DOMAIN old.deposits,
           ~HasWithdrawal(new, nullifier_hash(KeyAt(old, n, Length(old, n)))),
           n \in RagequitLabels(new) => n \in RagequitLabels(old)
    PROVE  AccountAt(new, n) = AccountAt(old, n)
<1> DEFINE c == Length(old, n)
           e == Length(new, n)
<1>1. /\ n \in DOMAIN new.deposits /\ Index(new, n) = Index(old, n) /\ c <= e
      /\ \A k \in Nat : KeyAt(new, n, k) = KeyAt(old, n, k)
      /\ \A k \in 0..c : NoteAt(new, n, k) = NoteAt(old, n, k)
  BY ChainKept
<1>2. /\ c \in Nat /\ e \in Nat /\ \A k \in 0..(e - 1) : Spent(new, n, k)
  BY <1>1, LengthIsFirstUnspent
<1>3. ~Spent(new, n, c)
  BY <1>1, <1>2 DEF Spent
<1>4. (n \in RagequitLabels(new)) = (n \in RagequitLabels(old))
  BY ContinuesKeeps DEF RagequitLabels
<1>5. AccountAt(old, n) = PoolAccount(n, Index(old, n), NoteAt(old, n, 0),
                                      [k \in 1..c |-> NoteAt(old, n, k)], n \in RagequitLabels(old))
  BY AccountIs
<1>6. AccountAt(new, n) = PoolAccount(n, Index(new, n), NoteAt(new, n, 0),
                                      [k \in 1..e |-> NoteAt(new, n, k)], n \in RagequitLabels(new))
  BY <1>1, AccountIs
<1> HIDE DEF c, e
<1>7. e = c
  BY <1>1, <1>2, <1>3
<1>8. \A k \in 1..c : NoteAt(new, n, k) = NoteAt(old, n, k)
  BY <1>1, <1>2
<1>9. NoteAt(new, n, 0) = NoteAt(old, n, 0)
  BY <1>1, <1>2
<1>10. [k \in 1..e |-> NoteAt(new, n, k)] = [k \in 1..c |-> NoteAt(old, n, k)]
  BY <1>7, <1>8
<1> QED
  BY <1>1, <1>4, <1>5, <1>6, <1>9, <1>10

\* A mined transaction spends no note of another account.
LEMMA OthersKept ==
    ASSUME WalletInv, NEW tx \in pending,
           MineDeposit(tx) \/ MineWithdrawal(tx) \/ MineRagequit(tx),
           NEW a \in Accounts, a # OwnerOf(tx)
    PROVE  RecoveredAccounts(chain'.logs, a, gap_limit)
             = RecoveredAccounts(chain.logs, a, gap_limit)
<1> DEFINE old == chain.logs
           new == chain'.logs
<1>1. /\ old \in PoolLogs /\ HistoryOK(old) /\ new \in PoolLogs /\ HistoryOK(new)
      /\ chain \in [logs: PoolLogs, spent: SUBSET NullifierHashes]
      /\ Continues(new, old) /\ tx \in Transactions
  BY MinedInOrder DEF WalletInv, TypeOK, ChainOK
<1>2. \A n \in DOMAIN new.deposits : Owner(new, n) = a => n \in DOMAIN old.deposits
  <2>1. CASE MineDeposit(tx)
    <3> DEFINE N == Len(old.deposits)
    <3>1. tx.kind = "deposit" /\ chain' = AfterDeposit(chain, tx.pre, tx.value)
      BY <2>1 DEF MineDeposit
    <3> DEFINE lab == label(N + 1)
               dep == DepositLog([value |-> u256_to_field(tx.value), label |-> lab,
                                  precommitment |-> tx.pre], lab, tx.value, tx.pre)
    <3>2. dep.precommitment = tx.pre /\ new.deposits = Append(old.deposits, dep)
      <4>1. dep.precommitment = tx.pre
        BY DEF DepositLog
      <4> HIDE DEF dep
      <4>2. new.deposits = Append(old.deposits, dep)
        BY <1>1, <3>1 DEF AfterDeposit, PoolLogs, dep
      <4> QED
        BY <4>1, <4>2
    <3> HIDE DEF dep
    <3>3. old.deposits \in Seq(DepositLogs) /\ N \in Nat
      BY <1>1, LogTypes
    <3>4. DOMAIN new.deposits = DOMAIN old.deposits \cup {N + 1} /\ new.deposits[N + 1] = dep
      BY <3>2, <3>3
    <3>5. Owner(new, N + 1) = OwnerOf(tx)
      BY <3>1, <3>2, <3>4 DEF Owner, DepositKey, OwnerOf
    <3> QED
      BY <3>4, <3>5
  <2>2. CASE MineWithdrawal(tx)
    BY <1>1, <2>2 DEF MineWithdrawal, AfterWithdrawal, PoolLogs
  <2>3. CASE MineRagequit(tx)
    BY <1>1, <2>3 DEF MineRagequit, AfterRagequit, PoolLogs
  <2> QED
    BY <2>1, <2>2, <2>3
<1>3. ASSUME NEW n \in DOMAIN old.deposits, Owner(old, n) = a
      PROVE  AccountAt(new, n) = AccountAt(old, n)
  <2> DEFINE tip == KeyAt(old, n, Length(old, n))
  <2>1. ~HasWithdrawal(old, nullifier_hash(tip))
    BY <1>1, LengthIsFirstUnspent DEF Spent
  <2>2. tip.account = a
    BY <1>3 DEF KeyAt, ChainKey, deposit_secrets, withdrawal_secrets
  <2> HIDE DEF tip
  <2>3. ~HasWithdrawal(new, nullifier_hash(tip)) /\ RagequitLabels(new) \subseteq RagequitLabels(old) \cup {m \in Nat : m # n}
    <3>1. CASE MineDeposit(tx)
      <4>1. new.withdrawals = old.withdrawals /\ new.ragequits = old.ragequits
        BY <1>1, <3>1 DEF MineDeposit, AfterDeposit, PoolLogs
      <4> QED
        BY <2>1, <4>1 DEF HasWithdrawal, WithdrawalsOf, RagequitLabels
    <3>2. CASE MineWithdrawal(tx)
      <4> DEFINE M == Len(old.withdrawals)
      <4>1. tx.kind = "withdraw" /\ chain' = AfterWithdrawal(chain, tx.plan)
        BY <3>2 DEF MineWithdrawal
      <4> DEFINE spent == nullifier_hash(tx.plan.existing.key)
                 w == WithdrawLog(tx.plan.withdrawn_value, spent, NewCommitment(tx.plan))
      <4>2. /\ new.withdrawals = Append(old.withdrawals, w)
            /\ w.spent_nullifier = spent
            /\ new.ragequits = old.ragequits
        <5>1. w.spent_nullifier = spent
          BY DEF WithdrawLog
        <5> HIDE DEF w
        <5>2. new.withdrawals = Append(old.withdrawals, w) /\ new.ragequits = old.ragequits
          BY <1>1, <4>1 DEF AfterWithdrawal, PoolLogs, w
        <5> QED
          BY <5>1, <5>2
      <4> HIDE DEF w
      <4>3. old.withdrawals \in Seq(WithdrawLogs) /\ M \in Nat
        BY <1>1, LogTypes
      <4>4. /\ DOMAIN new.withdrawals = DOMAIN old.withdrawals \cup {M + 1}
            /\ new.withdrawals[M + 1] = w
            /\ \A m \in DOMAIN old.withdrawals : new.withdrawals[m] = old.withdrawals[m]
        BY <4>2, <4>3
      <4>5. tx.plan.existing.key # tip
        BY <2>2, <4>1 DEF OwnerOf
      <4>6. w.spent_nullifier # nullifier_hash(tip)
        BY <4>2, <4>5, NullifierInjective
      <4> QED
        BY <2>1, <4>2, <4>4, <4>6 DEF HasWithdrawal, WithdrawalsOf, RagequitLabels
    <3>3. CASE MineRagequit(tx)
      <4> DEFINE R    == Len(old.ragequits)
                 leaf == commitment_hash(tx.note)
      <4>1. /\ tx.kind = "ragequit" /\ chain' = AfterRagequit(chain, tx.note)
            /\ leaf \in LeavesOf(old)
        BY <3>3 DEF MineRagequit, Accepts, AcceptsRagequit, LeavesOf
      <4> DEFINE q == RagequitLog(leaf, tx.note.label, tx.note.value)
      <4>2. /\ new.ragequits = Append(old.ragequits, q)
            /\ q.label = tx.note.label
            /\ new.withdrawals = old.withdrawals
        <5>1. q.label = tx.note.label
          BY DEF RagequitLog
        <5> HIDE DEF q
        <5>2. new.ragequits = Append(old.ragequits, q) /\ new.withdrawals = old.withdrawals
          BY <1>1, <4>1 DEF AfterRagequit, PoolLogs, q
        <5> QED
          BY <5>1, <5>2
      <4> HIDE DEF q
      <4>3. old.ragequits \in Seq(RagequitLogs) /\ R \in Nat
        BY <1>1, LogTypes
      <4>4. /\ DOMAIN new.ragequits = DOMAIN old.ragequits \cup {R + 1}
            /\ new.ragequits[R + 1] = q
            /\ \A r \in DOMAIN old.ragequits : new.ragequits[r] = old.ragequits[r]
        BY <4>2, <4>3
      <4>5. leaf.label = tx.note.label /\ KeyOf(leaf) = tx.note.key /\ leaf.label \in Nat
        BY <1>1, <4>1, CommitmentInjective, LogTypes, LeafType
      <4>6. Owner(old, leaf.label) # a
        BY <1>1, <4>1, <4>5, LeafInChain DEF OwnerOf
      <4>7. q.label \in Nat /\ q.label # n
        BY <1>3, <4>2, <4>5, <4>6
      <4>8. RagequitLabels(new) = RagequitLabels(old) \cup {q.label}
        BY <4>4 DEF RagequitLabels
      <4> QED
        BY <2>1, <4>2, <4>7, <4>8 DEF HasWithdrawal, WithdrawalsOf
    <3> QED
      BY <3>1, <3>2, <3>3
  <2> HIDE DEF old, new
  <2> QED
    BY <1>1, <1>3, <2>3, AccountUntouched DEF tip
<1>4. \A n \in DOMAIN old.deposits : n \in DOMAIN new.deposits /\ Owner(new, n) = Owner(old, n)
  BY <1>1, ChainKept
<1> HIDE DEF old, new
<1> DEFINE theirs(logs) == {AccountAt(logs, n) : n \in {m \in DOMAIN logs.deposits : Owner(logs, m) = a}}
<1>5. theirs(new) = theirs(old)
  BY <1>2, <1>3, <1>4
<1>6. /\ RecoveredAccounts(new, a, gap_limit) = theirs(new)
      /\ RecoveredAccounts(old, a, gap_limit) = theirs(old)
  BY <1>1, RecoveredIs
<1> QED
  BY <1>5, <1>6 DEF old, new

-----------------------------------------------------------------------------
(* The theorems about steps.                                               *)

\* new_note needs no backup (flow.rs:84, sync.rs:367-378): the step that mines
\* a plan is one after which recovery returns the plan's change note.
THEOREM ChangeNoteIsRecovered == Spec => ChangeNoteRecovered
<1>1. WalletInv /\ [Next]_vars =>
        [\A tx \in pending :
            MineWithdrawal(tx) =>
                \E acct \in RecoveredAccounts(chain'.logs,
                                tx.plan.existing.key.account, gap_limit) :
                    acct.children # <<>> /\ CurrentNote(acct) = tx.plan.new_note]_vars
  BY ChangeNoteFound
<1> QED
  BY <1>1, WalletInvariant, PTL DEF Spec, ChangeNoteRecovered

\* An account recovered once is recovered ever after, with the notes it had
\* (sync.rs:313-393).
THEOREM RecoveryIsMonotone == Spec => RecoveryMonotone
<1>1. WalletInv /\ [Next]_vars =>
        [\A a \in Accounts :
          \A old \in RecoveredAccounts(chain.logs, a, gap_limit) :
              \E new \in RecoveredAccounts(chain'.logs, a, gap_limit) :
                  /\ new.deposit_index = old.deposit_index
                  /\ new.deposit = old.deposit
                  /\ Len(old.children) <= Len(new.children)
                  /\ \A k \in DOMAIN old.children : new.children[k] = old.children[k]
                  /\ old.ragequit => new.ragequit]_vars
  <2> SUFFICES ASSUME WalletInv, [Next]_vars, NEW a \in Accounts,
                      NEW old \in RecoveredAccounts(chain.logs, a, gap_limit)
               PROVE  \E new \in RecoveredAccounts(chain'.logs, a, gap_limit) :
                         /\ new.deposit_index = old.deposit_index
                         /\ new.deposit = old.deposit
                         /\ Len(old.children) <= Len(new.children)
                         /\ \A k \in DOMAIN old.children : new.children[k] = old.children[k]
                         /\ old.ragequit => new.ragequit
    OBVIOUS
  <2>1. /\ chain.logs \in PoolLogs /\ HistoryOK(chain.logs)
        /\ chain'.logs \in PoolLogs /\ HistoryOK(chain'.logs)
        /\ Continues(chain'.logs, chain.logs)
    BY ChainContinues
  <2>2. PICK n \in DOMAIN chain.logs.deposits :
            Owner(chain.logs, n) = a /\ old = AccountAt(chain.logs, n)
    BY <2>1, RecoveredAccountOf
  <2> DEFINE new == AccountAt(chain'.logs, n)
  <2>3. new \in RecoveredAccounts(chain'.logs, a, gap_limit)
    <3>1. n \in DOMAIN chain'.logs.deposits /\ Owner(chain'.logs, n) = a
      BY <2>1, <2>2, ChainKept
    <3> QED
      BY <2>1, <3>1, DepositRecovered
  <2>4. /\ new.deposit_index = old.deposit_index
        /\ new.deposit = old.deposit
        /\ Len(old.children) <= Len(new.children)
        /\ \A k \in DOMAIN old.children : new.children[k] = old.children[k]
        /\ old.ragequit => new.ragequit
    BY <2>1, <2>2, AccountKept
  <2> QED
    BY <2>3, <2>4
<1> QED
  BY <1>1, WalletInvariant, PTL DEF Spec, RecoveryMonotone

\* What is mined for one account changes nothing that another recovers
\* (account.rs:72-90).
THEOREM OthersAreUnaffected == Spec => OthersUnaffected
<1>1. WalletInv /\ [Next]_vars =>
        [\A tx \in pending \ pending' : \A a \in Accounts \ {OwnerOf(tx)} :
            RecoveredAccounts(chain'.logs, a, gap_limit)
               = RecoveredAccounts(chain.logs, a, gap_limit)]_vars
  <2> SUFFICES ASSUME WalletInv, [Next]_vars, NEW tx \in pending \ pending',
                      NEW a \in Accounts \ {OwnerOf(tx)}
               PROVE  RecoveredAccounts(chain'.logs, a, gap_limit)
                        = RecoveredAccounts(chain.logs, a, gap_limit)
    OBVIOUS
  <2>1. CASE \E t \in pending : MineDeposit(t) \/ MineWithdrawal(t) \/ MineRagequit(t)
    <3>1. PICK t \in pending : MineDeposit(t) \/ MineWithdrawal(t) \/ MineRagequit(t)
      BY <2>1
    <3>2. t = tx
      BY <3>1 DEF MineDeposit, MineWithdrawal, MineRagequit
    <3> QED
      BY <3>1, <3>2, OthersKept
  <2>2. CASE UNCHANGED chain
    BY <2>2
  <2>3. ASSUME NEW d \in Devices, DeviceStep(d) PROVE UNCHANGED chain
    BY <2>3 DEF DeviceStep, Scan, VerifyStateRoot, FetchAsp, VerifyAspRoot, BuildWithdrawal,
                SubmitWithdrawal, Deposit, Ragequit, Crash
  <2> QED
    BY <2>1, <2>2, <2>3 DEF Next, Environment, Drop, PublishAsp, vars
<1> QED
  BY <1>1, WalletInvariant, PTL DEF Spec, OthersUnaffected

-----------------------------------------------------------------------------
(* Finite sums.  The community modules' SumFunctionOnSet(f, S) takes the     *)
(* elements of S in the order CHOOSE gives; the sum is that of any order.    *)

\* Induction over the subsets of a finite set: a set of subsets that contains
\* the empty one, and each other one if it contains what is left of that when
\* any element is taken out, contains them all.
LEMMA SubsetInduction ==
    ASSUME NEW S, IsFiniteSet(S), NEW Q \in SUBSET SUBSET S, {} \in Q,
           \A U \in SUBSET S : U # {} /\ (\A x \in U : U \ {x} \in Q) => U \in Q
    PROVE  S \in Q
<1> DEFINE P == {n \in Nat : \A U \in SUBSET S : Cardinality(U) = n => U \in Q}
<1>1. 0 \in P
  <2> SUFFICES ASSUME NEW U \in SUBSET S, Cardinality(U) = 0 PROVE U \in Q
    OBVIOUS
  <2> QED
    BY FS_Subset, FS_EmptySet
<1>2. ASSUME NEW n \in P PROVE n + 1 \in P
  <2> SUFFICES ASSUME NEW U \in SUBSET S, Cardinality(U) = n + 1 PROVE U \in Q
    OBVIOUS
  <2>1. IsFiniteSet(U) /\ n \in Nat /\ n + 1 # 0
    BY FS_Subset
  <2>2. U # {}
    BY <2>1, FS_EmptySet
  <2>3. ASSUME NEW x \in U PROVE U \ {x} \in Q
    <3>1. Cardinality(U \ {x}) = (n + 1) - 1
      BY <2>1, FS_RemoveElement
    <3> QED
      BY <2>1, <3>1
  <2> QED
    BY <2>2, <2>3
<1> HIDE DEF P
<1>3. P \in SUBSET Nat
  BY DEF P
<1>4. Cardinality(S) \in P
  BY <1>1, <1>2, <1>3, SetInduction, FS_CardinalityType
<1> QED
  BY <1>4 DEF P

\* G[T] is the sum of f over T, for every subset T of S, whichever element is
\* taken first.
IsSumOf(G, f, S) ==
    /\ G[{}] = 0
    /\ \A T \in SUBSET S :
          G[T] \in Int /\ \A x \in T : G[T] = f[x] + G[T \ {x}]

Integral(f, S) == \A x \in S : f[x] \in Int

\* The sets of n elements over which every integral function has such a sum.
LEMMA SumExtended ==
    ASSUME NEW S, NEW f, NEW x \in S, Integral(f, S), NEW H, IsSumOf(H, f, S \ {x})
    PROVE  \E G : IsSumOf(G, f, S)
<1> DEFINE G == [T \in SUBSET S |-> IF x \in T THEN f[x] + H[T \ {x}] ELSE H[T]]
<1>1. /\ f[x] \in Int /\ H[{}] = 0
      /\ \A T \in SUBSET (S \ {x}) :
            H[T] \in Int /\ \A y \in T : H[T] = f[y] + H[T \ {y}]
  BY DEF Integral, IsSumOf
<1>2. \A T \in SUBSET S : G[T] = IF x \in T THEN f[x] + H[T \ {x}] ELSE H[T]
  OBVIOUS
<1> HIDE DEF G
<1>3. G[{}] = 0
  BY <1>1, <1>2
<1>4. ASSUME NEW T \in SUBSET S PROVE G[T] \in Int
  <2>1. CASE x \in T
    <3>1. T \ {x} \in SUBSET (S \ {x})
      OBVIOUS
    <3>2. H[T \ {x}] \in Int
      BY <1>1, <3>1
    <3>3. G[T] = f[x] + H[T \ {x}]
      BY <1>2, <2>1
    <3> QED
      BY <1>1, <3>2, <3>3
  <2>2. CASE x \notin T
    <3>1. T \in SUBSET (S \ {x}) /\ G[T] = H[T]
      BY <1>2, <2>2
    <3> QED
      BY <1>1, <3>1
  <2> QED
    BY <2>1, <2>2
<1>5. ASSUME NEW T \in SUBSET S, NEW y \in T PROVE G[T] = f[y] + G[T \ {y}]
  <2>1. CASE x \in T /\ y = x
    <3>1. G[T \ {x}] = H[T \ {x}]
      BY <1>2
    <3>2. G[T] = f[x] + H[T \ {x}]
      BY <1>2, <2>1
    <3> QED
      BY <2>1, <3>1, <3>2
  <2>2. CASE x \in T /\ y # x
    <3> DEFINE U == T \ {x}
               V == (T \ {x}) \ {y}
    <3>1. /\ U \in SUBSET (S \ {x}) /\ V \in SUBSET (S \ {x}) /\ y \in U
          /\ (T \ {y}) \ {x} = V /\ U \ {y} = V /\ x \in T \ {y} /\ T \ {y} \in SUBSET S
      BY <2>2
    <3> HIDE DEF U, V
    <3>2. G[T] = f[x] + H[U]
      BY <1>2, <2>2 DEF U
    <3>3. G[T \ {y}] = f[x] + H[V]
      BY <1>2, <3>1
    <3>4. H[U] = f[y] + H[V] /\ H[V] \in Int /\ f[y] \in Int
      BY <1>1, <3>1 DEF Integral
    <3>5. f[x] + (f[y] + H[V]) = f[y] + (f[x] + H[V])
      BY <1>1, <3>4
    <3> QED
      BY <3>2, <3>3, <3>4, <3>5
  <2>3. CASE x \notin T
    <3>1. T \in SUBSET (S \ {x}) /\ G[T] = H[T] /\ G[T \ {y}] = H[T \ {y}]
      BY <1>2, <2>3
    <3> QED
      BY <1>1, <3>1
  <2> QED
    BY <2>1, <2>2, <2>3
<1>6. IsSumOf(G, f, S)
  BY <1>3, <1>4, <1>5 DEF IsSumOf
<1> QED
  BY <1>6

LEMMA SumExists ==
    ASSUME NEW S, IsFiniteSet(S), NEW f, Integral(f, S)
    PROVE  \E G : IsSumOf(G, f, S)
<1> DEFINE Q == {U \in SUBSET S : \E G : IsSumOf(G, f, U)}
<1>1. {} \in Q
  <2> DEFINE G == [T \in {{}} |-> 0]
  <2>1. G[{}] = 0
    OBVIOUS
  <2> HIDE DEF G
  <2>2. IsSumOf(G, f, {})
    BY <2>1 DEF IsSumOf
  <2> QED
    BY <2>2
<1>2. ASSUME NEW U \in SUBSET S, NEW y \in U, \A x \in U : U \ {x} \in Q PROVE U \in Q
  <2>1. PICK H : IsSumOf(H, f, U \ {y})
    BY <1>2
  <2>2. Integral(f, U)
    BY DEF Integral
  <2> QED
    BY <2>1, <2>2, SumExtended
<1>3. S \in Q
  <2>1. Q \in SUBSET SUBSET S
    OBVIOUS
  <2> HIDE DEF Q
  <2> QED
    BY <1>1, <1>2, <2>1, SubsetInduction
<1> QED
  BY <1>3

\* The recursive function by which SumFunctionOnSet is defined.
Fold(f, S, sum) ==
    sum = [T \in SUBSET S |->
              IF T = {} THEN 0
              ELSE LET x == CHOOSE x \in T : TRUE IN f[x] + sum[T \ {x}]]

LEMMA FoldIs ==
    ASSUME NEW S, NEW f
    PROVE  SumFunctionOnSet(f, S) = (CHOOSE sum : Fold(f, S, sum))[S]
BY DEF SumFunctionOnSet, FoldFunctionOnSet, MapThenFoldSet, Fold

LEMMA FoldIsSum ==
    ASSUME NEW S, IsFiniteSet(S), NEW f, NEW G, IsSumOf(G, f, S)
    PROVE  SumFunctionOnSet(f, S) = G[S]
<1> DEFINE sum == CHOOSE sum : Fold(f, S, sum)
           G0  == [T \in SUBSET S |-> G[T]]
<1>1. Fold(f, S, G0)
  <2>1. ASSUME NEW T \in SUBSET S
        PROVE  G0[T] = IF T = {} THEN 0
                       ELSE LET x == CHOOSE x \in T : TRUE IN f[x] + G0[T \ {x}]
    <3>1. CASE T = {}
      BY <3>1 DEF IsSumOf
    <3>2. CASE T # {}
      <4> DEFINE x == CHOOSE x \in T : TRUE
      <4>1. x \in T
        BY <3>2
      <4> HIDE DEF x
      <4>2. G0[T] = f[x] + G0[T \ {x}]
        BY <4>1 DEF IsSumOf
      <4> QED
        BY <3>2, <4>2 DEF x
    <3> QED
      BY <3>1, <3>2
  <2>2. G0 = [T \in SUBSET S |-> G0[T]]
    OBVIOUS
  <2> HIDE DEF G0
  <2> QED
    BY <2>1, <2>2 DEF Fold
<1>2. Fold(f, S, sum)
  <2> HIDE DEF G0
  <2> QED
    BY <1>1
<1> HIDE DEF sum, G0
<1> DEFINE Q == {T \in SUBSET S : sum[T] = G[T]}
<1>3. {} \in Q
  BY <1>2 DEF Fold, IsSumOf
<1>4. ASSUME NEW T \in SUBSET S, T # {}, \A x \in T : T \ {x} \in Q PROVE T \in Q
  <2> DEFINE x == CHOOSE x \in T : TRUE
  <2>1. x \in T
    BY <1>4
  <2>2. sum[T] = f[x] + sum[T \ {x}]
    BY <1>2, <1>4 DEF Fold
  <2> HIDE DEF x
  <2>3. sum[T \ {x}] = G[T \ {x}]
    BY <1>4, <2>1
  <2> QED
    BY <2>1, <2>2, <2>3 DEF IsSumOf
<1>5. S \in Q
  <2>1. Q \in SUBSET SUBSET S
    OBVIOUS
  <2> HIDE DEF Q
  <2> QED
    BY <1>3, <1>4, <2>1, SubsetInduction
<1>6. sum[S] = G[S]
  BY <1>5
<1> QED
  BY <1>6, FoldIs DEF sum

\* What sums are known by.
LEMMA SumFacts ==
    ASSUME NEW S, IsFiniteSet(S), NEW f, Integral(f, S)
    PROVE  /\ SumFunctionOnSet(f, S) \in Int
           /\ S = {} => SumFunctionOnSet(f, S) = 0
           /\ \A x \in S : SumFunctionOnSet(f, S) = f[x] + SumFunctionOnSet(f, S \ {x})
<1>1. PICK G : IsSumOf(G, f, S)
  BY SumExists
<1>2. SumFunctionOnSet(f, S) = G[S]
  BY <1>1, FoldIsSum
<1>3. ASSUME NEW x \in S PROVE SumFunctionOnSet(f, S \ {x}) = G[S \ {x}]
  <2>1. IsFiniteSet(S \ {x})
    BY FS_RemoveElement
  <2>2. IsSumOf(G, f, S \ {x})
    BY <1>1 DEF IsSumOf
  <2> QED
    BY <2>1, <2>2, FoldIsSum
<1> QED
  BY <1>1, <1>2, <1>3 DEF IsSumOf

LEMMA SameSum ==
    ASSUME NEW S, IsFiniteSet(S), NEW f, NEW g, Integral(f, S), \A x \in S : f[x] = g[x]
    PROVE  SumFunctionOnSet(f, S) = SumFunctionOnSet(g, S)
<1>1. PICK G : IsSumOf(G, f, S)
  BY SumExists
<1>2. IsSumOf(G, g, S)
  BY <1>1 DEF IsSumOf
<1> QED
  BY <1>1, <1>2, FoldIsSum

LEMMA FiniteImage ==
    ASSUME NEW S, IsFiniteSet(S), NEW h
    PROVE  IsFiniteSet({h[x] : x \in S})
<1> DEFINE T == {h[x] : x \in S}
           k == [x \in S |-> h[x]]
<1>1. k \in Surjection(S, T)
  <2>1. k \in [S -> T] /\ \A t \in T : \E x \in S : k[x] = t
    OBVIOUS
  <2> QED
    BY <2>1 DEF Surjection
<1> QED
  BY <1>1, FS_Surjection

\* A sum over an injective image.
LEMMA SumRelabelled ==
    ASSUME NEW S, IsFiniteSet(S), NEW f, NEW g, NEW h, Integral(f, S),
           \A x \in S : g[h[x]] = f[x],
           \A x, y \in S : h[x] = h[y] => x = y
    PROVE  SumFunctionOnSet(g, {h[x] : x \in S}) = SumFunctionOnSet(f, S)
<1> DEFINE Image(U) == {h[x] : x \in U}
           Q == {U \in SUBSET S : SumFunctionOnSet(g, Image(U)) = SumFunctionOnSet(f, U)}
<1>1. {} \in Q
  <2>1. Image({}) = {} /\ Integral(f, {}) /\ Integral(g, {}) /\ IsFiniteSet({})
    BY FS_EmptySet DEF Integral
  <2> QED
    BY <2>1, SumFacts
<1>2. ASSUME NEW U \in SUBSET S, U # {}, \A x \in U : U \ {x} \in Q PROVE U \in Q
  <2>1. PICK x \in U : TRUE
    BY <1>2
  <2>2. IsFiniteSet(U) /\ Integral(f, U)
    BY FS_Subset DEF Integral
  <2>3. IsFiniteSet(Image(U))
    BY <2>2, FiniteImage
  <2>4. Integral(g, Image(U))
    BY DEF Integral
  <2>5. Image(U \ {x}) = Image(U) \ {h[x]} /\ h[x] \in Image(U) /\ g[h[x]] = f[x]
    BY <2>1
  <2>6. SumFunctionOnSet(g, Image(U \ {x})) = SumFunctionOnSet(f, U \ {x})
    BY <1>2, <2>1
  <2> HIDE DEF Image
  <2>7. SumFunctionOnSet(f, U) = f[x] + SumFunctionOnSet(f, U \ {x})
    BY <2>1, <2>2, SumFacts
  <2>8. SumFunctionOnSet(g, Image(U)) = g[h[x]] + SumFunctionOnSet(g, Image(U) \ {h[x]})
    BY <2>3, <2>4, <2>5, SumFacts
  <2> QED
    BY <2>5, <2>6, <2>7, <2>8
<1>3. S \in Q
  <2>1. Q \in SUBSET SUBSET S
    OBVIOUS
  <2> HIDE DEF Q
  <2> QED
    BY <1>1, <1>2, <2>1, SubsetInduction
<1> QED
  BY <1>3

\* Adding d at one element adds d to the sum.
LEMMA SumChanged ==
    ASSUME NEW A, IsFiniteSet(A), NEW p, NEW q, Integral(p, A), NEW b \in A, NEW d \in Int,
           q[b] = p[b] + d, \A a \in A : a # b => q[a] = p[a]
    PROVE  SumFunctionOnSet(q, A) = SumFunctionOnSet(p, A) + d
<1>1. Integral(q, A) /\ Integral(p, A \ {b}) /\ IsFiniteSet(A \ {b})
  BY FS_RemoveElement DEF Integral
<1>2. SumFunctionOnSet(q, A \ {b}) = SumFunctionOnSet(p, A \ {b})
  <2>1. \A a \in A \ {b} : p[a] = q[a]
    OBVIOUS
  <2> QED
    BY <1>1, <2>1, SameSum
<1>3. /\ SumFunctionOnSet(q, A) = q[b] + SumFunctionOnSet(q, A \ {b})
      /\ SumFunctionOnSet(p, A) = p[b] + SumFunctionOnSet(p, A \ {b})
      /\ SumFunctionOnSet(p, A \ {b}) \in Int /\ p[b] \in Int
  BY <1>1, SumFacts DEF Integral
<1> QED
  BY <1>2, <1>3

LEMMA SumOfZeros ==
    ASSUME NEW A, IsFiniteSet(A), NEW p, \A a \in A : p[a] = 0
    PROVE  SumFunctionOnSet(p, A) = 0
<1> DEFINE Q == {U \in SUBSET A : SumFunctionOnSet(p, U) = 0}
<1>1. {} \in Q
  BY SumFacts, FS_EmptySet DEF Integral
<1>2. ASSUME NEW U \in SUBSET A, U # {}, \A x \in U : U \ {x} \in Q PROVE U \in Q
  <2>1. PICK x \in U : TRUE
    BY <1>2
  <2>2. IsFiniteSet(U) /\ Integral(p, U)
    BY FS_Subset DEF Integral
  <2>3. SumFunctionOnSet(p, U) = p[x] + SumFunctionOnSet(p, U \ {x})
    BY <2>1, <2>2, SumFacts
  <2>4. p[x] = 0 /\ SumFunctionOnSet(p, U \ {x}) = 0
    BY <1>2, <2>1
  <2> QED
    BY <2>3, <2>4
<1>3. A \in Q
  <2>1. Q \in SUBSET SUBSET A
    OBVIOUS
  <2> HIDE DEF Q
  <2> QED
    BY <1>1, <1>2, <2>1, SubsetInduction
<1> QED
  BY <1>3

\* A sum over S, taken apart by the values of o.
LEMMA SumOfFibres ==
    ASSUME NEW A, IsFiniteSet(A), NEW S, IsFiniteSet(S), NEW f, Integral(f, S),
           NEW o, \A x \in S : o[x] \in A
    PROVE  SumFunctionOnSet([a \in A |-> SumFunctionOnSet(f, {x \in S : o[x] = a})], A)
             = SumFunctionOnSet(f, S)
<1> DEFINE Fibre(U, a) == {x \in U : o[x] = a}
           Parts(U) == [a \in A |-> SumFunctionOnSet(f, Fibre(U, a))]
           Q == {U \in SUBSET S : SumFunctionOnSet(Parts(U), A) = SumFunctionOnSet(f, U)}
<1>0. ASSUME NEW U \in SUBSET S
      PROVE  /\ IsFiniteSet(U) /\ Integral(f, U)
             /\ \A a \in A : IsFiniteSet(Fibre(U, a)) /\ Integral(f, Fibre(U, a))
             /\ Integral(Parts(U), A)
  <2>1. IsFiniteSet(U) /\ Integral(f, U)
    BY FS_Subset DEF Integral
  <2>2. ASSUME NEW a \in A PROVE IsFiniteSet(Fibre(U, a)) /\ Integral(f, Fibre(U, a))
    BY <2>1, FS_Subset DEF Integral
  <2>3. ASSUME NEW a \in A PROVE Parts(U)[a] \in Int
    <3>1. SumFunctionOnSet(f, Fibre(U, a)) \in Int
      <4> HIDE DEF Fibre
      <4> QED
        BY <2>2, SumFacts
    <3> QED
      BY <3>1
  <2> QED
    BY <2>1, <2>2, <2>3 DEF Integral
<1>1. {} \in Q
  <2>1. \A a \in A : Fibre({}, a) = {}
    OBVIOUS
  <2>2. SumFunctionOnSet(f, {}) = 0
    BY SumFacts, FS_EmptySet DEF Integral
  <2>3. \A a \in A : Parts({})[a] = 0
    <3> HIDE DEF Fibre
    <3> QED
      BY <2>1, <2>2
  <2> HIDE DEF Parts
  <2>4. SumFunctionOnSet(Parts({}), A) = 0
    BY <2>3, SumOfZeros
  <2> QED
    BY <2>2, <2>4
<1>2. ASSUME NEW U \in SUBSET S, U # {}, \A x \in U : U \ {x} \in Q PROVE U \in Q
  <2>1. PICK x \in U : TRUE
    BY <1>2
  <2> DEFINE V == U \ {x}
             b == o[x]
  <2>2. V \in SUBSET S /\ V \in Q /\ b \in A /\ f[x] \in Int
    BY <1>2, <2>1 DEF Integral
  <2>3. /\ Fibre(V, b) = Fibre(U, b) \ {x} /\ x \in Fibre(U, b)
        /\ \A a \in A : a # b => Fibre(V, a) = Fibre(U, a)
    BY <2>1
  <2>4. SumFunctionOnSet(f, U) = f[x] + SumFunctionOnSet(f, V) /\ SumFunctionOnSet(f, V) \in Int
    BY <1>0, <2>1, <2>2, SumFacts
  <2> HIDE DEF b, V
  <2>5. /\ SumFunctionOnSet(f, Fibre(U, b)) = f[x] + SumFunctionOnSet(f, Fibre(V, b))
        /\ SumFunctionOnSet(f, Fibre(V, b)) \in Int
    <3>1. IsFiniteSet(Fibre(U, b)) /\ Integral(f, Fibre(U, b))
      BY <1>0, <2>2
    <3>2. IsFiniteSet(Fibre(V, b)) /\ Integral(f, Fibre(V, b))
      BY <1>0, <2>2
    <3> HIDE DEF Fibre
    <3> QED
      BY <2>3, <3>1, <3>2, SumFacts
  <2>6. \A a \in A : /\ Parts(U)[a] = SumFunctionOnSet(f, Fibre(U, a))
                    /\ Parts(V)[a] = SumFunctionOnSet(f, Fibre(V, a))
    <3> HIDE DEF Fibre
    <3> QED
      OBVIOUS
  <2>7. /\ Parts(U)[b] = Parts(V)[b] + f[x]
        /\ \A a \in A : a # b => Parts(U)[a] = Parts(V)[a]
    <3> HIDE DEF Parts, Fibre
    <3>1. Parts(U)[b] = Parts(V)[b] + f[x]
      BY <2>2, <2>5, <2>6
    <3>2. ASSUME NEW a \in A, a # b PROVE Parts(U)[a] = Parts(V)[a]
      <4>1. Fibre(V, a) = Fibre(U, a)
        BY <2>3, <3>2
      <4> QED
        BY <2>6, <4>1
    <3> QED
      BY <3>1, <3>2
  <2>8. SumFunctionOnSet(Parts(U), A) = SumFunctionOnSet(Parts(V), A) + f[x]
    <3>1. Integral(Parts(V), A)
      BY <1>0, <2>2
    <3> HIDE DEF Parts
    <3> QED
      BY <2>2, <2>7, <3>1, SumChanged
  <2>9. SumFunctionOnSet(Parts(V), A) = SumFunctionOnSet(f, V)
    BY <2>2
  <2> HIDE DEF Parts
  <2> QED
    BY <2>2, <2>4, <2>8, <2>9
<1>3. S \in Q
  <2>1. Q \in SUBSET SUBSET S
    OBVIOUS
  <2> HIDE DEF Q
  <2> QED
    BY <1>1, <1>2, <2>1, SubsetInduction
<1> QED
  BY <1>3

\* The value of a set of notes, one by one.
LEMMA ValueOfNone == ValueOf({}) = 0
<1>1. IsFiniteSet({}) /\ Integral([x \in {} |-> x.value], {})
  BY FS_EmptySet DEF Integral
<1>2. SumFunctionOnSet([x \in {} |-> x.value], {}) = 0
  BY <1>1, SumFacts
<1> QED
  BY <1>2 DEF ValueOf, SumFunction

LEMMA ValueOnSet ==
    ASSUME NEW S, NEW T \in SUBSET S, IsFiniteSet(T), \A x \in T : x.value \in Int
    PROVE  SumFunctionOnSet([x \in S |-> x.value], T) = ValueOf(T)
<1> DEFINE f == [x \in S |-> x.value]
           g == [x \in T |-> x.value]
<1>1. Integral(f, T) /\ \A x \in T : f[x] = g[x]
  BY DEF Integral
<1>2. ValueOf(T) = SumFunctionOnSet(g, T)
  BY DEF ValueOf, SumFunction
<1> HIDE DEF f, g
<1>3. SumFunctionOnSet(f, T) = SumFunctionOnSet(g, T)
  BY <1>1, SameSum
<1> QED
  BY <1>2, <1>3 DEF f

LEMMA ValueAdded ==
    ASSUME NEW S, IsFiniteSet(S), NEW y, y \notin S, y.value \in Int, \A x \in S : x.value \in Int
    PROVE  ValueOf(S \cup {y}) = ValueOf(S) + y.value /\ ValueOf(S) \in Int
<1> DEFINE T == S \cup {y}
           f == [x \in T |-> x.value]
<1>1. IsFiniteSet(T) /\ Integral(f, T) /\ Integral(f, S) /\ y \in T /\ T \ {y} = S /\ f[y] = y.value
  BY FS_AddElement DEF Integral
<1>2. ValueOf(T) = SumFunctionOnSet(f, T) /\ ValueOf(S) = SumFunctionOnSet(f, S)
  <2>1. S \in SUBSET T /\ T \in SUBSET T /\ \A x \in T : x.value \in Int
    OBVIOUS
  <2> HIDE DEF T
  <2> QED
    BY <1>1, <2>1, ValueOnSet
<1> HIDE DEF T, f
<1>3. SumFunctionOnSet(f, T) = f[y] + SumFunctionOnSet(f, T \ {y})
  BY <1>1, SumFacts
<1>4. SumFunctionOnSet(f, S) \in Int
  BY <1>1, SumFacts
<1>5. SumFunctionOnSet(f, T) = SumFunctionOnSet(f, S) + y.value
  <2>1. f[y] = y.value /\ SumFunctionOnSet(f, T \ {y}) = SumFunctionOnSet(f, S)
    BY <1>1
  <2>2. SumFunctionOnSet(f, T) = y.value + SumFunctionOnSet(f, S)
    BY <1>3, <2>1
  <2>3. \A u, v \in Int : u + v = v + u
    OBVIOUS
  <2> QED
    BY <1>4, <2>2, <2>3
<1>6. ValueOf(T) = ValueOf(S) + y.value /\ ValueOf(S) \in Int
  BY <1>2, <1>4, <1>5
<1> QED
  BY <1>6 DEF T

\* The total of a log, event by event.
LEMMA TotalOfNone == Total(<<>>) = 0
<1> DEFINE f == [n \in DOMAIN <<>> |-> <<>>[n].value]
<1>1. DOMAIN <<>> = {} /\ DOMAIN f = {}
  OBVIOUS
<1>2. Total(<<>>) = SumFunctionOnSet(f, {})
  BY <1>1 DEF Total, SumFunction
<1> HIDE DEF f
<1> QED
  BY <1>2, SumFacts, FS_EmptySet DEF Integral

LEMMA TotalType ==
    ASSUME NEW T, NEW log \in Seq(T), \A x \in T : x.value \in Int
    PROVE  Total(log) \in Int
<1> DEFINE N == Len(log)
           f == [n \in DOMAIN log |-> log[n].value]
<1>1. N \in Nat /\ 1 \in Int /\ N \in Int /\ DOMAIN f = 1..N /\ \A n \in 1..N : f[n] \in Int
  OBVIOUS
<1>2. Total(log) = SumFunctionOnSet(f, 1..N)
  BY <1>1 DEF Total, SumFunction
<1>3. IsFiniteSet(1..N)
  BY <1>1, FS_Interval
<1> HIDE DEF f, N
<1> QED
  BY <1>1, <1>2, <1>3, SumFacts DEF Integral

LEMMA TotalAdded ==
    ASSUME NEW T, NEW log \in Seq(T), NEW e \in T, \A x \in T : x.value \in Int
    PROVE  Total(Append(log, e)) = Total(log) + e.value
<1> DEFINE N == Len(log)
           f == [n \in DOMAIN log |-> log[n].value]
           g == [n \in DOMAIN Append(log, e) |-> Append(log, e)[n].value]
<1>1. /\ N \in Nat /\ DOMAIN log = 1..N /\ DOMAIN Append(log, e) = (1..N) \cup {N + 1}
      /\ N + 1 \notin 1..N /\ Append(log, e)[N + 1] = e
      /\ \A n \in 1..N : Append(log, e)[n] = log[n] /\ log[n] \in T
  BY AppendToLog
<1>2. /\ DOMAIN f = 1..N /\ DOMAIN g = (1..N) \cup {N + 1} /\ g[N + 1] = e.value
      /\ \A n \in 1..N : f[n] = g[n] /\ f[n] \in Int
  BY <1>1
<1>3. /\ Total(log) = SumFunctionOnSet(f, 1..N)
      /\ Total(Append(log, e)) = SumFunctionOnSet(g, (1..N) \cup {N + 1})
  BY <1>2 DEF Total, SumFunction
<1>4. IsFiniteSet(1..N) /\ IsFiniteSet((1..N) \cup {N + 1})
  <2>1. 1 \in Int /\ N \in Int
    BY <1>1
  <2>2. IsFiniteSet(1..N)
    BY <2>1, FS_Interval
  <2> HIDE DEF N
  <2> QED
    BY <2>2, FS_AddElement
<1>5. e.value \in Int
  OBVIOUS
<1> HIDE DEF f, g, N
<1>6. Integral(f, 1..N) /\ Integral(g, (1..N) \cup {N + 1})
  BY <1>2, <1>5 DEF Integral
<1>7. SumFunctionOnSet(f, 1..N) = SumFunctionOnSet(g, 1..N) /\ SumFunctionOnSet(f, 1..N) \in Int
  BY <1>2, <1>4, <1>6, SameSum, SumFacts
<1>8. ((1..N) \cup {N + 1}) \ {N + 1} = 1..N
  BY <1>1
<1>9. SumFunctionOnSet(g, (1..N) \cup {N + 1}) = g[N + 1] + SumFunctionOnSet(g, 1..N)
  <2> DEFINE S == (1..N) \cup {N + 1}
  <2>1. N + 1 \in S /\ S \ {N + 1} = 1..N
    BY <1>8
  <2> HIDE DEF S
  <2>2. SumFunctionOnSet(g, S) = g[N + 1] + SumFunctionOnSet(g, S \ {N + 1})
    BY <1>4, <1>6, <2>1, SumFacts DEF S
  <2> QED
    BY <2>1, <2>2 DEF S
<1> QED
  BY <1>2, <1>3, <1>5, <1>7, <1>9

-----------------------------------------------------------------------------
(* The refinement of NoteLedger.  A label has at most one unspent leaf, so  *)
(* the sum that is its balance has at most one term.                       *)

LEMMA BalanceOfNone ==
    ASSUME NEW ch, NEW l, UnspentUnder(ch, l) = {}
    PROVE  BalanceOf(ch, l) = 0
BY ValueOfNone DEF BalanceOf

LEMMA BalanceOfOne ==
    ASSUME NEW ch, NEW l, NEW leaf, leaf.value \in Nat, UnspentUnder(ch, l) = {leaf}
    PROVE  BalanceOf(ch, l) = leaf.value
<1>1. ValueOf({} \cup {leaf}) = ValueOf({}) + leaf.value
  BY ValueAdded, FS_EmptySet
<1>2. ValueOf({leaf}) = leaf.value
  BY <1>1, ValueOfNone
<1> QED
  BY <1>2 DEF BalanceOf

LEMMA OneUnspent ==
    ASSUME NEW ch, ChainOK(ch), NEW l, NEW leaf \in UnspentUnder(ch, l)
    PROVE  UnspentUnder(ch, l) = {leaf} /\ BalanceOf(ch, l) = leaf.value
<1>1. ch.logs \in PoolLogs /\ HistoryOK(ch.logs) /\ ch.spent = SpentIn(ch.logs)
  BY DEF ChainOK
<1>2. \A x \in UnspentUnder(ch, l) :
         x = commitment_hash(CurrentNote(AccountAt(ch.logs, l)))
  BY <1>1, UnspentIsTip DEF UnspentUnder
<1>3. UnspentUnder(ch, l) = {leaf}
  BY <1>2
<1>4. leaf.value \in Nat
  BY <1>1, LogTypes, LeafType DEF UnspentUnder
<1> QED
  BY <1>3, <1>4, BalanceOfOne

LEMMA BalanceType ==
    ASSUME NEW ch, ChainOK(ch), NEW l
    PROVE  BalanceOf(ch, l) \in Nat
<1>1. CASE UnspentUnder(ch, l) = {}
  BY <1>1, BalanceOfNone
<1>2. CASE UnspentUnder(ch, l) # {}
  <2>1. PICK leaf : leaf \in UnspentUnder(ch, l)
    BY <1>2
  <2>2. leaf.value \in Nat
    BY <2>1, LogTypes, LeafType DEF UnspentUnder, ChainOK
  <2> QED
    BY <2>1, <2>2, OneUnspent
<1> QED
  BY <1>1, <1>2

\* The balances under labels with the same unspent leaves are the same.
LEMMA SameBalance ==
    ASSUME NEW ch, NEW next, NEW l, UnspentUnder(next, l) = UnspentUnder(ch, l)
    PROVE  BalanceOf(next, l) = BalanceOf(ch, l)
BY DEF BalanceOf

LedgerOf(ch) ==
    [l \in DOMAIN ch.logs.deposits |->
        [owner |-> Owner(ch.logs, l), balance |-> BalanceOf(ch, l)]]

LEMMA EntriesAre ==
    ASSUME NEW ch, ChainOK(ch)
    PROVE  [l \in {ch.logs.deposits[n].label : n \in DOMAIN ch.logs.deposits} |->
              [owner   |-> ch.logs.deposits[l].precommitment.nullifier_and_secret.account,
               balance |-> BalanceOf(ch, l)]] = LedgerOf(ch)
<1>1. \A n \in DOMAIN ch.logs.deposits : ch.logs.deposits[n].label = n
  BY DepositOK DEF ChainOK
<1>2. {ch.logs.deposits[n].label : n \in DOMAIN ch.logs.deposits} = DOMAIN ch.logs.deposits
  BY <1>1
<1> QED
  BY <1>2 DEF LedgerOf, Owner, DepositKey

LEMMA EntriesNow ==
    ASSUME WalletInv
    PROVE  /\ ChainOK(chain) /\ Entries = LedgerOf(chain)
           /\ DOMAIN Entries = DOMAIN chain.logs.deposits
<1>1. ChainOK(chain)
  BY DEF WalletInv, TypeOK, ChainOK
<1> QED
  BY <1>1, EntriesAre DEF Entries, LedgerOf

LEMMA EntriesNext == ASSUME ChainOK(chain') PROVE Entries' = LedgerOf(chain')
BY EntriesAre DEF Entries

\* The leaf that a deposit inserts when it is mined, and what else it changes.
InsertedLeaf(tx) ==
    [value |-> u256_to_field(tx.value), label |-> label(Len(chain.logs.deposits) + 1),
     precommitment |-> tx.pre]

LEMMA DepositMined ==
    ASSUME WalletInv, NEW tx \in pending, MineDeposit(tx)
    PROVE  /\ tx.value \in DepositAmounts /\ tx.value \in Nat \ {0}
           /\ tx.pre \in Precommitments
           /\ Len(chain.logs.deposits) < MaxDeposits
           /\ InsertedLeaf(tx).value = tx.value /\ InsertedLeaf(tx).precommitment = tx.pre
           /\ InsertedLeaf(tx).label = Len(chain.logs.deposits) + 1
           /\ LeavesOf(chain'.logs) = LeavesOf(chain.logs) \cup {InsertedLeaf(tx)}
           /\ InsertedLeaf(tx) \notin LeavesOf(chain.logs)
           /\ nullifier_hash(KeyOf(InsertedLeaf(tx))) \notin SpentIn(chain.logs)
           /\ chain'.logs.deposits =
                 Append(chain.logs.deposits,
                        DepositLog(InsertedLeaf(tx), label(Len(chain.logs.deposits) + 1),
                                   tx.value, tx.pre))
           /\ chain'.logs.withdrawals = chain.logs.withdrawals
           /\ chain'.logs.ragequits = chain.logs.ragequits
           /\ chain'.spent = chain.spent
<1> DEFINE old  == chain.logs
           new  == chain'.logs
           N    == Len(old.deposits)
           leaf == InsertedLeaf(tx)
           dep  == DepositLog(leaf, label(N + 1), tx.value, tx.pre)
<1>1. /\ ChainOK(chain) /\ ChainOK(chain')
      /\ old \in PoolLogs /\ HistoryOK(old) /\ HistoryOK(new)
  BY EntriesNow, MinedInOrder DEF ChainOK
<1>2. /\ tx.kind = "deposit" /\ chain' = AfterDeposit(chain, tx.pre, tx.value)
      /\ N < MaxDeposits /\ tx \in Transactions
  BY DEF MineDeposit, WalletInv, TypeOK
<1>3. tx.value \in DepositAmounts /\ tx.pre \in Precommitments
  BY <1>2 DEF Transactions
<1>4. tx.value \in Nat \ {0} /\ leaf.value = tx.value /\ leaf.label = N + 1
      /\ leaf.precommitment = tx.pre
  <2>1. tx.value \in Nat \ {0} /\ u256_to_field(tx.value) = tx.value
    BY <1>3, AmountsAssumption, FieldIdentity
  <2> QED
    BY <2>1 DEF InsertedLeaf, label
<1>5. /\ new.leaves = Append(old.leaves, leaf) /\ new.deposits = Append(old.deposits, dep)
      /\ new.withdrawals = old.withdrawals /\ new.ragequits = old.ragequits
      /\ chain'.spent = chain.spent
  <2> HIDE DEF leaf, dep
  <2> QED
    BY <1>1, <1>2 DEF AfterDeposit, LeafAdded, ChainOK, PoolLogs, leaf, dep, InsertedLeaf
<1>6. /\ N \in Nat /\ DOMAIN old.deposits = 1..N
      /\ old.leaves \in Seq(CommitmentHashes) /\ old.deposits \in Seq(DepositLogs)
  BY <1>1, LogTypes
<1> HIDE DEF leaf, dep
<1>7. LeavesOf(new) = LeavesOf(old) \cup {leaf}
  <2>1. /\ DOMAIN Append(old.leaves, leaf) = DOMAIN old.leaves \cup {Len(old.leaves) + 1}
        /\ Append(old.leaves, leaf)[Len(old.leaves) + 1] = leaf
        /\ \A k \in DOMAIN old.leaves : Append(old.leaves, leaf)[k] = old.leaves[k]
    BY <1>6
  <2> QED
    BY <1>5, <2>1 DEF LeavesOf
<1>8. \A x \in LeavesOf(old) : x.label \in 1..N
  BY <1>1, <1>6, LeafInChain
<1>9. leaf \notin LeavesOf(old)
  <2>1. N + 1 \notin 1..N
    BY <1>6
  <2> QED
    BY <1>4, <1>8, <2>1
<1>10. nullifier_hash(KeyOf(leaf)) \notin SpentIn(old)
  <2>1. ASSUME NEW x \in LeavesOf(old) PROVE KeyOf(x) # KeyOf(leaf)
    BY <1>1, <1>7, <1>9, LeafOfKey
  <2> QED
    BY <1>1, <2>1, SpentKeysAreLeaves
<1> QED
  BY <1>2, <1>3, <1>4, <1>5, <1>7, <1>9, <1>10 DEF leaf, dep

\* A mined deposit opens an entry.
LEMMA DepositOpens ==
    ASSUME WalletInv, NEW tx \in pending, MineDeposit(tx)
    PROVE  \E o \in Accounts, v \in DepositAmounts, l \in 1..MaxDeposits : Ledger!Open(o, v, l)
<1> DEFINE old  == chain.logs
           new  == chain'.logs
           N    == Len(old.deposits)
           l    == N + 1
           leaf == InsertedLeaf(tx)
           dep  == DepositLog(leaf, label(l), tx.value, tx.pre)
           key  == tx.pre.nullifier_and_secret
<1>1. /\ ChainOK(chain) /\ ChainOK(chain') /\ Continues(new, old) /\ UNCHANGED asp
      /\ old \in PoolLogs /\ HistoryOK(old) /\ new \in PoolLogs /\ HistoryOK(new)
      /\ chain.spent = SpentIn(old) /\ chain'.spent = SpentIn(new)
  BY EntriesNow, MinedInOrder DEF ChainOK
<1>2. /\ tx.value \in DepositAmounts /\ tx.value \in Nat /\ key.account \in Accounts
      /\ N < MaxDeposits
      /\ leaf.value = tx.value /\ leaf.label = l
      /\ LeavesOf(new) = LeavesOf(old) \cup {leaf}
      /\ nullifier_hash(KeyOf(leaf)) \notin SpentIn(old)
      /\ new.deposits = Append(old.deposits, dep) /\ chain'.spent = chain.spent
  <2>1. tx.pre \in Precommitments
    BY DepositMined
  <2>2. key.account \in Accounts
    BY <2>1 DEF Precommitments, Keys
  <2> HIDE DEF leaf, key
  <2> QED
    BY <2>2, DepositMined DEF leaf
<1>3. dep.precommitment = tx.pre
  BY DEF DepositLog
<1> HIDE DEF leaf, dep, key
<1>4. N \in Nat /\ DOMAIN old.deposits = 1..N /\ old.deposits \in Seq(DepositLogs)
  BY <1>1, LogTypes
<1>5. /\ DOMAIN new.deposits = DOMAIN old.deposits \cup {l} /\ l \notin DOMAIN old.deposits
      /\ new.deposits[l] = dep
  BY <1>2, <1>4
<1>6. \A x \in LeavesOf(old) : x.label \in DOMAIN old.deposits /\ x.label # l
  BY <1>1, <1>5, LeafInChain
<1> HIDE DEF new, old, l
<1>7. \A m \in DOMAIN old.deposits : BalanceOf(chain', m) = BalanceOf(chain, m)
  <2>1. ASSUME NEW m \in DOMAIN old.deposits
        PROVE  UnspentUnder(chain', m) = UnspentUnder(chain, m)
    BY <1>2, <1>5 DEF UnspentUnder, new, old
  <2> QED
    BY <2>1, SameBalance
<1>8. BalanceOf(chain', l) = tx.value
  <2>1. leaf \in UnspentUnder(chain', l)
    BY <1>1, <1>2 DEF UnspentUnder, new
  <2> QED
    BY <1>1, <1>2, <2>1, OneUnspent
<1>9. Owner(new, l) = key.account
  BY <1>3, <1>5 DEF Owner, DepositKey, key
<1>10. \A m \in DOMAIN old.deposits : Owner(new, m) = Owner(old, m)
  BY <1>1, ChainKept
<1>11. /\ LedgerOf(chain) = [m \in DOMAIN old.deposits |->
                              [owner |-> Owner(old, m), balance |-> BalanceOf(chain, m)]]
       /\ LedgerOf(chain') = [m \in DOMAIN new.deposits |->
                              [owner |-> Owner(new, m), balance |-> BalanceOf(chain', m)]]
  BY DEF LedgerOf, old, new
<1>12. LedgerOf(chain') = [m \in DOMAIN LedgerOf(chain) \cup {l} |->
                              IF m = l THEN [owner |-> key.account, balance |-> tx.value]
                              ELSE LedgerOf(chain)[m]]
  BY <1>5, <1>7, <1>8, <1>9, <1>10, <1>11
<1>13. /\ l \in 1..MaxDeposits /\ l \notin DOMAIN LedgerOf(chain)
       /\ l = 1 \/ l - 1 \in DOMAIN LedgerOf(chain)
  <2>1. l \in 1..MaxDeposits /\ (l = 1 \/ l - 1 \in 1..N)
    BY <1>2, <1>4, BoundsAssumption DEF l
  <2> QED
    BY <1>4, <1>5, <1>11, <2>1
<1>14. /\ Entries = LedgerOf(chain) /\ Entries' = LedgerOf(chain')
  BY <1>1, EntriesNow, EntriesNext
<1>15. Ledger!Open(key.account, tx.value, l)
  BY <1>1, <1>12, <1>13, <1>14 DEF Ledger!Open
<1> QED
  BY <1>2, <1>13, <1>15 DEF key

\* A mined withdrawal takes its amount from the entry of the note it spends.
LEMMA WithdrawalTakes ==
    ASSUME WalletInv, NEW tx \in pending, MineWithdrawal(tx)
    PROVE  \E l \in DOMAIN Entries, v \in WithdrawAmounts : Ledger!Withdraw(l, v)
<1> DEFINE p    == tx.plan
           old  == chain.logs
           new  == chain'.logs
           l    == p.existing.label
           v    == p.withdrawn_value
           note == commitment_hash(p.existing)
           leaf == NewCommitment(p)
<1>1. /\ ChainOK(chain) /\ ChainOK(chain') /\ Continues(new, old) /\ UNCHANGED asp
      /\ old \in PoolLogs /\ HistoryOK(old)
      /\ chain.spent = SpentIn(old) /\ chain'.spent = SpentIn(new)
  BY EntriesNow, MinedInOrder DEF ChainOK
<1>2. /\ p \in Plans /\ PlanOK(p, old) /\ nullifier_hash(p.existing.key) \notin chain.spent
      /\ KeyOf(leaf) = p.new_key /\ leaf.label = l /\ leaf.value = p.existing.value - v
      /\ LeavesOf(new) = LeavesOf(old) \cup {leaf}
      /\ chain'.spent = chain.spent \cup {nullifier_hash(p.existing.key)}
      /\ nullifier_hash(p.new_key) \notin chain'.spent
  BY <1>1, ChangeNoteUnspent
<1>3. new.deposits = old.deposits
  <2>1. chain' = AfterWithdrawal(chain, p) /\ chain \in [logs: PoolLogs, spent: SUBSET NullifierHashes]
    BY <1>1, ChangeNoteUnspent DEF ChainOK
  <2> QED
    BY <2>1 DEF AfterWithdrawal, PoolLogs
<1>4. /\ note \in LeavesOf(old) /\ l \in DOMAIN old.deposits /\ v \in WithdrawAmounts
      /\ v <= p.existing.value /\ l \in p.asp_root
      /\ KeyOf(note) = p.existing.key /\ note.label = l /\ note.value = p.existing.value
  <2>1. KeyOf(note) = p.existing.key /\ note.label = l /\ note.value = p.existing.value
    BY CommitmentInjective
  <2> QED
    BY <1>2, <2>1 DEF PlanOK, WithdrawCircuit
<1>5. l \in asp
  BY <1>4 DEF MineWithdrawal, Accepts, AcceptsWithdrawal
<1> HIDE DEF old, new, l, v, note, leaf, p
<1>6. BalanceOf(chain, l) = note.value
  <2>1. note \in UnspentUnder(chain, l)
    BY <1>2, <1>4 DEF UnspentUnder, old
  <2> QED
    BY <1>1, <2>1, OneUnspent
<1>7. BalanceOf(chain', l) = leaf.value
  <2>1. leaf \in UnspentUnder(chain', l)
    BY <1>2 DEF UnspentUnder, new
  <2> QED
    BY <1>1, <2>1, OneUnspent
<1>8. \A m \in DOMAIN old.deposits : m # l => BalanceOf(chain', m) = BalanceOf(chain, m)
  <2>1. ASSUME NEW m \in DOMAIN old.deposits, m # l
        PROVE  UnspentUnder(chain', m) = UnspentUnder(chain, m)
    <3>1. ASSUME NEW x \in LeavesOf(old), x.label = m
          PROVE  nullifier_hash(KeyOf(x)) # nullifier_hash(p.existing.key)
      BY <1>1, <1>4, <2>1, <3>1, LeafOfKey, NullifierInjective
    <3> QED
      BY <1>2, <2>1, <3>1 DEF UnspentUnder, new, old
  <2> QED
    BY <2>1, SameBalance
<1>9. \A m : Owner(new, m) = Owner(old, m)
  BY <1>3 DEF Owner, DepositKey
<1>10. /\ LedgerOf(chain) = [m \in DOMAIN old.deposits |->
                              [owner |-> Owner(old, m), balance |-> BalanceOf(chain, m)]]
       /\ LedgerOf(chain') = [m \in DOMAIN old.deposits |->
                              [owner |-> Owner(old, m), balance |-> BalanceOf(chain', m)]]
  BY <1>3, <1>9 DEF LedgerOf, old, new
<1>11. BalanceOf(chain', l) = BalanceOf(chain, l) - v /\ v <= BalanceOf(chain, l)
  BY <1>2, <1>4, <1>6, <1>7
<1>12. LedgerOf(chain') = [LedgerOf(chain) EXCEPT ![l].balance = @ - v]
  <2>1. LedgerOf(chain)[l] = [owner |-> Owner(old, l), balance |-> BalanceOf(chain, l)]
    BY <1>4, <1>10
  <2>2. [LedgerOf(chain)[l] EXCEPT !.balance = LedgerOf(chain)[l].balance - v]
          = [owner |-> Owner(old, l), balance |-> BalanceOf(chain', l)]
    BY <1>11, <2>1
  <2> QED
    BY <1>4, <1>8, <1>10, <2>2
<1>13. /\ Entries = LedgerOf(chain) /\ Entries' = LedgerOf(chain')
  BY <1>1, EntriesNow, EntriesNext
<1>14. l \in DOMAIN Entries /\ v <= Entries[l].balance
  BY <1>4, <1>10, <1>11, <1>13
<1>15. Ledger!Withdraw(l, v)
  BY <1>1, <1>5, <1>12, <1>13, <1>14 DEF Ledger!Withdraw
<1> QED
  BY <1>4, <1>14, <1>15

\* A mined ragequit empties the entry of its note.
LEMMA RagequitEmpties ==
    ASSUME WalletInv, NEW tx \in pending, MineRagequit(tx)
    PROVE  \E l \in DOMAIN Entries : Ledger!Exit(l)
<1> DEFINE old  == chain.logs
           new  == chain'.logs
           leaf == commitment_hash(tx.note)
           l    == tx.note.label
<1>1. /\ ChainOK(chain) /\ ChainOK(chain') /\ Continues(new, old) /\ UNCHANGED asp
      /\ old \in PoolLogs /\ HistoryOK(old) /\ chain.spent = SpentIn(old)
  BY EntriesNow, MinedInOrder DEF ChainOK
<1>2. /\ tx.kind = "ragequit" /\ chain' = AfterRagequit(chain, tx.note)
      /\ leaf \in LeavesOf(old) /\ nullifier_hash(tx.note.key) \notin chain.spent
      /\ tx.note \in Commitments /\ tx.note.value # 0
  <2>1. tx.kind = "ragequit" /\ tx \in Transactions /\ tx.note.value # 0
    BY DEF MineRagequit, WalletInv, TypeOK, PendingOK
  <2> QED
    BY <2>1 DEF MineRagequit, Accepts, AcceptsRagequit, LeavesOf, Transactions
<1>3. /\ new.leaves = old.leaves /\ new.deposits = old.deposits
      /\ chain'.spent = chain.spent \cup {nullifier_hash(tx.note.key)}
  BY <1>1, <1>2 DEF AfterRagequit, ChainOK, PoolLogs
<1>4. /\ KeyOf(leaf) = tx.note.key /\ leaf.label = l /\ leaf.value = tx.note.value
      /\ tx.note.value \in Nat
  <2>1. KeyOf(leaf) = tx.note.key /\ leaf.label = l /\ leaf.value = tx.note.value
    BY CommitmentInjective
  <2> QED
    BY <1>2, <2>1 DEF Commitments
<1> HIDE DEF old, new, l, leaf
<1>5. l \in DOMAIN old.deposits
  BY <1>1, <1>2, <1>4, LeafInChain
<1>6. UnspentUnder(chain, l) = {leaf} /\ BalanceOf(chain, l) = leaf.value
  <2>1. leaf \in UnspentUnder(chain, l)
    BY <1>2, <1>4 DEF UnspentUnder, old
  <2> QED
    BY <1>1, <2>1, OneUnspent
<1>7. LeavesOf(new) = LeavesOf(old)
  BY <1>3 DEF LeavesOf
<1>8. BalanceOf(chain', l) = 0
  <2>1. UnspentUnder(chain', l) \subseteq UnspentUnder(chain, l)
    BY <1>3, <1>7 DEF UnspentUnder, old, new
  <2>2. leaf \notin UnspentUnder(chain', l)
    BY <1>3, <1>4 DEF UnspentUnder
  <2>3. UnspentUnder(chain', l) = {}
    BY <1>6, <2>1, <2>2
  <2> QED
    BY <2>3, BalanceOfNone
<1>9. \A m \in DOMAIN old.deposits : m # l => BalanceOf(chain', m) = BalanceOf(chain, m)
  <2>1. ASSUME NEW m \in DOMAIN old.deposits, m # l
        PROVE  UnspentUnder(chain', m) = UnspentUnder(chain, m)
    <3>1. ASSUME NEW x \in LeavesOf(old), x.label = m
          PROVE  nullifier_hash(KeyOf(x)) # nullifier_hash(tx.note.key)
      BY <1>1, <1>2, <1>4, <2>1, <3>1, LeafOfKey, NullifierInjective
    <3> QED
      BY <1>3, <1>7, <3>1 DEF UnspentUnder, new, old
  <2> QED
    BY <2>1, SameBalance
<1>10. \A m : Owner(new, m) = Owner(old, m)
  BY <1>3 DEF Owner, DepositKey
<1>11. /\ LedgerOf(chain) = [m \in DOMAIN old.deposits |->
                              [owner |-> Owner(old, m), balance |-> BalanceOf(chain, m)]]
       /\ LedgerOf(chain') = [m \in DOMAIN old.deposits |->
                              [owner |-> Owner(old, m), balance |-> BalanceOf(chain', m)]]
  BY <1>3, <1>10 DEF LedgerOf, old, new
<1>12. LedgerOf(chain') = [LedgerOf(chain) EXCEPT ![l] = [@ EXCEPT !.balance = 0]]
  <2>1. LedgerOf(chain)[l] = [owner |-> Owner(old, l), balance |-> BalanceOf(chain, l)]
    BY <1>5, <1>11
  <2>2. [LedgerOf(chain)[l] EXCEPT !.balance = 0]
          = [owner |-> Owner(old, l), balance |-> BalanceOf(chain', l)]
    BY <1>8, <2>1
  <2> QED
    BY <1>5, <1>9, <1>11, <2>2
<1>13. /\ Entries = LedgerOf(chain) /\ Entries' = LedgerOf(chain')
  BY <1>1, EntriesNow, EntriesNext
<1>14. l \in DOMAIN Entries /\ Entries[l].balance > 0
  BY <1>2, <1>4, <1>5, <1>6, <1>11, <1>13
<1>15. Ledger!Exit(l)
  BY <1>1, <1>12, <1>13, <1>14 DEF Ledger!Exit
<1> QED
  BY <1>14, <1>15

\* Wallets and pool implement the ledger (flow.rs, sync.rs:283-310).
THEOREM WalletRefinesLedger == Spec => RefinesLedger
<1>1. Init => Ledger!Init
  <2> SUFFICES ASSUME Init PROVE Ledger!Init
    OBVIOUS
  <2>1. asp = {} /\ DOMAIN chain.logs.deposits = {}
    BY DEF Init, Genesis, EmptyLogs
  <2>2. {chain.logs.deposits[n].label : n \in DOMAIN chain.logs.deposits} = {}
    BY <2>1
  <2> QED
    BY <2>1, <2>2 DEF Ledger!Init, Entries
<1>2. WalletInv /\ [Next]_vars => [Ledger!Next]_(Ledger!vars)
  <2> SUFFICES ASSUME WalletInv, [Next]_vars PROVE [Ledger!Next]_(Ledger!vars)
    OBVIOUS
  <2>1. ASSUME NEW tx \in pending, MineDeposit(tx) PROVE Ledger!Next
    BY <2>1, DepositOpens DEF Ledger!Next
  <2>2. ASSUME NEW tx \in pending, MineWithdrawal(tx) PROVE Ledger!Next
    BY <2>2, WithdrawalTakes DEF Ledger!Next
  <2>3. ASSUME NEW tx \in pending, MineRagequit(tx) PROVE Ledger!Next
    BY <2>3, RagequitEmpties DEF Ledger!Next
  <2>4. ASSUME NEW i \in DOMAIN chain.logs.deposits, PublishAsp(chain.logs.deposits[i].label)
        PROVE  Ledger!Next
    <3>1. UNCHANGED chain /\ asp' \subseteq asp \cup {i}
      <4>1. chain.logs.deposits[i].label = i
        BY DepositOK DEF WalletInv, TypeOK
      <4> QED
        BY <2>4, <4>1 DEF PublishAsp
    <3>2. UNCHANGED Entries
      BY <3>1 DEF Entries
    <3>3. asp' \in SUBSET DOMAIN Entries
      BY <3>1, EntriesNow DEF WalletInv
    <3> QED
      BY <3>2, <3>3 DEF Ledger!Next, Ledger!Approve
  <2>5. CASE UNCHANGED <<chain, asp>>
    <3>1. UNCHANGED Entries
      BY <2>5 DEF Entries
    <3> QED
      BY <2>5, <3>1 DEF Ledger!vars
  <2>6. ASSUME NEW d \in Devices, DeviceStep(d) PROVE UNCHANGED <<chain, asp>>
    BY <2>6 DEF DeviceStep, Scan, VerifyStateRoot, FetchAsp, VerifyAspRoot, BuildWithdrawal,
                SubmitWithdrawal, Deposit, Ragequit, Crash
  <2> QED
    BY <2>1, <2>2, <2>3, <2>4, <2>5, <2>6 DEF Next, Environment, Drop, vars
<1> QED
  BY <1>1, <1>2, WalletInvariant, PTL DEF Spec, RefinesLedger, Ledger!Spec

-----------------------------------------------------------------------------
(* The books.  What nothing has claimed changes with each mined             *)
(* transaction by the amount that is logged.                               *)

LEMMA UnclaimedFinite ==
    ASSUME NEW ch, ChainOK(ch)
    PROVE  /\ IsFiniteSet(LeavesOf(ch.logs)) /\ IsFiniteSet(Unclaimed(ch))
           /\ \A leaf \in LeavesOf(ch.logs) : leaf.value \in Nat
<1>1. ch.logs \in PoolLogs
  BY DEF ChainOK
<1>2. /\ Len(ch.logs.leaves) \in Nat /\ DOMAIN ch.logs.leaves = 1..Len(ch.logs.leaves)
      /\ \A leaf \in LeavesOf(ch.logs) : leaf.value \in Nat
  BY <1>1, LogTypes, LeafType
<1>3. IsFiniteSet(1..Len(ch.logs.leaves))
  <2>1. 1 \in Int /\ Len(ch.logs.leaves) \in Int
    BY <1>2
  <2> QED
    BY <2>1, FS_Interval
<1>4. IsFiniteSet(LeavesOf(ch.logs))
  BY <1>2, <1>3, FiniteImage DEF LeavesOf
<1>5. Unclaimed(ch) \in SUBSET LeavesOf(ch.logs)
  BY DEF Unclaimed
<1> QED
  BY <1>2, <1>4, <1>5, FS_Subset

LEMMA TotalsOfChain ==
    ASSUME NEW ch, ChainOK(ch)
    PROVE  /\ Total(ch.logs.deposits) \in Int /\ Total(ch.logs.withdrawals) \in Int
           /\ Total(ch.logs.ragequits) \in Int
           /\ \A e \in DepositLogs :
                 Total(Append(ch.logs.deposits, e)) = Total(ch.logs.deposits) + e.value
           /\ \A e \in WithdrawLogs :
                 Total(Append(ch.logs.withdrawals, e)) = Total(ch.logs.withdrawals) + e.value
           /\ \A e \in RagequitLogs :
                 Total(Append(ch.logs.ragequits, e)) = Total(ch.logs.ragequits) + e.value
<1>1. /\ ch.logs.deposits \in Seq(DepositLogs) /\ ch.logs.withdrawals \in Seq(WithdrawLogs)
      /\ ch.logs.ragequits \in Seq(RagequitLogs)
  BY LogTypes DEF ChainOK
<1>2. /\ \A x \in DepositLogs : x.value \in Int
      /\ \A x \in WithdrawLogs : x.value \in Int
      /\ \A x \in RagequitLogs : x.value \in Int
  BY DEF DepositLogs, WithdrawLogs, RagequitLogs
<1>3. ASSUME NEW e \in DepositLogs
      PROVE  Total(Append(ch.logs.deposits, e)) = Total(ch.logs.deposits) + e.value
  BY <1>1, <1>2, TotalAdded
<1>4. ASSUME NEW e \in WithdrawLogs
      PROVE  Total(Append(ch.logs.withdrawals, e)) = Total(ch.logs.withdrawals) + e.value
  BY <1>1, <1>2, TotalAdded
<1>5. ASSUME NEW e \in RagequitLogs
      PROVE  Total(Append(ch.logs.ragequits, e)) = Total(ch.logs.ragequits) + e.value
  BY <1>1, <1>2, TotalAdded
<1>6. /\ Total(ch.logs.deposits) \in Int /\ Total(ch.logs.withdrawals) \in Int
      /\ Total(ch.logs.ragequits) \in Int
  BY <1>1, <1>2, TotalType
<1> QED
  BY <1>3, <1>4, <1>5, <1>6

LEMMA DepositBalances ==
    ASSUME WalletInv, PoolBalances(chain), NEW tx \in pending, MineDeposit(tx)
    PROVE  PoolBalances(chain')
<1> DEFINE old  == chain.logs
           new  == chain'.logs
           leaf == InsertedLeaf(tx)
           dep  == DepositLog(leaf, label(Len(old.deposits) + 1), tx.value, tx.pre)
<1>1. ChainOK(chain) /\ ChainOK(chain') /\ chain.spent = SpentIn(old)
  BY EntriesNow, MinedInOrder DEF ChainOK
<1>2. /\ tx.value \in Nat \ {0} /\ leaf.value = tx.value
      /\ LeavesOf(new) = LeavesOf(old) \cup {leaf} /\ leaf \notin LeavesOf(old)
      /\ nullifier_hash(KeyOf(leaf)) \notin SpentIn(old)
      /\ new.deposits = Append(old.deposits, dep) /\ new.withdrawals = old.withdrawals
      /\ new.ragequits = old.ragequits /\ chain'.spent = chain.spent
  <2> HIDE DEF leaf
  <2> QED
    BY DepositMined DEF leaf
<1>3. dep.value = tx.value /\ dep \in DepositLogs
  <2>1. leaf \in CommitmentHashes
    BY <1>1, <1>2, LogTypes DEF ChainOK
  <2>2. label(Len(old.deposits) + 1) \in Nat
    BY <1>1, LogTypes DEF label, ChainOK
  <2>3. tx.pre \in Precommitments
    BY DepositMined
  <2> HIDE DEF leaf
  <2> QED
    BY <1>2, <2>1, <2>2, <2>3 DEF DepositLog, DepositLogs
<1> HIDE DEF leaf, dep
<1>4. Unclaimed(chain') = Unclaimed(chain) \cup {leaf} /\ leaf \notin Unclaimed(chain)
  BY <1>1, <1>2 DEF Unclaimed
<1>5. /\ IsFiniteSet(Unclaimed(chain)) /\ \A x \in Unclaimed(chain) : x.value \in Int
  BY <1>1, UnclaimedFinite DEF Unclaimed
<1>6. /\ ValueOf(Unclaimed(chain')) = ValueOf(Unclaimed(chain)) + tx.value
      /\ ValueOf(Unclaimed(chain)) \in Int
  <2>1. leaf.value \in Int
    BY <1>2
  <2>2. /\ ValueOf(Unclaimed(chain) \cup {leaf}) = ValueOf(Unclaimed(chain)) + leaf.value
        /\ ValueOf(Unclaimed(chain)) \in Int
    BY <1>4, <1>5, <2>1, ValueAdded
  <2> QED
    BY <1>2, <1>4, <2>2
<1>7. /\ Total(new.deposits) = Total(old.deposits) + tx.value
      /\ Total(old.deposits) \in Int /\ Total(old.withdrawals) \in Int
      /\ Total(old.ragequits) \in Int
  BY <1>1, <1>2, <1>3, TotalsOfChain
<1>8. /\ Total(old.deposits) = Total(old.withdrawals) + Total(old.ragequits)
                               + ValueOf(Unclaimed(chain))
      /\ Total(new.withdrawals) = Total(old.withdrawals)
      /\ Total(new.ragequits) = Total(old.ragequits)
  BY <1>2 DEF PoolBalances
<1>9. tx.value \in Int
  BY <1>2
<1>10. Total(new.deposits) = Total(new.withdrawals) + Total(new.ragequits)
                               + ValueOf(Unclaimed(chain'))
  <2> DEFINE d == Total(old.deposits)
             w == Total(old.withdrawals)
             r == Total(old.ragequits)
             u == ValueOf(Unclaimed(chain))
  <2>1. d \in Int /\ w \in Int /\ r \in Int /\ u \in Int /\ d = w + r + u
    BY <1>6, <1>7, <1>8
  <2>2. /\ Total(new.deposits) = d + tx.value /\ Total(new.withdrawals) = w
        /\ Total(new.ragequits) = r /\ ValueOf(Unclaimed(chain')) = u + tx.value
    BY <1>6, <1>7, <1>8
  <2> HIDE DEF d, w, r, u, old, new
  <2>3. d + tx.value = w + r + (u + tx.value)
    BY <1>9, <2>1
  <2> QED
    BY <2>2, <2>3
<1> QED
  BY <1>10 DEF PoolBalances

LEMMA WithdrawalBalances ==
    ASSUME WalletInv, PoolBalances(chain), NEW tx \in pending, MineWithdrawal(tx)
    PROVE  PoolBalances(chain')
<1> DEFINE p    == tx.plan
           old  == chain.logs
           new  == chain'.logs
           v    == p.withdrawn_value
           note == commitment_hash(p.existing)
           leaf == NewCommitment(p)
           log  == WithdrawLog(v, nullifier_hash(p.existing.key), leaf)
           kept == Unclaimed(chain) \ {note}
<1>1. /\ ChainOK(chain) /\ ChainOK(chain') /\ old \in PoolLogs /\ HistoryOK(old)
      /\ chain.spent = SpentIn(old)
  BY EntriesNow, MinedInOrder DEF ChainOK
<1>2. /\ p \in Plans /\ PlanOK(p, old) /\ nullifier_hash(p.existing.key) \notin chain.spent
      /\ KeyOf(leaf) = p.new_key /\ leaf.value = p.existing.value - v
      /\ LeavesOf(new) = LeavesOf(old) \cup {leaf}
      /\ chain'.spent = chain.spent \cup {nullifier_hash(p.existing.key)}
      /\ nullifier_hash(p.new_key) \notin chain'.spent
      /\ chain' = AfterWithdrawal(chain, p)
  BY <1>1, ChangeNoteUnspent
<1>3. /\ new.deposits = old.deposits /\ new.ragequits = old.ragequits
      /\ new.withdrawals = Append(old.withdrawals, log)
  <2> HIDE DEF leaf
  <2> QED
    BY <1>1, <1>2 DEF AfterWithdrawal, PoolLogs, ChainOK, leaf
<1>4. /\ note \in LeavesOf(old) /\ v \in WithdrawAmounts
      /\ v <= p.existing.value
      /\ KeyOf(note) = p.existing.key /\ note.value = p.existing.value
  <2>1. KeyOf(note) = p.existing.key /\ note.value = p.existing.value
    BY CommitmentInjective
  <2> QED
    BY <1>2, <2>1 DEF PlanOK, WithdrawCircuit
<1>5. /\ v \in Nat \ {0} /\ note.value \in Nat \ {0} /\ leaf.value = note.value - v
      /\ leaf.value \in Nat
  <2>1. v \in Nat /\ 0 < v
    BY <1>4, AmountsAssumption
  <2>2. note.value \in Nat
    BY <1>1, <1>4, UnclaimedFinite
  <2> QED
    BY <1>2, <1>4, <2>1, <2>2
<1>6. log.value = v /\ log \in WithdrawLogs
  <2>1. nullifier_hash(p.existing.key) \in NullifierHashes
    BY <1>2, HashType DEF Plans, Commitments
  <2>2. leaf \in CommitmentHashes
    BY <1>1, <1>2, LogTypes DEF ChainOK
  <2> HIDE DEF leaf
  <2> QED
    BY <1>5, <2>1, <2>2 DEF WithdrawLog, WithdrawLogs
<1>7. leaf \notin LeavesOf(old)
  BY <1>1, <1>2, NewKeyUnused
<1> HIDE DEF note, leaf, log, p, v, old, new
<1>8. note \in Unclaimed(chain)
  BY <1>2, <1>4, <1>5 DEF Unclaimed, old
<1>9. ASSUME NEW x \in LeavesOf(old), x # note
      PROVE  nullifier_hash(KeyOf(x)) # nullifier_hash(p.existing.key)
  BY <1>1, <1>4, <1>9, LeafOfKey, NullifierInjective
<1>10. Unclaimed(chain') = IF leaf.value = 0 THEN kept ELSE kept \cup {leaf}
  <2>1. \A x : x \in kept <=> /\ x \in LeavesOf(old) /\ x # note
                              /\ nullifier_hash(KeyOf(x)) \notin chain.spent /\ x.value # 0
    BY DEF Unclaimed, old
  <2>2. \A x : x \in Unclaimed(chain') <=>
                   /\ x \in LeavesOf(new) /\ x.value # 0
                   /\ nullifier_hash(KeyOf(x)) \notin chain'.spent
    BY DEF Unclaimed, new
  <2>3. nullifier_hash(KeyOf(note)) \in chain'.spent /\ nullifier_hash(KeyOf(leaf)) \notin chain'.spent
    BY <1>2, <1>4
  <2>4. \A x \in LeavesOf(old) : nullifier_hash(KeyOf(x)) \in chain'.spent
                                   <=> nullifier_hash(KeyOf(x)) \in chain.spent \/ x = note
    BY <1>2, <1>9, <2>3
  <2> HIDE DEF kept
  <2> QED
    BY <1>2, <1>7, <2>1, <2>2, <2>3, <2>4
<1>11. /\ IsFiniteSet(kept) /\ note \notin kept /\ kept \cup {note} = Unclaimed(chain)
       /\ leaf \notin kept /\ \A x \in kept : x.value \in Int
  <2>1. IsFiniteSet(Unclaimed(chain)) /\ \A x \in Unclaimed(chain) : x.value \in Int
    BY <1>1, UnclaimedFinite DEF Unclaimed
  <2>2. Unclaimed(chain) \subseteq LeavesOf(old)
    BY DEF Unclaimed, old
  <2> QED
    BY <1>7, <1>8, <2>1, <2>2, FS_RemoveElement
<1> HIDE DEF kept
<1>12. /\ ValueOf(Unclaimed(chain)) = ValueOf(kept) + note.value /\ ValueOf(kept) \in Int
  <2>1. note.value \in Int
    BY <1>5
  <2>2. ValueOf(kept \cup {note}) = ValueOf(kept) + note.value /\ ValueOf(kept) \in Int
    BY <1>11, <2>1, ValueAdded
  <2> QED
    BY <1>11, <2>2
<1>13. ValueOf(Unclaimed(chain')) = ValueOf(kept) + leaf.value
  <2>1. CASE leaf.value = 0
    BY <1>10, <1>12, <2>1
  <2>2. CASE leaf.value # 0
    <3>1. leaf.value \in Int
      BY <1>5
    <3>2. ValueOf(kept \cup {leaf}) = ValueOf(kept) + leaf.value
      BY <1>11, <3>1, ValueAdded
    <3> QED
      BY <1>10, <2>2, <3>2
  <2> QED
    BY <2>1, <2>2
<1>14. /\ Total(new.withdrawals) = Total(old.withdrawals) + v
       /\ Total(new.deposits) = Total(old.deposits) /\ Total(new.ragequits) = Total(old.ragequits)
       /\ Total(old.deposits) \in Int /\ Total(old.withdrawals) \in Int
       /\ Total(old.ragequits) \in Int
  BY <1>1, <1>3, <1>6, TotalsOfChain DEF old
<1>15. Total(old.deposits) = Total(old.withdrawals) + Total(old.ragequits)
                               + ValueOf(Unclaimed(chain))
  BY DEF PoolBalances, old
<1>16. Total(new.deposits) = Total(new.withdrawals) + Total(new.ragequits)
                               + ValueOf(Unclaimed(chain'))
  <2> DEFINE d == Total(old.deposits)
             w == Total(old.withdrawals)
             r == Total(old.ragequits)
             k == ValueOf(kept)
             n == note.value
  <2>1. /\ d \in Int /\ w \in Int /\ r \in Int /\ k \in Int /\ n \in Int /\ v \in Int
        /\ d = w + r + (k + n)
    BY <1>5, <1>12, <1>14, <1>15
  <2>2. /\ Total(new.deposits) = d /\ Total(new.withdrawals) = w + v
        /\ Total(new.ragequits) = r /\ ValueOf(Unclaimed(chain')) = k + (n - v)
    BY <1>5, <1>13, <1>14
  <2> HIDE DEF d, w, r, k, n
  <2>3. d = (w + v) + r + (k + (n - v))
    BY <2>1
  <2> QED
    BY <2>2, <2>3
<1> QED
  BY <1>16 DEF PoolBalances, new

LEMMA RagequitBalances ==
    ASSUME WalletInv, PoolBalances(chain), NEW tx \in pending, MineRagequit(tx)
    PROVE  PoolBalances(chain')
<1> DEFINE old  == chain.logs
           new  == chain'.logs
           leaf == commitment_hash(tx.note)
           log  == RagequitLog(leaf, tx.note.label, tx.note.value)
           kept == Unclaimed(chain) \ {leaf}
<1>1. /\ ChainOK(chain) /\ ChainOK(chain') /\ old \in PoolLogs /\ HistoryOK(old)
  BY EntriesNow, MinedInOrder DEF ChainOK
<1>2. /\ tx.kind = "ragequit" /\ chain' = AfterRagequit(chain, tx.note)
      /\ leaf \in LeavesOf(old) /\ nullifier_hash(tx.note.key) \notin chain.spent
      /\ tx.note \in Commitments /\ tx.note.value # 0
  <2>1. tx.kind = "ragequit" /\ tx \in Transactions /\ tx.note.value # 0
    BY DEF MineRagequit, WalletInv, TypeOK, PendingOK
  <2> QED
    BY <2>1 DEF MineRagequit, Accepts, AcceptsRagequit, LeavesOf, Transactions
<1>3. /\ new.leaves = old.leaves /\ new.deposits = old.deposits
      /\ new.withdrawals = old.withdrawals
      /\ new.ragequits = Append(old.ragequits, log)
      /\ chain'.spent = chain.spent \cup {nullifier_hash(tx.note.key)}
  BY <1>1, <1>2 DEF AfterRagequit, ChainOK, PoolLogs
<1>4. /\ KeyOf(leaf) = tx.note.key /\ leaf.value = tx.note.value
      /\ leaf.value \in Nat \ {0} /\ log \in RagequitLogs /\ log.value = leaf.value
  <2>1. KeyOf(leaf) = tx.note.key /\ leaf.value = tx.note.value
    BY CommitmentInjective
  <2>2. leaf \in CommitmentHashes /\ tx.note.label \in Nat /\ tx.note.value \in Nat
    BY <1>2, HashType DEF Commitments
  <2> HIDE DEF leaf
  <2> QED
    BY <1>2, <2>1, <2>2 DEF RagequitLog, RagequitLogs
<1> HIDE DEF old, new, leaf, log
<1>5. ASSUME NEW x \in LeavesOf(old), x # leaf
      PROVE  nullifier_hash(KeyOf(x)) # nullifier_hash(tx.note.key)
  BY <1>1, <1>2, <1>4, <1>5, LeafOfKey, NullifierInjective
<1>6. Unclaimed(chain') = kept /\ leaf \in Unclaimed(chain)
  <2>1. LeavesOf(new) = LeavesOf(old)
    BY <1>3 DEF LeavesOf
  <2> QED
    BY <1>2, <1>3, <1>4, <1>5, <2>1 DEF Unclaimed, old, new
<1>7. /\ IsFiniteSet(kept) /\ leaf \notin kept /\ kept \cup {leaf} = Unclaimed(chain)
      /\ \A x \in kept : x.value \in Int
  <2>1. IsFiniteSet(Unclaimed(chain)) /\ \A x \in Unclaimed(chain) : x.value \in Int
    BY <1>1, UnclaimedFinite DEF Unclaimed
  <2> QED
    BY <1>6, <2>1, FS_RemoveElement
<1> HIDE DEF kept
<1>8. ValueOf(Unclaimed(chain)) = ValueOf(kept) + leaf.value /\ ValueOf(kept) \in Int
  <2>1. leaf.value \in Int
    BY <1>4
  <2>2. ValueOf(kept \cup {leaf}) = ValueOf(kept) + leaf.value /\ ValueOf(kept) \in Int
    BY <1>7, <2>1, ValueAdded
  <2> QED
    BY <1>7, <2>2
<1>9. /\ Total(new.ragequits) = Total(old.ragequits) + leaf.value
      /\ Total(new.deposits) = Total(old.deposits)
      /\ Total(new.withdrawals) = Total(old.withdrawals)
      /\ Total(old.deposits) \in Int /\ Total(old.withdrawals) \in Int
      /\ Total(old.ragequits) \in Int
  BY <1>1, <1>3, <1>4, TotalsOfChain DEF old
<1>10. Total(old.deposits) = Total(old.withdrawals) + Total(old.ragequits)
                               + ValueOf(Unclaimed(chain))
  BY DEF PoolBalances, old
<1>11. Total(new.deposits) = Total(new.withdrawals) + Total(new.ragequits)
                               + ValueOf(Unclaimed(chain'))
  <2> DEFINE d == Total(old.deposits)
             w == Total(old.withdrawals)
             r == Total(old.ragequits)
             k == ValueOf(kept)
             n == leaf.value
  <2>1. /\ d \in Int /\ w \in Int /\ r \in Int /\ k \in Int /\ n \in Int
        /\ d = w + r + (k + n)
    BY <1>4, <1>8, <1>9, <1>10
  <2>2. /\ Total(new.deposits) = d /\ Total(new.withdrawals) = w
        /\ Total(new.ragequits) = r + n /\ ValueOf(Unclaimed(chain')) = k
    BY <1>6, <1>9
  <2> HIDE DEF d, w, r, k, n
  <2>3. d = w + (r + n) + k
    BY <2>1
  <2> QED
    BY <2>2, <2>3
<1> QED
  BY <1>11 DEF PoolBalances, new

\* The notes an account can spend hold what its unclaimed leaves hold.
LEMMA SpendableValue ==
    ASSUME NEW ch, ChainOK(ch), NEW a
    PROVE  ValueOf(SpendableNotes(ch.logs, a, gap_limit))
             = ValueOf({leaf \in Unclaimed(ch) : KeyOf(leaf).account = a})
<1> DEFINE notes  == SpendableNotes(ch.logs, a, gap_limit)
           leaves == {leaf \in Unclaimed(ch) : KeyOf(leaf).account = a}
           f == [leaf \in leaves |-> leaf.value]
           g == [note \in notes |-> note.value]
           h == [leaf \in leaves |-> Note(leaf.value, leaf.label, KeyOf(leaf))]
<1>1. {commitment_hash(note) : note \in notes} = leaves
  <2>1. ch.logs \in PoolLogs /\ HistoryOK(ch.logs) /\ ch.spent = SpentIn(ch.logs)
    BY DEF ChainOK
  <2>2. leaves = {leaf \in LeavesOf(ch.logs) :
                    /\ KeyOf(leaf).account = a
                    /\ nullifier_hash(KeyOf(leaf)) \notin SpentIn(ch.logs)
                    /\ leaf.value # 0}
    BY <2>1 DEF Unclaimed
  <2> QED
    BY <2>1, <2>2, RecoveryFindsUnspent
<1>2. \A note \in notes : note \in Commitments
  BY CurrentNoteType DEF SpendableNotes, ChainOK
<1>3. \A note \in notes : /\ commitment_hash(note) \in leaves
                          /\ h[commitment_hash(note)] = note
  <2> SUFFICES ASSUME NEW note \in notes
               PROVE  commitment_hash(note) \in leaves /\ h[commitment_hash(note)] = note
    OBVIOUS
  <2> DEFINE leaf == commitment_hash(note)
  <2>1. leaf \in leaves
    BY <1>1
  <2>2. note = Note(leaf.value, leaf.label, KeyOf(leaf))
    BY <1>2, CommitmentInjective DEF Note, Commitments
  <2> QED
    BY <2>1, <2>2
<1>4. \A leaf \in leaves : /\ h[leaf] \in notes /\ commitment_hash(h[leaf]) = leaf
                           /\ h[leaf].value = leaf.value
  <2> SUFFICES ASSUME NEW leaf \in leaves
               PROVE  /\ h[leaf] \in notes /\ commitment_hash(h[leaf]) = leaf
                      /\ h[leaf].value = leaf.value
    OBVIOUS
  <2>1. PICK note \in notes : leaf = commitment_hash(note)
    BY <1>1
  <2>2. h[leaf] = note
    BY <1>3, <2>1
  <2>3. note.value = leaf.value
    BY <2>1, CommitmentInjective
  <2> HIDE DEF h
  <2> QED
    BY <2>1, <2>2, <2>3
<1>5. IsFiniteSet(leaves) /\ Integral(f, leaves)
  <2>1. IsFiniteSet(Unclaimed(ch)) /\ leaves \in SUBSET Unclaimed(ch)
    BY UnclaimedFinite
  <2>2. \A leaf \in leaves : leaf.value \in Int
    <3>1. leaves \subseteq LeavesOf(ch.logs)
      BY DEF Unclaimed
    <3> HIDE DEF leaves
    <3> QED
      BY <3>1, UnclaimedFinite
  <2> QED
    BY <2>1, <2>2, FS_Subset DEF Integral
<1>6. \A leaf \in leaves : g[h[leaf]] = f[leaf]
  <2> SUFFICES ASSUME NEW leaf \in leaves PROVE g[h[leaf]] = f[leaf]
    OBVIOUS
  <2>1. h[leaf] \in notes /\ h[leaf].value = leaf.value
    BY <1>4
  <2> HIDE DEF h, notes, leaves
  <2> QED
    BY <2>1
<1>7. ValueOf(notes) = SumFunctionOnSet(g, notes) /\ ValueOf(leaves) = SumFunctionOnSet(f, leaves)
  BY DEF ValueOf, SumFunction
<1> HIDE DEF notes, leaves, f, g, h
<1>8. {h[leaf] : leaf \in leaves} = notes
  BY <1>3, <1>4
<1>9. \A x, y \in leaves : h[x] = h[y] => x = y
  BY <1>4
<1>10. SumFunctionOnSet(g, {h[leaf] : leaf \in leaves}) = SumFunctionOnSet(f, leaves)
  BY <1>5, <1>6, <1>9, SumRelabelled
<1> QED
  BY <1>7, <1>8, <1>10 DEF notes, leaves

\* What all accounts can spend is what nothing has claimed.
LEMMA SpendableByAll ==
    ASSUME NEW ch, ChainOK(ch)
    PROVE  SumFunction([a \in Accounts |-> ValueOf(SpendableNotes(ch.logs, a, gap_limit))])
             = ValueOf(Unclaimed(ch))
<1> DEFINE S == Unclaimed(ch)
           f == [leaf \in S |-> leaf.value]
           o == [leaf \in S |-> KeyOf(leaf).account]
           Fibre(a) == {leaf \in S : o[leaf] = a}
           p == [a \in Accounts |-> SumFunctionOnSet(f, Fibre(a))]
           q == [a \in Accounts |-> ValueOf(SpendableNotes(ch.logs, a, gap_limit))]
<1>1. IsFiniteSet(S) /\ Integral(f, S) /\ \A leaf \in S : leaf.value \in Int
  BY UnclaimedFinite DEF Integral, Unclaimed
<1>2. \A leaf \in S : o[leaf] \in Accounts
  <2>1. \A leaf \in S : KeyOf(leaf).account \in Accounts
    BY LogTypes, LeafType DEF Unclaimed, ChainOK, Keys
  <2> QED
    BY <2>1
<1>3. ASSUME NEW a \in Accounts PROVE q[a] = p[a]
  <2> DEFINE F == {leaf \in S : KeyOf(leaf).account = a}
  <2>1. q[a] = ValueOf(F)
    BY SpendableValue
  <2>2. Fibre(a) = F
    OBVIOUS
  <2>3. F \in SUBSET S /\ IsFiniteSet(F) /\ \A x \in F : x.value \in Int
    BY <1>1, FS_Subset
  <2>4. p[a] = SumFunctionOnSet(f, Fibre(a))
    <3> HIDE DEF Fibre
    <3> QED
      OBVIOUS
  <2> HIDE DEF F, Fibre, p, q, S
  <2>5. SumFunctionOnSet(f, F) = ValueOf(F)
    BY <2>3, ValueOnSet
  <2> QED
    BY <2>1, <2>2, <2>4, <2>5
<1>4. q = p
  <2> HIDE DEF Fibre
  <2> QED
    BY <1>3
<1>5. SumFunctionOnSet(p, Accounts) = SumFunctionOnSet(f, S)
  <2> HIDE DEF S, f, o
  <2> QED
    BY <1>1, <1>2, AccountsAssumption, SumOfFibres
<1>6. SumFunction(q) = SumFunctionOnSet(q, Accounts)
  BY DEF SumFunction
<1>7. ValueOf(S) = SumFunctionOnSet(f, S)
  BY DEF ValueOf, SumFunction
<1> HIDE DEF p, q, S, f
<1>8. SumFunction(q) = ValueOf(S)
  BY <1>4, <1>5, <1>6, <1>7
<1> QED
  BY <1>8 DEF q, S

\* What the pool holds under its leaves is what was deposited and not taken out.
LEMMA InitBooks == Init => BooksInv
<1> SUFFICES ASSUME Init PROVE PoolBalances(chain)
  BY DEF BooksInv
<1>1. /\ chain.logs.deposits = <<>> /\ chain.logs.withdrawals = <<>>
      /\ chain.logs.ragequits = <<>> /\ Unclaimed(chain) = {}
  BY DEF Init, Genesis, EmptyLogs, Unclaimed, LeavesOf
<1>2. 0 = 0 + 0 + 0
  OBVIOUS
<1> QED
  BY <1>1, <1>2, TotalOfNone, ValueOfNone DEF PoolBalances

LEMMA NextBooks == WalletInv /\ BooksInv /\ [Next]_vars => BooksInv'
<1> SUFFICES ASSUME WalletInv, PoolBalances(chain), [Next]_vars PROVE PoolBalances(chain')
  BY DEF BooksInv
<1>1. ASSUME NEW tx \in pending, MineDeposit(tx) \/ MineWithdrawal(tx) \/ MineRagequit(tx)
      PROVE  PoolBalances(chain')
  BY <1>1, DepositBalances, WithdrawalBalances, RagequitBalances
<1>2. CASE UNCHANGED chain
  BY <1>2
<1>3. ASSUME NEW d \in Devices, DeviceStep(d) PROVE UNCHANGED chain
  BY <1>3 DEF DeviceStep, Scan, VerifyStateRoot, FetchAsp, VerifyAspRoot, BuildWithdrawal,
              SubmitWithdrawal, Deposit, Ragequit, Crash
<1> QED
  BY <1>1, <1>2, <1>3 DEF Next, Environment, Drop, PublishAsp, vars

\* The books balance (flow.rs:118-128, sync.rs:364-368): at every moment, what was
\* deposited is what was withdrawn, what was taken out by ragequit, and what all
\* wallets would find when they recover from their seed phrases.
THEOREM BooksAlwaysBalance == Spec => []BooksBalance
<1>1. WalletInv /\ BooksInv => BooksBalance
  <2> SUFFICES ASSUME WalletInv, PoolBalances(chain) PROVE BooksBalance
    BY DEF BooksInv
  <2>1. ChainOK(chain)
    BY EntriesNow
  <2> QED
    BY <2>1, SpendableByAll DEF BooksBalance, PoolBalances
<1> QED
  BY <1>1, InitBooks, NextBooks, WalletInvariant, PTL DEF Spec
=============================================================================
