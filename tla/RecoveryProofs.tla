----------------------------- MODULE RecoveryProofs -----------------------------
(***************************************************************************)
(* Recovery's type correctness, that it loses no deposit the gap limit     *)
(* reaches, that every chain it returns is complete, and that its loops    *)
(* compute what Recovered.tla says: for any account, gap limit and logs.   *)
(***************************************************************************)
EXTENDS Recovery, RecoveredLemmas, SequenceTheorems

-----------------------------------------------------------------------------
(* Type correctness.                                                       *)

LEMMA FieldType == \A x \in Nat : u256_to_field(x) \in Nat
BY FieldOrderAssumption DEF u256_to_field

LEMMA NoteType ==
    ASSUME NEW v \in Nat, NEW lab \in Nat, NEW key \in Keys
    PROVE  Note(v, lab, key) \in Commitments
BY DEF Note, Commitments

LEMMA KeyType ==
    ASSUME NEW i \in Nat, NEW lab \in Nat
    PROVE  /\ deposit_secrets(account, i) \in Keys
           /\ withdrawal_secrets(account, lab, i) \in Keys
BY AccountAssumption DEF deposit_secrets, withdrawal_secrets, Scope, Keys

LEMMA InitTypeOK == Init => TypeOK
<1> SUFFICES ASSUME Init PROVE TypeOK
  OBVIOUS
<1>1. deposit_secrets(account, 0) \in Keys
  BY KeyType
<1>2. NoNote \in Commitments
  BY <1>1, NoteType DEF NoNote, Scope
<1>3. deposit_precommitment(account, 0) \in Precommitments
  BY <1>1 DEF deposit_precommitment, precommitment, Precommitments
<1>4. commitment_hash(NoNote) \in CommitmentHashes
  BY <1>2 DEF commitment_hash, CommitmentHashes, Commitments, precommitment,
              Precommitments
<1>5. NoDeposit \in DepositLogs
  BY <1>3, <1>4 DEF NoDeposit, DepositLog, DepositLogs, Scope
<1>6. logs \in EventLogs
  BY LogsAssumption DEF Init
<1> QED
  BY <1>2, <1>5, <1>6, GapLimitAssumption, EmptySeq DEF Init, TypeOK

LEMMA NextTypeOK == TypeOK /\ [Next]_vars => TypeOK'
<1> SUFFICES ASSUME TypeOK, [Next]_vars PROVE TypeOK'
  OBVIOUS
<1> USE DEF TypeOK
<1>1. CASE Miss
  BY <1>1, GapLimitAssumption DEF Miss, walkVars
<1>2. CASE Hit
  <2>1. dep' \in DepositLogs
    BY <1>2, DepositForType DEF Hit, StartWalk
  <2>2. dep'.value \in Nat /\ dep'.label \in Nat
    BY <2>1 DEF DepositLogs
  <2>3. deposit' \in Commitments
    BY <1>2, <2>2, FieldType, KeyType, NoteType DEF Hit, StartWalk
  <2> QED
    BY <1>2, <2>1, <2>2, <2>3, GapLimitAssumption, EmptySeq DEF Hit, StartWalk
<1>3. CASE WalkOn
  <2>1. Spend \in WithdrawLogs
    BY <1>3, WithdrawalOfType DEF WalkOn, IsSpent, Spend
  <2>2. current_value - Spend.value \in Nat
    BY <1>3, <2>1 DEF WalkOn, SpendChecks, WithdrawLogs
  <2>3. dep.label \in Nat
    BY DEF DepositLogs
  <2>4. Change \in Commitments
    BY <2>2, <2>3, FieldType, KeyType, NoteType DEF Change
  <2>5. Append(children, Change) \in Seq(Commitments)
    BY <2>4
  <2> QED
    BY <1>3, <2>2, <2>4, <2>5 DEF WalkOn
<1>4. CASE WalkFails
  BY <1>4 DEF WalkFails, walkVars
<1>5. CASE WalkEnds
  <2>1. PoolAccount(dep.label, index, deposit, children,
                    dep.label \in RagequitLabels(logs)) \in PoolAccounts
    BY DEF PoolAccount, PoolAccounts, DepositLogs
  <2> QED
    BY <1>5, <2>1 DEF WalkEnds, walkVars
<1>6. CASE Finish
  BY <1>6 DEF Finish, walkVars
<1>7. CASE Returned \/ UNCHANGED vars
  BY <1>7 DEF Returned, vars, walkVars
<1> QED
  BY <1>1, <1>2, <1>3, <1>4, <1>5, <1>6, <1>7 DEF Next

\* Every variable of recovery keeps its type (sync.rs:343-390), the miss
\* counter never passes the gap limit, and no amount goes below zero.
THEOREM RecoveryTypeCorrect == Spec => []TypeOK
BY InitTypeOK, NextTypeOK, PTL DEF Spec

-----------------------------------------------------------------------------
(* The scan over deposit indices.                                          *)

\* No step changes the logs, so what they say of an index stays as it is.
LEMMA SameLogs == [Next]_vars => logs' = logs
BY DEF Next, vars, Miss, Hit, StartWalk, WalkOn, WalkFails, WalkEnds, Finish, Returned

\* While fewer than gap_limit misses precede index, no full window of empty
\* indices lies below it: a window that reaches the last hit contains it, and
\* one that ends before lies below that hit, which was itself within the gap.
LEMMA IndexWithinGap ==
    ASSUME TypeOK, ScanInv, pc = "scan", misses < gap_limit
    PROVE  WithinGap(logs, index)
<1> SUFFICES ASSUME NEW first \in 0..(index - gap_limit)
             PROVE  \E j \in first..(first + gap_limit - 1) : DepositedAt(logs, j)
  BY DEF WithinGap
<1> DEFINE hit == index - misses - 1
<1>1. /\ index \in Nat /\ misses \in Nat /\ gap_limit \in Nat
      /\ first \in Nat /\ first + gap_limit <= index
  BY GapLimitAssumption DEF TypeOK
<1>2. hit \in Nat /\ first <= hit /\ hit <= index - 1 /\ misses < index
  BY <1>1
<1>3. DepositedAt(logs, hit)
  BY <1>2 DEF ScanInv
<1>4. CASE hit <= first + gap_limit - 1
  BY <1>1, <1>2, <1>3, <1>4
<1>5. CASE first + gap_limit - 1 < hit
  <2>1. PICK n \in DOMAIN accounts : accounts[n].deposit_index = hit
    BY <1>1, <1>2, <1>3 DEF ScanInv
  <2>2. WithinGap(logs, hit)
    BY <2>1 DEF ScanInv
  <2>3. first \in 0..(hit - gap_limit)
    BY <1>1, <1>2, <1>5
  <2> QED
    BY <2>2, <2>3 DEF WithinGap
<1> QED
  BY <1>1, <1>2, <1>4, <1>5

LEMMA InitScanInv == Init => ScanInv
BY DEF Init, ScanInv

LEMMA NextScanInv == TypeOK /\ ScanInv /\ [Next]_vars => ScanInv'
<1> SUFFICES ASSUME TypeOK, ScanInv, [Next]_vars PROVE ScanInv'
  OBVIOUS
<1>t. /\ index \in Nat /\ misses \in Nat /\ gap_limit \in Nat
      /\ misses <= gap_limit /\ accounts \in Seq(PoolAccounts)
      /\ \A n \in DOMAIN accounts : accounts[n].deposit_index \in Nat
  <2>1. \A n \in DOMAIN accounts : accounts[n] \in PoolAccounts
    BY DEF TypeOK
  <2> QED
    BY <2>1, GapLimitAssumption DEF TypeOK, PoolAccounts
<1>s. logs' = logs
  BY SameLogs
<1>1. CASE Miss
  <2>1. ~DepositedAt(logs, index)
    BY <1>1 DEF Miss, Pre, DepositedAt
  <2>2. /\ index' = index + 1 /\ misses' = misses + 1
        /\ accounts' = accounts /\ pc' = "scan" /\ pc = "scan"
    BY <1>1 DEF Miss
  <2>3. \A j \in (index' - misses')..(index' - 1) : ~DepositedAt(logs, j)
    BY <2>1, <2>2, <1>s, <1>t DEF ScanInv
  <2>4. misses' < index' => DepositedAt(logs, index' - misses' - 1)
    BY <2>2, <1>s, <1>t DEF ScanInv
  <2>5. \A j \in 0..(index' - 1) :
           DepositedAt(logs, j) => \E n \in DOMAIN accounts' : accounts'[n].deposit_index = j
    BY <2>1, <2>2, <1>s, <1>t DEF ScanInv
  <2>6. \A n \in DOMAIN accounts' :
          /\ accounts'[n].deposit_index < index'
          /\ DepositedAt(logs, accounts'[n].deposit_index)
          /\ WithinGap(logs, accounts'[n].deposit_index)
    BY <2>2, <1>s, <1>t DEF ScanInv
  <2>7. /\ misses' <= index'
        /\ \A m, n \in DOMAIN accounts' :
              m < n => accounts'[m].deposit_index < accounts'[n].deposit_index
    BY <2>2, <1>t DEF ScanInv
  <2> QED
    BY <2>2, <2>3, <2>4, <2>5, <2>6, <2>7, <1>s DEF ScanInv
<1>2. CASE Hit
  <2>1. DepositedAt(logs, index)
    BY <1>2 DEF Hit, StartWalk, Pre, DepositedAt
  <2>2. WithinGap(logs, index)
    BY <1>2, IndexWithinGap DEF Hit, StartWalk
  <2>3. /\ index' = index /\ misses' = 0 /\ accounts' = accounts /\ pc' = "walk"
    BY <1>2 DEF Hit, StartWalk
  <2> QED
    BY <2>1, <2>2, <2>3, <1>s, <1>t DEF ScanInv
<1>3. CASE WalkOn
  <2>1. /\ index' = index /\ misses' = misses /\ accounts' = accounts /\ pc' = pc
    BY <1>3 DEF WalkOn
  <2> QED
    BY <2>1, <1>s DEF ScanInv
<1>4. CASE WalkFails
  <2>1. /\ index' = index /\ misses' = misses /\ accounts' = accounts
        /\ pc = "walk" /\ pc' = "error"
    BY <1>4 DEF WalkFails
  <2> QED
    BY <2>1, <1>s DEF ScanInv
<1>5. CASE WalkEnds
  <2> DEFINE new == PoolAccount(dep.label, index, deposit, children,
                                dep.label \in RagequitLabels(logs))
  <2>1. /\ index' = index + 1 /\ misses' = misses /\ misses = 0
        /\ accounts' = Append(accounts, new) /\ pc' = "scan"
    BY <1>5 DEF WalkEnds, ScanInv
  <2>2. new.deposit_index = index
    BY DEF PoolAccount
  <2>3. DepositedAt(logs, index) /\ WithinGap(logs, index)
    BY <1>5 DEF WalkEnds, ScanInv
  <2> HIDE DEF new
  <2>4. /\ DOMAIN accounts' = 1..(Len(accounts) + 1)
        /\ DOMAIN accounts = 1..Len(accounts) /\ Len(accounts) \in Nat
        /\ \A n \in DOMAIN accounts : accounts'[n] = accounts[n]
        /\ accounts'[Len(accounts) + 1] = new
    BY <2>1, <1>t
  <2>5. \A j \in 0..(index' - 1) :
           DepositedAt(logs, j) => \E n \in DOMAIN accounts' : accounts'[n].deposit_index = j
    <3> SUFFICES ASSUME NEW j \in 0..(index' - 1), DepositedAt(logs, j)
                 PROVE  \E n \in DOMAIN accounts' : accounts'[n].deposit_index = j
      BY <1>s
    <3>1. CASE j = index
      BY <3>1, <2>2, <2>4
    <3>2. CASE j # index
      <4>1. PICK n \in DOMAIN accounts : accounts[n].deposit_index = j
        BY <3>2, <2>1, <1>t DEF ScanInv
      <4> QED
        BY <4>1, <2>4
    <3> QED
      BY <3>1, <3>2
  <2>6. \A n \in DOMAIN accounts' :
          /\ accounts'[n].deposit_index < index'
          /\ DepositedAt(logs, accounts'[n].deposit_index)
          /\ WithinGap(logs, accounts'[n].deposit_index)
    <3> SUFFICES ASSUME NEW n \in DOMAIN accounts'
                 PROVE  /\ accounts'[n].deposit_index < index'
                        /\ DepositedAt(logs, accounts'[n].deposit_index)
                        /\ WithinGap(logs, accounts'[n].deposit_index)
      BY <1>s
    <3>1. CASE n \in DOMAIN accounts
      BY <3>1, <2>1, <2>4, <1>t DEF ScanInv
    <3>2. CASE n = Len(accounts) + 1
      BY <3>2, <2>1, <2>2, <2>3, <2>4, <1>t
    <3> QED
      BY <3>1, <3>2, <2>4
  <2>7. \A m, n \in DOMAIN accounts' :
          m < n => accounts'[m].deposit_index < accounts'[n].deposit_index
    <3> SUFFICES ASSUME NEW m \in DOMAIN accounts', NEW n \in DOMAIN accounts', m < n
                 PROVE  accounts'[m].deposit_index < accounts'[n].deposit_index
      OBVIOUS
    <3>1. m \in DOMAIN accounts
      BY <2>4
    <3>2. CASE n \in DOMAIN accounts
      BY <3>1, <3>2, <2>4 DEF ScanInv
    <3>3. CASE n = Len(accounts) + 1
      BY <3>1, <3>3, <2>2, <2>4 DEF ScanInv
    <3> QED
      BY <3>2, <3>3, <2>4
  <2> QED
    BY <2>1, <2>3, <2>5, <2>6, <2>7, <1>s, <1>t DEF ScanInv
<1>6. CASE Finish
  <2>1. /\ index' = index /\ misses' = misses /\ accounts' = accounts
        /\ pc = "scan" /\ pc' = "done" /\ misses = gap_limit
    BY <1>6, <1>t DEF Finish
  <2> QED
    BY <2>1, <1>s DEF ScanInv
<1>7. CASE Returned \/ UNCHANGED vars
  <2>1. /\ index' = index /\ misses' = misses /\ accounts' = accounts /\ pc' = pc
    BY <1>7 DEF Returned, vars
  <2> QED
    BY <2>1, <1>s DEF ScanInv
<1> QED
  BY <1>1, <1>2, <1>3, <1>4, <1>5, <1>6, <1>7 DEF Next

\* At the end the gap_limit indices below index are empty, so a deposit at or
\* above index is preceded by a full window of empty indices.
LEMMA DepositsFound ==
    ASSUME TypeOK, ScanInv, pc = "done",
           NEW i \in Nat, DepositedAt(logs, i), WithinGap(logs, i)
    PROVE  \E n \in DOMAIN accounts : accounts[n].deposit_index = i
<1>t. index \in Nat /\ misses = gap_limit /\ gap_limit \in Nat /\ misses <= index
  BY GapLimitAssumption DEF TypeOK, ScanInv
<1>1. CASE i < index
  BY <1>1, <1>t DEF ScanInv
<1>2. CASE i >= index
  <2>1. index - gap_limit \in 0..(i - gap_limit)
    BY <1>2, <1>t
  <2>2. PICK j \in (index - gap_limit)..(index - gap_limit + gap_limit - 1) :
           DepositedAt(logs, j)
    BY <2>1 DEF WithinGap
  <2> QED
    BY <2>2, <1>t DEF ScanInv
<1> QED
  BY <1>1, <1>2, <1>t

\* ScanInv says what EveryDepositFound promises.
LEMMA ScanInvFindsDeposits == TypeOK /\ ScanInv => EveryDepositFound
<1> SUFFICES ASSUME TypeOK, ScanInv, pc = "done" PROVE EveryDepositFound
  BY DEF EveryDepositFound
<1>1. ASSUME NEW i \in Nat, DepositedAt(logs, i), WithinGap(logs, i)
      PROVE  \E n \in DOMAIN accounts : accounts[n].deposit_index = i
  BY <1>1, DepositsFound
<1>2. ASSUME NEW d \in DOMAIN logs.deposits
      PROVE  logs.deposits[d].precommitment.nullifier_and_secret.index \in Nat
  <2>1. logs.deposits[d] \in DepositLogs
    BY DEF TypeOK, EventLogs
  <2> QED
    BY <2>1 DEF DepositLogs, Precommitments, Keys
<1> QED
  BY <1>1, <1>2 DEF EveryDepositFound, ScanInv

\* Recovery returns the deposits of this account that the gap limit reaches,
\* all of them and no other, in index order and each once (sync.rs:343-391),
\* for every gap limit and whatever the logs hold.
THEOREM RecoveryFindsEveryDeposit == Spec => []EveryDepositFound
<1>1. Init => TypeOK /\ ScanInv
  BY InitTypeOK, InitScanInv
<1>2. TypeOK /\ ScanInv /\ [Next]_vars => (TypeOK /\ ScanInv)'
  BY NextTypeOK, NextScanInv
<1> QED
  BY <1>1, <1>2, ScanInvFindsDeposits, PTL DEF Spec

-----------------------------------------------------------------------------
(* The walk along the change notes.                                        *)

LEMMA InitWalkInv == Init => WalkInv
BY DEF Init, WalkInv, ChainsComplete

\* Appending the change note that the spending event announced keeps a chain
\* linked.
LEMMA LinkedAppend ==
    ASSUME NEW l, NEW dep_note, NEW chain \in Seq(Commitments), NEW note \in Commitments,
           Linked(l, dep_note, chain),
           LET last == IF chain = <<>> THEN dep_note ELSE chain[Len(chain)]
               spent == nullifier_hash(last.key)
           IN  /\ HasWithdrawal(l, spent)
               /\ WithdrawalOf(l, spent).new_commitment = commitment_hash(note),
           note.label = dep_note.label,
           note.key = withdrawal_secrets(account, dep_note.label, Len(chain))
    PROVE  Linked(l, dep_note, Append(chain, note))
<1> DEFINE longer == Append(chain, note)
<1>1. /\ Len(chain) \in Nat
      /\ DOMAIN longer = 1..(Len(chain) + 1)
      /\ DOMAIN chain = 1..Len(chain)
      /\ \A k \in DOMAIN chain : longer[k] = chain[k]
      /\ longer[Len(chain) + 1] = note
  OBVIOUS
<1> HIDE DEF longer
<1>2. ASSUME NEW k \in DOMAIN chain
      PROVE  Before(dep_note, longer, k) = Before(dep_note, chain, k)
  BY <1>1 DEF Before
<1>3. Before(dep_note, longer, Len(chain) + 1)
         = IF chain = <<>> THEN dep_note ELSE chain[Len(chain)]
  <2>1. CASE chain = <<>>
    BY <2>1 DEF Before
  <2>2. CASE chain # <<>>
    <3>1. Len(chain) # 0 /\ Len(chain) \in DOMAIN chain
      BY <2>2, <1>1, EmptySeq
    <3> QED
      BY <3>1, <2>2, <1>1 DEF Before
  <2> QED
    BY <2>1, <2>2
<1>4. ASSUME NEW k \in DOMAIN longer
      PROVE  LET spent == nullifier_hash(Before(dep_note, longer, k).key)
             IN  /\ longer[k].label = dep_note.label
                 /\ longer[k].key = withdrawal_secrets(account, dep_note.label, k - 1)
                 /\ HasWithdrawal(l, spent)
                 /\ WithdrawalOf(l, spent).new_commitment = commitment_hash(longer[k])
  <2>1. CASE k \in DOMAIN chain
    BY <2>1, <1>1, <1>2 DEF Linked
  <2>2. CASE k = Len(chain) + 1
    <3>1. k - 1 = Len(chain)
      BY <2>2, <1>1
    <3> QED
      BY <2>2, <3>1, <1>1, <1>3
  <2> QED
    BY <2>1, <2>2, <1>1
<1> QED
  BY <1>4 DEF Linked, longer

LEMMA NextWalkInv == TypeOK /\ WalkInv /\ [Next]_vars => WalkInv'
<1> SUFFICES ASSUME TypeOK, WalkInv, [Next]_vars PROVE WalkInv'
  OBVIOUS
<1>s. logs' = logs
  BY SameLogs
<1>1. CASE Miss \/ Finish
  BY <1>1, <1>s DEF Miss, Finish, WalkInv, ChainsComplete
<1>2. CASE Hit
  <2>1. /\ deposit'.key = deposit_secrets(account, index)
        /\ deposit'.label = dep'.label
        /\ children' = <<>> /\ current' = deposit' /\ child_index' = 0
        /\ index' = index /\ accounts' = accounts
    BY <1>2 DEF Hit, StartWalk, Note
  <2>2. Linked(logs', deposit', children')
    BY <2>1 DEF Linked
  <2> QED
    BY <2>1, <2>2, <1>s DEF WalkInv, ChainsComplete
<1>3. CASE WalkOn
  <2> DEFINE note == Change
  <2>1. /\ children' = Append(children, note) /\ current' = note
        /\ child_index' = child_index + 1 /\ pc = "walk" /\ pc' = "walk"
        /\ UNCHANGED <<index, accounts, dep, deposit>>
    BY <1>3 DEF WalkOn
  <2>2. /\ note \in Commitments
    BY <1>3, <2>1, NextTypeOK DEF TypeOK
  <2>3. /\ note.label = dep.label
        /\ note.key = withdrawal_secrets(account, dep.label, child_index)
    BY DEF Change, Note
  <2>4. /\ HasWithdrawal(logs, nullifier_hash(current.key))
        /\ WithdrawalOf(logs, nullifier_hash(current.key)).new_commitment
              = commitment_hash(note)
    BY <1>3 DEF WalkOn, IsSpent, SpendChecks, Spend
  <2> HIDE DEF note
  <2>5. /\ deposit.key = deposit_secrets(account, index)
        /\ deposit.label = dep.label
        /\ child_index = Len(children)
        /\ current = IF children = <<>> THEN deposit ELSE children[Len(children)]
        /\ Linked(logs, deposit, children)
        /\ children \in Seq(Commitments)
    BY <2>1 DEF WalkInv, TypeOK
  <2>6. Linked(logs, deposit, Append(children, note))
    BY <2>2, <2>3, <2>4, <2>5, LinkedAppend
  <2>7. /\ Append(children, note) # <<>>
        /\ Len(Append(children, note)) = Len(children) + 1
        /\ Append(children, note)[Len(children) + 1] = note
    <3>1. children \in Seq(Commitments)
      BY <2>5
    <3> QED
      BY <3>1, <2>2, AppendProperties
  <2> QED
    BY <2>1, <2>5, <2>6, <2>7, <1>s DEF WalkInv, ChainsComplete
<1>4. CASE WalkFails \/ Returned \/ UNCHANGED vars
  BY <1>4, <1>s DEF WalkFails, Returned, vars, walkVars, WalkInv, ChainsComplete
<1>5. CASE WalkEnds
  <2> DEFINE new == PoolAccount(dep.label, index, deposit, children,
                                dep.label \in RagequitLabels(logs))
  <2>1. /\ pc = "walk" /\ pc' = "scan" /\ accounts' = Append(accounts, new)
        /\ ~HasWithdrawal(logs, nullifier_hash(current.key))
    BY <1>5 DEF WalkEnds, IsSpent
  <2>2. CurrentNote(new) = current
    BY <2>1 DEF WalkInv, CurrentNote, PoolAccount
  <2>3. CompleteChain(logs, new)
    BY <2>1, <2>2 DEF WalkInv, CompleteChain, PoolAccount
  <2> HIDE DEF new
  <2>4. /\ DOMAIN accounts' = 1..(Len(accounts) + 1)
        /\ DOMAIN accounts = 1..Len(accounts) /\ Len(accounts) \in Nat
        /\ \A n \in DOMAIN accounts : accounts'[n] = accounts[n]
        /\ accounts'[Len(accounts) + 1] = new
    BY <2>1 DEF TypeOK
  <2>5. ChainsComplete'
    BY <2>3, <2>4, <1>s DEF WalkInv, ChainsComplete
  <2> QED
    BY <2>1, <2>5 DEF WalkInv
<1> QED
  BY <1>1, <1>2, <1>3, <1>4, <1>5 DEF Next

\* Every recovered account is a complete chain (sync.rs:358-380): its change
\* notes are the ones the spending events announced, under consecutive keys of
\* its label, and its last note is unspent as far as the logs tell.
THEOREM RecoveredChainsAreComplete == Spec => []ChainsComplete
<1>1. Init => TypeOK /\ WalkInv
  BY InitTypeOK, InitWalkInv
<1>2. TypeOK /\ WalkInv /\ [Next]_vars => (TypeOK /\ WalkInv)'
  BY NextTypeOK, NextWalkInv
<1>3. WalkInv => ChainsComplete
  BY DEF WalkInv
<1> QED
  BY <1>1, <1>2, <1>3, PTL DEF Spec

-----------------------------------------------------------------------------
(* The loops compute what Recovered.tla says.                              *)

LEMMA LogsAreLogs == TypeOK => IsLog(logs.deposits) /\ IsLog(logs.withdrawals)
BY DEF TypeOK, EventLogs, IsLog

\* The first note of a chain.
LEMMA FirstOfChain ==
    ASSUME NEW l, IsLog(l.withdrawals), NEW i, NEW d
    PROVE  /\ ValueAfter(l, account, i, d)[0] = d.value
           /\ ChainNote(l, account, i, d, 0)
                = Note(u256_to_field(d.value), d.label, deposit_secrets(account, i))
BY ValueRecursion DEF ChainNote, ChainKey

\* The keys of the chain so far are spent.
LEMMA SpentSoFar ==
    ASSUME TypeOK, OnChain, NEW k \in 0..(child_index - 1)
    PROVE  HasWithdrawal(logs, nullifier_hash(ChainKey(account, index, dep.label, k)))
<1>1. child_index \in Nat
  BY DEF TypeOK
<1>2. k + 1 \in 1..child_index /\ (k + 1) - 1 = k
  BY <1>1
<1> QED
  BY <1>2 DEF OnChain

\* When the last note of the chain so far is spent, the chain has a next note
\* and it is the one the walk derives.
LEMMA NextOfChain ==
    ASSUME TypeOK, OnChain, IsSpent
    PROVE  /\ child_index + 1 \in 1..ChainLength(logs, account, index, dep.label)
           /\ Spend = SpendOf(logs, account, index, dep.label, child_index)
           /\ ValueAfter(logs, account, index, dep)[child_index + 1]
                = current_value - Spend.value
           /\ Change = ChainNote(logs, account, index, dep, child_index + 1)
<1> DEFINE c == child_index
           V == ValueAfter(logs, account, index, dep)
           N == Len(logs.withdrawals)
           length == ChainLength(logs, account, index, dep.label)
<1>1. c \in Nat /\ (c + 1) - 1 = c /\ c + 1 # 0 /\ IsLog(logs.withdrawals) /\ N \in Nat
  BY LogsAreLogs DEF TypeOK, IsLog
<1>2. current.key = ChainKey(account, index, dep.label, c)
  BY DEF OnChain, ChainNote, Note
<1>3. length \in 0..(N + 1) /\ length \in Nat /\ c < length
  BY <1>1, <1>2, SpentSoFar, ChainLengthIs, ChainLengthFrom DEF IsSpent
<1>4. Spend = SpendOf(logs, account, index, dep.label, c)
  BY <1>2 DEF Spend, SpendOf
<1>5. V[c + 1] = V[c] - SpendOf(logs, account, index, dep.label, c).value
  <2>1. c + 1 \in 1..(N + 1)
    BY <1>1, <1>3
  <2> QED
    BY <1>1, <2>1, ValueRecursion
<1>6. V[c + 1] = current_value - Spend.value
  BY <1>4, <1>5 DEF OnChain
<1>7. ChainKey(account, index, dep.label, c + 1) = withdrawal_secrets(account, dep.label, c)
  BY <1>1 DEF ChainKey
<1>8. Change = ChainNote(logs, account, index, dep, c + 1)
  BY <1>6, <1>7 DEF Change, ChainNote
<1> QED
  BY <1>1, <1>3, <1>4, <1>6, <1>8

\* When it is unspent the chain ends with it.
LEMMA EndOfChain ==
    ASSUME TypeOK, OnChain, ~IsSpent
    PROVE  ChainLength(logs, account, index, dep.label) = child_index
<1>1. child_index \in Nat /\ IsLog(logs.withdrawals)
  BY LogsAreLogs DEF TypeOK
<1>2. current.key = ChainKey(account, index, dep.label, child_index)
  BY DEF OnChain, ChainNote, Note
<1> QED
  BY <1>1, <1>2, SpentSoFar, ChainLengthFrom DEF IsSpent

LEMMA InitContractInv == Init => ContractInv
BY DEF Init, ContractInv

LEMMA NextContractInv == TypeOK /\ ContractInv /\ [Next]_vars => ContractInv'
<1> SUFFICES ASSUME TypeOK, ContractInv, [Next]_vars PROVE ContractInv'
  OBVIOUS
<1>s. logs' = logs
  BY SameLogs
<1>a. ASSUME accounts' = accounts, pc' \notin {"walk", "error"} PROVE ContractInv'
  BY <1>a, <1>s DEF ContractInv
<1>1. CASE Miss \/ Finish
  BY <1>1, <1>a DEF Miss, Finish
<1>2. CASE Hit
  <2>1. /\ dep' = DepositFor(logs, Pre) /\ current' = deposit'
        /\ deposit' = Note(u256_to_field(dep'.value), dep'.label, deposit_secrets(account, index))
        /\ children' = <<>> /\ child_index' = 0 /\ current_value' = dep'.value
        /\ pc' = "walk" /\ index' = index /\ accounts' = accounts
    BY <1>2 DEF Hit, StartWalk
  <2>2. /\ ValueAfter(logs, account, index, dep')[0] = dep'.value
        /\ ChainNote(logs, account, index, dep', 0)
              = Note(u256_to_field(dep'.value), dep'.label, deposit_secrets(account, index))
    BY FirstOfChain, LogsAreLogs
  <2>3. OnChain'
    BY <2>1, <2>2, <1>s DEF OnChain, Pre
  <2> QED
    BY <2>1, <2>3, <1>s DEF ContractInv
<1>3. CASE WalkOn
  <2>1. /\ pc = "walk" /\ pc' = "walk" /\ IsSpent /\ SpendChecks
        /\ children' = Append(children, Change) /\ current' = Change
        /\ current_value' = current_value - Spend.value
        /\ child_index' = child_index + 1
        /\ UNCHANGED <<index, accounts, dep, deposit>>
    BY <1>3 DEF WalkOn
  <2>2. OnChain
    BY <2>1 DEF ContractInv
  <2> DEFINE c == child_index
             note(k) == ChainNote(logs, account, index, dep, k)
             V == ValueAfter(logs, account, index, dep)
             spend(k) == SpendOf(logs, account, index, dep.label, k)
             spent(k) == HasWithdrawal(logs, nullifier_hash(ChainKey(account, index, dep.label, k)))
  <2>3. /\ Spend = spend(c) /\ V[c + 1] = current_value - Spend.value /\ Change = note(c + 1)
    BY <2>1, <2>2, NextOfChain
  <2>4. /\ c \in Nat /\ c = Len(children) /\ children \in Seq(Commitments)
        /\ current_value \in Nat /\ current_value' \in Nat
    BY <2>2, NextTypeOK DEF OnChain, TypeOK
  <2>5. Change \in Commitments
    BY <2>1, NextTypeOK DEF TypeOK
  <2>6. /\ Len(children') = c + 1 /\ children'[c + 1] = Change
        /\ \A k \in 1..c : children'[k] = children[k]
    <3> HIDE DEF c, note
    <3> QED
      BY <2>1, <2>4, <2>5
  <2>7. V[c + 1] >= 0
    BY <2>1, <2>3, <2>4
  <2>8. commitment_hash(note(c + 1)) = spend(c).new_commitment
    BY <2>1, <2>3 DEF SpendChecks
  <2>9. spent(c)
    <3>1. current.key = ChainKey(account, index, dep.label, c)
      BY <2>2 DEF OnChain, ChainNote, Note
    <3> QED
      BY <2>1, <3>1 DEF IsSpent
  <2>10. ASSUME NEW k \in 1..(c + 1)
         PROVE  /\ children'[k] = note(k) /\ spent(k - 1) /\ V[k] >= 0
                /\ commitment_hash(children'[k]) = spend(k - 1).new_commitment
    <3>1. CASE k = c + 1
      <4>1. k - 1 = c
        BY <3>1, <2>4
      <4> HIDE DEF c, note, V, spend, spent
      <4> QED
        BY <3>1, <4>1, <2>3, <2>6, <2>7, <2>8, <2>9
    <3>2. CASE k # c + 1
      <4>1. k \in 1..c
        BY <3>2, <2>4
      <4> QED
        BY <4>1, <2>2, <2>6 DEF OnChain
    <3> QED
      BY <3>1, <3>2
  <2>11. OnChain'
    <3>1. dep = DepositFor(logs, Pre) /\ deposit = note(0)
      BY <2>2 DEF OnChain
    <3> QED
      BY <3>1, <2>1, <2>3, <2>6, <2>10, <1>s DEF OnChain, Pre
  <2> QED
    BY <2>1, <2>11, <1>s DEF ContractInv
<1>4. CASE WalkFails
  <2>1. /\ pc = "walk" /\ pc' = "error" /\ IsSpent /\ ~SpendChecks
        /\ UNCHANGED <<index, accounts>>
    BY <1>4 DEF WalkFails
  <2>2. OnChain
    BY <2>1 DEF ContractInv
  <2> DEFINE k == child_index + 1
  <2>3. /\ k \in 1..ChainLength(logs, account, index, dep.label)
        /\ Spend = SpendOf(logs, account, index, dep.label, child_index)
        /\ ValueAfter(logs, account, index, dep)[k] = current_value - Spend.value
        /\ Change = ChainNote(logs, account, index, dep, k)
    BY <2>1, <2>2, NextOfChain
  <2>4. k - 1 = child_index /\ current_value \in Nat /\ Spend.value \in Nat
    <3>1. Spend \in WithdrawLogs
      BY <2>1, WithdrawalOfType DEF IsSpent, Spend, TypeOK
    <3> QED
      BY <3>1 DEF TypeOK, WithdrawLogs
  <2>5. \/ ~(ValueAfter(logs, account, index, dep)[k] >= 0)
        \/ commitment_hash(ChainNote(logs, account, index, dep, k))
              # SpendOf(logs, account, index, dep.label, k - 1).new_commitment
    <3> HIDE DEF k
    <3> QED
      BY <2>1, <2>3, <2>4 DEF SpendChecks
  <2>6. ~ChainChecks(logs, account, index, dep)
    BY <2>3, <2>5 DEF ChainChecks
  <2>7. dep = DepositFor(logs, Pre) /\ Pre' = Pre
    BY <2>1, <2>2 DEF OnChain, Pre
  <2> QED
    BY <2>1, <2>6, <2>7, <1>s DEF ContractInv
<1>5. CASE WalkEnds
  <2> DEFINE new == PoolAccount(dep.label, index, deposit, children,
                                dep.label \in RagequitLabels(logs))
  <2>1. /\ pc = "walk" /\ pc' = "scan" /\ accounts' = Append(accounts, new) /\ ~IsSpent
    BY <1>5 DEF WalkEnds
  <2>2. OnChain
    BY <2>1 DEF ContractInv
  <2>3. ChainLength(logs, account, index, dep.label) = child_index
    BY <2>1, <2>2, EndOfChain
  <2>4. dep = DepositFor(logs, deposit_precommitment(account, index))
    BY <2>2 DEF OnChain, Pre
  <2>5. children = [k \in 1..child_index |-> ChainNote(logs, account, index, dep, k)]
    <3>1. children = [k \in 1..child_index |-> children[k]]
      BY <2>2 DEF OnChain, TypeOK
    <3> QED
      BY <3>1, <2>2 DEF OnChain
  <2>6. new = RecoveredAccount(logs, account, index)
    BY <2>2, <2>3, <2>4, <2>5 DEF RecoveredAccount, OnChain
  <2>7. ChainChecks(logs, account, index, dep)
    BY <2>2, <2>3 DEF ChainChecks, OnChain
  <2>8. new.deposit_index = index
    BY DEF PoolAccount
  <2> HIDE DEF new
  <2>9. /\ DOMAIN accounts' = 1..(Len(accounts) + 1)
        /\ DOMAIN accounts = 1..Len(accounts) /\ Len(accounts) \in Nat
        /\ \A n \in DOMAIN accounts : accounts'[n] = accounts[n]
        /\ accounts'[Len(accounts) + 1] = new
    BY <2>1 DEF TypeOK
  <2>10. ASSUME NEW n \in DOMAIN accounts'
         PROVE  LET i == accounts'[n].deposit_index
                IN  /\ accounts'[n] = RecoveredAccount(logs, account, i)
                    /\ ChainChecks(logs, account, i,
                                   DepositFor(logs, deposit_precommitment(account, i)))
    <3>1. CASE n \in DOMAIN accounts
      BY <3>1, <2>9 DEF ContractInv
    <3>2. CASE n = Len(accounts) + 1
      BY <3>2, <2>4, <2>6, <2>7, <2>8, <2>9
    <3> QED
      BY <3>1, <3>2, <2>9
  <2> QED
    BY <2>1, <2>10, <1>s DEF ContractInv
<1>6. CASE Returned \/ UNCHANGED vars
  <2>1. UNCHANGED <<logs, index, accounts, pc, dep, deposit, children, current, current_value,
                    child_index>>
    BY <1>6 DEF Returned, vars, walkVars
  <2> QED
    BY <2>1 DEF ContractInv, OnChain, Pre
<1> QED
  BY <1>1, <1>2, <1>3, <1>4, <1>5, <1>6 DEF Next

\* The indices recovered are those of the deposits within the gap.
LEMMA IndicesWithinGap ==
    ASSUME TypeOK, NEW i
    PROVE  i \in RecoveredIndices(logs, account, gap_limit)
             <=> i \in Nat /\ DepositedAt(logs, i) /\ WithinGap(logs, i)
BY LogsAreLogs, RecoveredIndicesAre, GapLimitAssumption DEF DepositedAt, WithinGap, Reached

LEMMA InvGivesContract == TypeOK /\ ScanInv /\ ContractInv => OutcomeIsContract
<1> SUFFICES ASSUME TypeOK, ScanInv, ContractInv PROVE OutcomeIsContract
  OBVIOUS
<1> DEFINE indices == RecoveredIndices(logs, account, gap_limit)
           good(i) == ChainChecks(logs, account, i,
                                  DepositFor(logs, deposit_precommitment(account, i)))
<1>1. ASSUME pc = "error" PROVE ~RecoverySucceeds(logs, account, gap_limit)
  <2>1. index \in indices
    BY <1>1, IndicesWithinGap DEF ScanInv, TypeOK
  <2>2. ~good(index)
    BY <1>1 DEF ContractInv, Pre
  <2> QED
    BY <2>1, <2>2 DEF RecoverySucceeds
<1>2. ASSUME pc = "done"
      PROVE  /\ RecoverySucceeds(logs, account, gap_limit)
             /\ {accounts[n] : n \in DOMAIN accounts}
                   = RecoveredAccounts(logs, account, gap_limit)
  <2>1. ASSUME NEW i \in indices
        PROVE  \E n \in DOMAIN accounts :
                  /\ accounts[n] = RecoveredAccount(logs, account, i)
                  /\ good(i)
    <3>1. i \in Nat /\ DepositedAt(logs, i) /\ WithinGap(logs, i)
      BY IndicesWithinGap
    <3>2. PICK n \in DOMAIN accounts : accounts[n].deposit_index = i
      BY <1>2, <3>1, DepositsFound
    <3> QED
      BY <3>2 DEF ContractInv
  <2>2. ASSUME NEW n \in DOMAIN accounts
        PROVE  \E i \in indices : accounts[n] = RecoveredAccount(logs, account, i)
    <3>1. accounts[n].deposit_index \in Nat
      <4>1. accounts[n] \in PoolAccounts
        BY DEF TypeOK
      <4> QED
        BY <4>1 DEF PoolAccounts
    <3>2. accounts[n].deposit_index \in indices
      BY <3>1, IndicesWithinGap DEF ScanInv
    <3> QED
      BY <3>2 DEF ContractInv
  <2> QED
    BY <2>1, <2>2 DEF RecoverySucceeds, RecoveredAccounts
<1>3. \A m, n \in DOMAIN accounts :
          m < n => accounts[m].deposit_index < accounts[n].deposit_index
  BY DEF ScanInv
<1> QED
  BY <1>1, <1>2, <1>3 DEF OutcomeIsContract

\* Recovery's two loops (sync.rs:343-391) return what Recovered.tla says and fail
\* when it says: for any account, gap limit and logs, those that no pool ever
\* emitted included.
THEOREM RecoveryImplementsContract == Spec => []OutcomeIsContract
<1>1. Init => TypeOK /\ ScanInv /\ ContractInv
  BY InitTypeOK, InitScanInv, InitContractInv
<1>2. TypeOK /\ ScanInv /\ ContractInv /\ [Next]_vars => (TypeOK /\ ScanInv /\ ContractInv)'
  BY NextTypeOK, NextScanInv, NextContractInv
<1> QED
  BY <1>1, <1>2, InvGivesContract, PTL DEF Spec
=============================================================================
