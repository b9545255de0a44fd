------------------------------ MODULE Recovered ------------------------------
(***************************************************************************)
(* What recover_accounts (sync.rs) returns, stated without its loops: which *)
(* deposit indices it reaches, the chain of notes each of them ends in, and *)
(* when it fails.  Recovery.tla models the loops; its runs show that they  *)
(* compute this.  Wallet.tla uses it as the wallet's one-step recovery.    *)
(***************************************************************************)
EXTENDS Notes

\* The chain of notes of the deposit at index i: its k-th key, k = 0 being
\* the deposit's own.
ChainKey(a, i, lab, k) ==
    IF k = 0 THEN deposit_secrets(a, i) ELSE withdrawal_secrets(a, lab, k - 1)

SpendOf(logs, a, i, lab, k) ==
    WithdrawalOf(logs, nullifier_hash(ChainKey(a, i, lab, k)))

\* The number of change notes: the first k whose key no withdrawal spends.
\* Distinct keys need distinct withdrawals, and a change note can only have the
\* deposit's own key (under a label that is the scope).
ChainLength(logs, a, i, lab) ==
    CHOOSE n \in 0..(Len(logs.withdrawals) + 1) :
        /\ ~HasWithdrawal(logs, nullifier_hash(ChainKey(a, i, lab, n)))
        /\ \A k \in 0..(n - 1) :
              HasWithdrawal(logs, nullifier_hash(ChainKey(a, i, lab, k)))

\* What is left after the first k withdrawals of the chain, as a uint256 (or
\* below zero, which checked_sub refuses).
ValueAfter(logs, a, i, dep) ==
    LET left[k \in 0..(Len(logs.withdrawals) + 1)] ==
            IF k = 0 THEN dep.value
            ELSE left[k - 1] - SpendOf(logs, a, i, dep.label, k - 1).value
    IN  left

ChainNote(logs, a, i, dep, k) ==
    Note(u256_to_field(ValueAfter(logs, a, i, dep)[k]), dep.label,
         ChainKey(a, i, dep.label, k))

\* Every withdrawal of the chain announced the change note the keys derive.
ChainChecks(logs, a, i, dep) ==
    \A k \in 1..ChainLength(logs, a, i, dep.label) :
        /\ ValueAfter(logs, a, i, dep)[k] >= 0
        /\ commitment_hash(ChainNote(logs, a, i, dep, k))
              = SpendOf(logs, a, i, dep.label, k - 1).new_commitment

RecoveredAccount(logs, a, i) ==
    LET dep == DepositFor(logs, deposit_precommitment(a, i))
    IN  PoolAccount(dep.label, i,
                    ChainNote(logs, a, i, dep, 0),
                    [k \in 1..ChainLength(logs, a, i, dep.label) |->
                        ChainNote(logs, a, i, dep, k)],
                    dep.label \in RagequitLabels(logs))

\* Mutant: the window of `gap` indices does not move with the deposits found.
ReachedFromStart(logs, a, gap, i) == i < gap

\* Index i is tried unless a whole window of `gap` empty indices lies below it.
Reached(logs, a, gap, i) ==
    \A first \in 0..(i - gap) :
        \E j \in first..(first + gap - 1) :
            HasDeposit(logs, deposit_precommitment(a, j))

\* Mutant: ragequit accounts are left out.
OpenIndices(logs, a, gap) ==
    {i \in 0..((Len(logs.deposits) + 1) * gap - 1) :
        /\ HasDeposit(logs, deposit_precommitment(a, i))
        /\ Reached(logs, a, gap, i)
        /\ DepositFor(logs, deposit_precommitment(a, i)).label \notin RagequitLabels(logs)}

\* With d deposits at most (d + 1) * gap indices are tried.
RecoveredIndices(logs, a, gap) ==
    {i \in 0..((Len(logs.deposits) + 1) * gap - 1) :
        /\ HasDeposit(logs, deposit_precommitment(a, i))
        /\ Reached(logs, a, gap, i)}

RecoverySucceeds(logs, a, gap) ==
    \A i \in RecoveredIndices(logs, a, gap) :
        ChainChecks(logs, a, i, DepositFor(logs, deposit_precommitment(a, i)))

RecoveredAccounts(logs, a, gap) ==
    {RecoveredAccount(logs, a, i) : i \in RecoveredIndices(logs, a, gap)}

SpendableNotes(logs, a, gap) ==
    {CurrentNote(acct) : acct \in {x \in RecoveredAccounts(logs, a, gap) : IsSpendable(x)}}
=============================================================================
