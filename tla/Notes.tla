-------------------------------- MODULE Notes --------------------------------
(***************************************************************************)
(* The vocabulary of the wallet SDK: keys, commitments ("notes"), and the  *)
(* pool's decoded event logs, with the lookups the SDK does in them.       *)
(*                                                                         *)
(* Poseidon and keccak are modelled as injective constructors: a hash is   *)
(* the record of what was hashed, so two hashes are equal exactly when     *)
(* their arguments are.  A nullifier and a secret are always derived side  *)
(* by side from the same arguments, so one KEY stands for the pair.        *)
(***************************************************************************)
EXTENDS Integers, Sequences

CONSTANTS
    Accounts,     \* the accounts (master keys) that exist
    FieldOrder    \* the order of the scalar field amounts are reduced into

ASSUME FieldOrderAssumption == FieldOrder \in Nat \ {0}

-----------------------------------------------------------------------------
(* Keys (account.rs) and labels (context.rs).                              *)

\* The base under which deposit keys are derived.  A label is identified with
\* the nonce that is hashed into it; nonces start at 1, so no label is Scope.
Scope == 0

label(nonce) == nonce

Keys == [account: Accounts, base: Nat, index: Nat]

deposit_secrets(account, index) ==
    [account |-> account, base |-> Scope, index |-> index]

\* Mutant: withdrawal keys derived under the scope, as deposit keys are.
withdrawal_secrets_unlabelled(account, lab, index) ==
    [account |-> account, base |-> Scope, index |-> index]

withdrawal_secrets(account, lab, index) ==
    [account |-> account, base |-> lab, index |-> index]

-----------------------------------------------------------------------------
(* Hashes (commitment.rs).                                                 *)

\* Mutant: the index is not hashed.
nullifier_hash_of_base(key) == [nullifier |-> [key EXCEPT !.index = 0]]

nullifier_hash(key) == [nullifier |-> key]

precommitment(key) == [nullifier_and_secret |-> key]

deposit_precommitment(account, index) ==
    precommitment(deposit_secrets(account, index))

\* A uint256 as a field element.
u256_to_field(x) == x % FieldOrder

\* The Commitment struct, and the hash that is its leaf in the state tree.
Note(value, lab, key) == [value |-> value, label |-> lab, key |-> key]

commitment_hash(note) ==
    [value |-> note.value, label |-> note.label,
     precommitment |-> precommitment(note.key)]

NullifierHashes == [nullifier: Keys]
Precommitments == [nullifier_and_secret: Keys]
Commitments == [value: Nat, label: Nat, key: Keys]
CommitmentHashes == [value: Nat, label: Nat, precommitment: Precommitments]

-----------------------------------------------------------------------------
(* Event logs (sync.rs).                                                   *)

DepositLog(commitment, lab, value, pre) ==
    [commitment |-> commitment, label |-> lab, value |-> value,
     precommitment |-> pre]

WithdrawLog(value, spent, new) ==
    [value |-> value, spent_nullifier |-> spent, new_commitment |-> new]

RagequitLog(commitment, lab, value) ==
    [commitment |-> commitment, label |-> lab, value |-> value]

\* What recovery reads of a PoolLogs: its deposits, withdrawals and ragequits.
DepositLogs == [commitment: CommitmentHashes, label: Nat, value: Nat,
                precommitment: Precommitments]
WithdrawLogs == [value: Nat, spent_nullifier: NullifierHashes,
                 new_commitment: CommitmentHashes]
RagequitLogs == [commitment: CommitmentHashes, label: Nat, value: Nat]
EventLogs == [deposits: Seq(DepositLogs), withdrawals: Seq(WithdrawLogs),
              ragequits: Seq(RagequitLogs)]

\* The logs are collected into HashMaps keyed by precommitment and by spent
\* nullifier, so of several entries with one key the last one in the log wins.
LastOf(positions) == CHOOSE i \in positions : \A j \in positions : j <= i

DepositsFor(logs, pre) ==
    {i \in DOMAIN logs.deposits : logs.deposits[i].precommitment = pre}

HasDeposit(logs, pre) == DepositsFor(logs, pre) # {}

DepositFor(logs, pre) == logs.deposits[LastOf(DepositsFor(logs, pre))]

WithdrawalsOf(logs, spent) ==
    {i \in DOMAIN logs.withdrawals : logs.withdrawals[i].spent_nullifier = spent}

HasWithdrawal(logs, spent) == WithdrawalsOf(logs, spent) # {}

WithdrawalOf(logs, spent) == logs.withdrawals[LastOf(WithdrawalsOf(logs, spent))]

RagequitLabels(logs) == {logs.ragequits[i].label : i \in DOMAIN logs.ragequits}

-----------------------------------------------------------------------------
(* A recovered account (sync.rs).                                          *)

PoolAccount(lab, index, deposit, children, ragequit) ==
    [label |-> lab, deposit_index |-> index, deposit |-> deposit,
     children |-> children, ragequit |-> ragequit]

PoolAccounts == [label: Nat, deposit_index: Nat, deposit: Commitments,
                 children: Seq(Commitments), ragequit: BOOLEAN]

\* Mutant: the first change note.
FirstNote(acct) ==
    IF acct.children = <<>> THEN acct.deposit ELSE acct.children[1]

\* The last change note, else the deposit.
CurrentNote(acct) ==
    IF acct.children = <<>> THEN acct.deposit
    ELSE acct.children[Len(acct.children)]

\* Mutant: a ragequit account is spendable.
IsSpendableAfterExit(acct) == CurrentNote(acct).value # 0

\* spendable() is Some(CurrentNote(acct)) exactly when this holds.
IsSpendable(acct) == ~acct.ragequit /\ CurrentNote(acct).value # 0
=============================================================================
