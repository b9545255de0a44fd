------------------------------ MODULE MCRecovery ------------------------------
(***************************************************************************)
(* Recovery over every log of a small universe, consistent or not: deposits *)
(* at any subset of the indices 0..4 (so gaps shorter than, equal to and    *)
(* longer than the limit), an index deposited twice, another account's     *)
(* deposit, one labelled with the scope (so that its first change note has *)
(* the deposit's own key), and every sequence of up to MaxWithdrawals of   *)
(* the withdrawals below, which spend a deposit, a change note, or nothing *)
(* of the account's and announce the right change note, one of the wrong   *)
(* value or one of the wrong index.                                        *)
(***************************************************************************)
EXTENDS Recovery, FiniteSets

CONSTANTS Me, You, MaxWithdrawals

MCAccounts == {Me, You}

Key(i) == deposit_secrets(Me, i)
Change1(lab, k) == withdrawal_secrets(Me, lab, k)

\* The deposit at index i gets label i + 1 and value 2 (or 0, or one that is
\* zero in the field, so that the difference between the two shows).
Deposited(a, i, lab, value) ==
    LET n == Note(u256_to_field(value), lab, deposit_secrets(a, i))
    IN  DepositLog(commitment_hash(n), lab, value, deposit_precommitment(a, i))

ByIndex(D) ==
    LET f[i \in 0..5] ==
          IF i = 5 THEN <<>>
          ELSE (IF i \in D THEN <<Deposited(Me, i, i + 1, 2)>> ELSE <<>>) \o f[i + 1]
    IN  f[0]

DepositLists ==
    {ByIndex(D) : D \in SUBSET (0..4)} \cup
    { <<Deposited(Me, 0, 1, 2), Deposited(Me, 0, 2, 1), Deposited(Me, 1, 3, 2)>>,
      <<Deposited(You, 0, 1, 2), Deposited(Me, 1, 2, FieldOrder)>>,
      <<Deposited(Me, 0, Scope, 2)>>,
      <<Deposited(Me, 0, 1, 2), Deposited(Me, 1, 1, 2)>> }

Withdrawn(key, value, newValue, lab, k) ==
    WithdrawLog(value, nullifier_hash(key),
                commitment_hash(Note(newValue, lab, Change1(lab, k))))

WithdrawalEvents ==
    { Withdrawn(Key(0), 1, 1, 1, 0),            \* partial, of deposit 0
      Withdrawn(Key(0), 2, 0, 1, 0),            \* full, of deposit 0
      Withdrawn(Key(0), 1, 1, 1, 1),            \* announces the wrong index
      Withdrawn(Change1(1, 0), 1, 0, 1, 1),     \* the rest of deposit 0
      Withdrawn(Change1(1, 0), 0, 1, 1, 1),     \* withdraws nothing
      Withdrawn(Key(1), 2, 0, 2, 0),            \* full, of deposit 1
      Withdrawn(Key(1), 3, 0, 2, 0),            \* more than deposit 1 holds
      Withdrawn(Key(3), 1, 1, 4, 0),            \* of deposit 3, beyond a gap
      Withdrawn(deposit_secrets(You, 0), 1, 1, 1, 0) }

WithdrawalLists == UNION {[1..n -> WithdrawalEvents] : n \in 0..MaxWithdrawals}

RagequitLists ==
    { <<>>, <<RagequitLog(commitment_hash(Note(2, 1, Key(0))), 1, 2)>> }

MCLogs ==
    {[deposits |-> d, withdrawals |-> w, ragequits |-> r] :
        d \in DepositLists, w \in WithdrawalLists, r \in RagequitLists}
=============================================================================
