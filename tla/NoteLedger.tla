------------------------------ MODULE NoteLedger ------------------------------
(***************************************************************************)
(* What the wallets and the pool together promise, with no notes, proofs or *)
(* logs in sight: a ledger with one balance per deposit.  A deposit opens   *)
(* an entry; a withdrawal takes part of an approved entry's balance; an     *)
(* exit takes all of it, approved or not; nothing else moves a balance.     *)
(***************************************************************************)
EXTENDS Integers

CONSTANTS
    Owners,            \* who may deposit
    DepositAmounts,
    WithdrawAmounts,
    Labels             \* the labels entries are opened under: 1, 2, ...

VARIABLES
    entry,      \* per open label: who deposited, and the balance left
    approved    \* the labels withdrawals are open to

vars == <<entry, approved>>

Init ==
    /\ entry = [l \in {} |-> {}]
    /\ approved = {}

Open(owner, amount, l) ==
    /\ l \notin DOMAIN entry
    /\ l = 1 \/ l - 1 \in DOMAIN entry
    /\ entry' = [k \in DOMAIN entry \cup {l} |->
                    IF k = l THEN [owner |-> owner, balance |-> amount] ELSE entry[k]]
    /\ UNCHANGED approved

Withdraw(l, amount) ==
    /\ l \in approved
    /\ amount <= entry[l].balance
    /\ entry' = [entry EXCEPT ![l].balance = @ - amount]
    /\ UNCHANGED approved

Exit(l) ==
    /\ entry[l].balance > 0
    /\ entry' = [entry EXCEPT ![l].balance = 0]
    /\ UNCHANGED approved

Approve(S) ==
    /\ approved' = S
    /\ UNCHANGED entry

Next ==
    \/ \E o \in Owners, v \in DepositAmounts, l \in Labels : Open(o, v, l)
    \/ \E l \in DOMAIN entry, v \in WithdrawAmounts : Withdraw(l, v)
    \/ \E l \in DOMAIN entry : Exit(l)
    \/ \E S \in SUBSET DOMAIN entry : Approve(S)

Spec == Init /\ [][Next]_vars
=============================================================================
