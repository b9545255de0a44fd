------------------------------- MODULE Recovery -------------------------------
(***************************************************************************)
(* recover_accounts (sync.rs): the gap-limit scan over deposit indices and, *)
(* for every deposit found, the walk along its chain of change notes.  One *)
(* action per branch of the two nested loops.  The logs are what a scan    *)
(* returned: any logs at all, since eth_getLogs is not verified.           *)
(***************************************************************************)
EXTENDS Recovered

CONSTANTS
    account,      \* the account whose notes are recovered
    gap_limit,    \* consecutive empty deposit indices before recovery stops
    Logs          \* the logs recovery may be given

ASSUME AccountAssumption == account \in Accounts
ASSUME GapLimitAssumption == gap_limit \in Nat
ASSUME LogsAssumption == Logs \subseteq EventLogs

VARIABLES
    logs,           \* the argument
    index,          \* the deposit index tried next
    misses,         \* consecutive empty indices so far
    accounts,       \* the result so far
    pc,             \* "scan", "walk", "done" or "error"
    dep,            \* the Deposited event of the account being walked
    deposit,        \* its deposit note
    children,       \* the change notes found so far
    current,        \* the last note of the chain so far
    current_value,  \* its value as a uint256
    child_index     \* the index of the next change note

walkVars == <<dep, deposit, children, current, current_value, child_index>>
vars == <<logs, index, misses, accounts, pc, walkVars>>

\* The walk's locals before the first deposit is found.
NoNote == Note(0, Scope, deposit_secrets(account, 0))
NoDeposit == DepositLog(commitment_hash(NoNote), Scope, 0,
                        deposit_precommitment(account, 0))

-----------------------------------------------------------------------------

Init ==
    /\ logs \in Logs
    /\ index = 0
    /\ misses = 0
    /\ accounts = <<>>
    /\ pc = "scan"
    /\ dep = NoDeposit
    /\ deposit = NoNote
    /\ current = NoNote
    /\ children = <<>>
    /\ current_value = 0
    /\ child_index = 0

\* The precommitment looked for at this index.
Pre == deposit_precommitment(account, index)

\* Mutant: the gap limit is not looked at.
MissForever ==
    /\ pc = "scan"
    /\ ~HasDeposit(logs, Pre)
    /\ misses' = misses + 1
    /\ index' = index + 1
    /\ UNCHANGED <<logs, accounts, pc, walkVars>>

\* No deposit at this index.
Miss ==
    /\ pc = "scan"
    /\ misses < gap_limit
    /\ ~HasDeposit(logs, Pre)
    /\ misses' = misses + 1
    /\ index' = index + 1
    /\ UNCHANGED <<logs, accounts, pc, walkVars>>

\* The note of the deposit, and the locals of the walk that starts at it.
StartWalk ==
    /\ pc = "scan"
    /\ misses < gap_limit
    /\ HasDeposit(logs, Pre)
    /\ dep' = DepositFor(logs, Pre)
    /\ deposit' = Note(u256_to_field(dep'.value), dep'.label,
                       deposit_secrets(account, index))
    /\ children' = <<>>
    /\ current' = deposit'
    /\ current_value' = dep'.value
    /\ child_index' = 0
    /\ pc' = "walk"
    /\ UNCHANGED <<logs, index, accounts>>

\* Mutant: a deposit does not reset the count of misses.
HitKeepingMisses == StartWalk /\ UNCHANGED misses

\* A deposit at this index.
Hit == StartWalk /\ misses' = 0

\* The event that spends the chain's last note, if there is one.
IsSpent == HasWithdrawal(logs, nullifier_hash(current.key))
Spend == WithdrawalOf(logs, nullifier_hash(current.key))

\* Mutant: every withdrawal is taken off the deposit.
ChangeOfDeposit == Note(u256_to_field(dep.value - Spend.value), dep.label,
                        withdrawal_secrets(account, dep.label, child_index))

\* The change note the SDK derives for that event.
Change == Note(u256_to_field(current_value - Spend.value), dep.label,
               withdrawal_secrets(account, dep.label, child_index))

\* Mutant: the announced change note is not compared.
AmountChecks == Spend.value <= current_value

\* The derived change note is the one the event announced.
SpendChecks ==
    /\ Spend.value <= current_value
    /\ commitment_hash(Change) = Spend.new_commitment

WalkOn ==
    /\ pc = "walk"
    /\ IsSpent
    /\ SpendChecks
    /\ children' = Append(children, Change)
    /\ current' = Change
    /\ current_value' = current_value - Spend.value
    /\ child_index' = child_index + 1
    /\ UNCHANGED <<logs, index, misses, accounts, pc, dep, deposit>>

\* Mutant: a chain that does not check out is looked at again.
WalkRetries ==
    /\ pc = "walk"
    /\ IsSpent
    /\ ~SpendChecks
    /\ UNCHANGED vars

\* One chain that does not check out fails the whole recovery.
WalkFails ==
    /\ pc = "walk"
    /\ IsSpent
    /\ ~SpendChecks
    /\ pc' = "error"
    /\ UNCHANGED <<logs, index, misses, accounts, walkVars>>

\* The chain's last note is unspent: the account is complete.
WalkEnds ==
    /\ pc = "walk"
    /\ ~IsSpent
    /\ accounts' = Append(accounts,
            PoolAccount(dep.label, index, deposit, children,
                        dep.label \in RagequitLabels(logs)))
    /\ index' = index + 1
    /\ pc' = "scan"
    /\ UNCHANGED <<logs, misses, walkVars>>

Finish ==
    /\ pc = "scan"
    /\ misses >= gap_limit
    /\ pc' = "done"
    /\ UNCHANGED <<logs, index, misses, accounts, walkVars>>

\* The function has returned Ok(accounts) or an error.
Returned == pc \in {"done", "error"} /\ UNCHANGED vars

Next == Miss \/ Hit \/ WalkOn \/ WalkFails \/ WalkEnds \/ Finish \/ Returned

\* The function runs to its end once called.
Spec == Init /\ [][Next]_vars /\ WF_vars(Next)

-----------------------------------------------------------------------------
TypeOK ==
    /\ logs \in EventLogs
    /\ index \in Nat
    /\ misses \in 0..gap_limit
    /\ accounts \in Seq(PoolAccounts)
    /\ pc \in {"scan", "walk", "done", "error"}
    /\ dep \in DepositLogs
    /\ deposit \in Commitments
    /\ children \in Seq(Commitments)
    /\ current \in Commitments
    /\ current_value \in Nat
    /\ child_index \in Nat

(* Recovery returns whatever logs it is given (sync.rs:346, 363): indices    *)
(* run out of deposits and every step of a walk consumes another withdrawal. *)
Terminates == <>(pc \in {"done", "error"})

\* This account deposited at index i, so far as the logs l tell.
DepositedAt(l, i) == HasDeposit(l, deposit_precommitment(account, i))

\* Fewer than gap_limit empty indices in a row lie below i.
WithinGap(l, i) ==
    \A first \in 0..(i - gap_limit) :
        \E j \in first..(first + gap_limit - 1) : DepositedAt(l, j)

(* The gap-limit promise (sync.rs:313-316, 346-353): when recovery returns   *)
(* Ok, every deposit of this account that no full window of empty indices    *)
(* precedes is among the result, and nothing else is: no deposit is lost to  *)
(* a miss counter that was not reset, nor returned twice.                    *)
EveryDepositFound ==
    pc = "done" =>
        /\ \A d \in DOMAIN logs.deposits :
              LET i == logs.deposits[d].precommitment.nullifier_and_secret.index
              IN  DepositedAt(logs, i) /\ WithinGap(logs, i) =>
                      \E n \in DOMAIN accounts : accounts[n].deposit_index = i
        /\ \A n \in DOMAIN accounts :
              DepositedAt(logs, accounts[n].deposit_index)
              /\ WithinGap(logs, accounts[n].deposit_index)
        /\ \A m, n \in DOMAIN accounts :
              m < n => accounts[m].deposit_index < accounts[n].deposit_index

\* The note before the k-th change note of a chain.
Before(dep_note, chain, k) == IF k = 1 THEN dep_note ELSE chain[k - 1]

\* Each change note has the next key of the label, and the logs l hold a
\* withdrawal that spends the note before it and announces it.
Linked(l, dep_note, chain) ==
    \A k \in DOMAIN chain :
        LET spent == nullifier_hash(Before(dep_note, chain, k).key)
        IN  /\ chain[k].label = dep_note.label
            /\ chain[k].key = withdrawal_secrets(account, dep_note.label, k - 1)
            /\ HasWithdrawal(l, spent)
            /\ WithdrawalOf(l, spent).new_commitment = commitment_hash(chain[k])

\* An account whose chain starts at its deposit's key, is linked, and ends in
\* a note that no withdrawal in l spends.
CompleteChain(l, acct) ==
    /\ acct.deposit.key = deposit_secrets(account, acct.deposit_index)
    /\ acct.deposit.label = acct.label
    /\ Linked(l, acct.deposit, acct.children)
    /\ ~HasWithdrawal(l, nullifier_hash(CurrentNote(acct).key))

(* The chain promise (sync.rs:316-317, 358-380): every recovered account     *)
(* starts at its deposit's key, each of its change notes was announced by    *)
(* the withdrawal that spends the note before it, and the note it ends in    *)
(* is spent by no withdrawal in the logs.                                    *)
ChainsComplete == \A n \in DOMAIN accounts : CompleteChain(logs, accounts[n])

(* Recovery as a whole (sync.rs:313-317, 343-391): it returns exactly the     *)
(* accounts of the deposits the gap limit reaches, in index order and each    *)
(* with its whole chain of change notes, and it fails exactly when one of     *)
(* those chains does not check out.                                           *)
OutcomeIsContract ==
    /\ pc = "done" =>
         /\ RecoverySucceeds(logs, account, gap_limit)
         /\ {accounts[n] : n \in DOMAIN accounts}
               = RecoveredAccounts(logs, account, gap_limit)
         /\ \A m, n \in DOMAIN accounts :
               m < n => accounts[m].deposit_index < accounts[n].deposit_index
    /\ pc = "error" => ~RecoverySucceeds(logs, account, gap_limit)

-----------------------------------------------------------------------------
(* The inductive strengthenings of the invariants above.                   *)

\* The scan: misses counts the empty indices right below index, every
\* deposit below index is in the result, and whatever is in the result, or
\* being walked, has no full window of empty indices below it.
ScanInv ==
    /\ misses <= index
    /\ \A j \in (index - misses)..(index - 1) : ~DepositedAt(logs, j)
    /\ pc \in {"scan", "done"} /\ misses < index => DepositedAt(logs, index - misses - 1)
    /\ pc \in {"walk", "error"} => misses = 0 /\ DepositedAt(logs, index) /\ WithinGap(logs, index)
    /\ pc = "done" => misses = gap_limit
    /\ \A j \in 0..(index - 1) :
          DepositedAt(logs, j) => \E n \in DOMAIN accounts : accounts[n].deposit_index = j
    /\ \A n \in DOMAIN accounts :
          /\ accounts[n].deposit_index < index
          /\ DepositedAt(logs, accounts[n].deposit_index)
          /\ WithinGap(logs, accounts[n].deposit_index)
    /\ \A m, n \in DOMAIN accounts :
          m < n => accounts[m].deposit_index < accounts[n].deposit_index

\* The walk: the chain found so far is linked and `current` is its end.
WalkInv ==
    /\ pc = "walk" =>
          /\ deposit.key = deposit_secrets(account, index)
          /\ deposit.label = dep.label
          /\ child_index = Len(children)
          /\ current = IF children = <<>> THEN deposit ELSE children[Len(children)]
          /\ Linked(logs, deposit, children)
    /\ ChainsComplete

\* The walk: what it holds is what Recovered.tla says of the chain so far.
OnChain ==
    /\ dep = DepositFor(logs, Pre)
    /\ child_index = Len(children)
    /\ deposit = ChainNote(logs, account, index, dep, 0)
    /\ current = ChainNote(logs, account, index, dep, child_index)
    /\ current_value = ValueAfter(logs, account, index, dep)[child_index]
    /\ \A k \in 1..child_index :
          /\ children[k] = ChainNote(logs, account, index, dep, k)
          /\ HasWithdrawal(logs, nullifier_hash(ChainKey(account, index, dep.label, k - 1)))
          /\ ValueAfter(logs, account, index, dep)[k] >= 0
          /\ commitment_hash(children[k])
                = SpendOf(logs, account, index, dep.label, k - 1).new_commitment

\* The recovery: every account in the result is the one of its index, whose
\* chain checks out, and the chain an error was returned for does not.
ContractInv ==
    /\ pc = "walk" => OnChain
    /\ pc = "error" => ~ChainChecks(logs, account, index, DepositFor(logs, Pre))
    /\ \A n \in DOMAIN accounts :
          LET i == accounts[n].deposit_index
          IN  /\ accounts[n] = RecoveredAccount(logs, account, i)
              /\ ChainChecks(logs, account, i,
                             DepositFor(logs, deposit_precommitment(account, i)))
=============================================================================
