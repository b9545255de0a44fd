-------------------------------- MODULE Wallet --------------------------------
(***************************************************************************)
(* Wallets built on the SDK, against the pool.  Each device runs the       *)
(* sequence of SDK calls that the README's "Wallet SDK" section and the    *)
(* anvil-lifecycle harness run: scan, recover, check the state root, fetch  *)
(* and check the ASP set, build a withdrawal, submit it; and deposits and  *)
(* ragequits.  Between two calls anything may happen: other devices (also   *)
(* of the same account) transact, the ASP publishes another set, submitted  *)
(* transactions are mined in any order, rejected or lost, and a device     *)
(* may crash and restart from its seed phrase alone.                       *)
(***************************************************************************)
EXTENDS Pool, Recovered, FiniteSets

CONSTANTS
    Devices,
    accountOf,        \* the account of each device: devices may share one
    gap_limit,        \* the gap limit passed to recover_accounts
    DepositAmounts,   \* amounts deposited
    WithdrawAmounts,  \* amounts withdrawn
    MaxDeposits,      \* bound: accepted deposits
    MaxWithdrawals,   \* bound: accepted withdrawals
    MaxAspUpdates,    \* bound: sets the ASP publishes
    MaxPending        \* bound: transactions in flight

ASSUME DevicesAssumption == accountOf \in [Devices -> Accounts]
ASSUME WalletGapLimitAssumption == gap_limit \in Nat \ {0}
ASSUME AmountsAssumption ==
    \A v \in DepositAmounts \cup WithdrawAmounts :
        v \in Nat /\ 0 < v /\ v < FieldOrder
ASSUME BoundsAssumption ==
    {MaxDeposits, MaxWithdrawals, MaxAspUpdates, MaxPending} \subseteq Nat

VARIABLES
    chain,       \* the pool: its logs and spent nullifiers
    asp,         \* the label set under the Entrypoint's latest root
    aspUpdates,  \* how many sets were published
    pending,     \* submitted transactions that are neither mined nor lost
    stage,       \* per device: the SDK call that returned last
    view,        \* per device: the logs of its last scan
    fetched,     \* per device: the label set it fetched
    plan         \* per device: the withdrawal it built

deviceVars == <<stage, view, fetched, plan>>
vars == <<chain, asp, aspUpdates, pending, deviceVars>>

Stages == {"idle", "scanned", "rooted", "fetched", "verified", "planned"}

NoNote == Note(0, Scope, deposit_secrets(CHOOSE a \in Accounts : TRUE, 0))
NoPlan == [withdrawn_value |-> 0, state_root |-> <<>>, asp_root |-> {},
           existing |-> NoNote, new_key |-> NoNote.key, new_note |-> NoNote]

Init ==
    /\ chain = Genesis
    /\ asp = {}
    /\ aspUpdates = 0
    /\ pending = {}
    /\ stage = [d \in Devices |-> "idle"]
    /\ view = [d \in Devices |-> EmptyLogs]
    /\ fetched = [d \in Devices |-> {}]
    /\ plan = [d \in Devices |-> NoPlan]

-----------------------------------------------------------------------------
(* A device's calls into the SDK.                                          *)

Accounts_(d) == RecoveredAccounts(view[d], accountOf[d], gap_limit)

Submit(tx) ==
    /\ Cardinality(pending) < MaxPending
    /\ pending' = pending \cup {tx}

\* Device d is done with what it was doing: the next call is a scan, and no
\* earlier result is used again.
BackToIdle(d) ==
    /\ stage' = [stage EXCEPT ![d] = "idle"]
    /\ view' = [view EXCEPT ![d] = EmptyLogs]
    /\ fetched' = [fetched EXCEPT ![d] = {}]
    /\ plan' = [plan EXCEPT ![d] = NoPlan]

\* scan_pool and recover_accounts: the device learns the logs as they are.  It
\* goes on only if recovery returns Ok.
Scan(d) ==
    /\ stage[d] = "idle"
    /\ RecoverySucceeds(chain.logs, accountOf[d], gap_limit)
    /\ view' = [view EXCEPT ![d] = chain.logs]
    /\ stage' = [stage EXCEPT ![d] = "scanned"]
    /\ UNCHANGED <<chain, asp, aspUpdates, pending, fetched, plan>>

\* verify_state_root on the root of the tree rebuilt from the scanned leaves.
VerifyStateRoot(d) ==
    /\ stage[d] = "scanned"
    /\ \/ /\ IsKnownRoot(chain.logs, view[d].leaves)
          /\ stage' = [stage EXCEPT ![d] = "rooted"]
          /\ UNCHANGED <<view, fetched, plan>>
       \/ /\ ~IsKnownRoot(chain.logs, view[d].leaves)
          /\ BackToIdle(d)
    /\ UNCHANGED <<chain, asp, aspUpdates, pending>>

\* The wallet fetches the label set the ASP published last ...
FetchAsp(d) ==
    /\ stage[d] = "rooted"
    /\ fetched' = [fetched EXCEPT ![d] = asp]
    /\ stage' = [stage EXCEPT ![d] = "fetched"]
    /\ UNCHANGED <<chain, asp, aspUpdates, pending, view, plan>>

\* ... and checks its root against latestRoot: verify_asp_root.
VerifyAspRoot(d) ==
    /\ stage[d] = "fetched"
    /\ \/ /\ fetched[d] = asp
          /\ stage' = [stage EXCEPT ![d] = "verified"]
          /\ UNCHANGED <<view, fetched, plan>>
       \/ /\ fetched[d] # asp
          /\ BackToIdle(d)
    /\ UNCHANGED <<chain, asp, aspUpdates, pending>>

\* Mutant: counts from one.
child_index_from_one(acct) == Len(acct.children) + 1

\* The index of the next change note, as the README's wallet computes it.
child_index(acct) == Len(acct.children)

\* Mutants: build_withdrawal without its balance check, and without the one
\* that the label is the ASP proof's leaf.
ChecksWithoutBalance(d, note, withdrawn) ==
    /\ \E n \in DOMAIN view[d].leaves : view[d].leaves[n] = commitment_hash(note)
    /\ note.label \in fetched[d]

ChecksWithoutLabel(d, note, withdrawn) ==
    /\ \E n \in DOMAIN view[d].leaves : view[d].leaves[n] = commitment_hash(note)
    /\ withdrawn <= note.value

\* The note is the leaf of the state proof, its label that of the ASP proof,
\* and it holds the amount.
WithdrawalChecks(d, note, withdrawn) ==
    /\ \E n \in DOMAIN view[d].leaves : view[d].leaves[n] = commitment_hash(note)
    /\ note.label \in fetched[d]
    /\ withdrawn <= note.value

\* The WithdrawalPlan: the circuit's inputs, and the change note.
PlanFor(d, note, index, withdrawn) ==
    LET new_key == withdrawal_secrets(accountOf[d], note.label, index)
    IN  [withdrawn_value |-> withdrawn,
         state_root      |-> view[d].leaves,
         asp_root        |-> fetched[d],
         existing        |-> note,
         new_key         |-> new_key,
         new_note        |-> Note(note.value - withdrawn, note.label, new_key)]

\* build_withdrawal on the spendable note of a recovered account, with proofs
\* from the scanned leaves and the fetched label set.  No tree here is so large
\* that a proof has more siblings than the circuit has room for.
BuildWithdrawal(d, acct, withdrawn) ==
    /\ stage[d] = "verified"
    /\ IsSpendable(acct)
    /\ WithdrawalChecks(d, CurrentNote(acct), withdrawn)
    /\ plan' = [plan EXCEPT ![d] =
                   PlanFor(d, CurrentNote(acct), child_index(acct), withdrawn)]
    /\ stage' = [stage EXCEPT ![d] = "planned"]
    /\ UNCHANGED <<chain, asp, aspUpdates, pending, view, fetched>>

\* The proof of the plan is submitted (relayed or direct).
SubmitWithdrawal(d) ==
    /\ stage[d] = "planned"
    /\ Submit([kind |-> "withdraw", plan |-> plan[d]])
    /\ BackToIdle(d)
    /\ UNCHANGED <<chain, asp, aspUpdates>>

\* The last deposit index the device knows it used.
LastIndex(d) ==
    LET used == {acct.deposit_index : acct \in Accounts_(d)}
    IN  IF used = {} THEN -1 ELSE CHOOSE i \in used : \A j \in used : j <= i

\* native_deposit or erc20_deposit.  The caller picks the index: any index past
\* the last it recovered, with fewer than gap_limit unused ones in between.
Deposit(d, value, index) ==
    /\ stage[d] = "scanned"
    /\ index > LastIndex(d)
    /\ index <= LastIndex(d) + gap_limit
    /\ Submit([kind |-> "deposit", value |-> value,
               pre |-> deposit_precommitment(accountOf[d], index)])
    /\ BackToIdle(d)
    /\ UNCHANGED <<chain, asp, aspUpdates>>

\* ragequit_inputs for a spendable note, proved and submitted.
Ragequit(d, acct) ==
    /\ stage[d] = "scanned"
    /\ IsSpendable(acct)
    /\ Submit([kind |-> "ragequit", note |-> CurrentNote(acct)])
    /\ BackToIdle(d)
    /\ UNCHANGED <<chain, asp, aspUpdates>>

\* The device loses all it held in memory; its transactions stay in flight.
Crash(d) ==
    /\ stage[d] # "idle"
    /\ BackToIdle(d)
    /\ UNCHANGED <<chain, asp, aspUpdates, pending>>

DeviceStep(d) ==
    \/ Scan(d)
    \/ VerifyStateRoot(d)
    \/ FetchAsp(d)
    \/ VerifyAspRoot(d)
    \/ \E acct \in Accounts_(d), withdrawn \in WithdrawAmounts : BuildWithdrawal(d, acct, withdrawn)
    \/ SubmitWithdrawal(d)
    \/ \E value \in DepositAmounts :
          \E index \in (LastIndex(d) + 1)..(LastIndex(d) + gap_limit) :
              Deposit(d, value, index)
    \/ \E acct \in Accounts_(d) : Ragequit(d, acct)
    \/ Crash(d)

-----------------------------------------------------------------------------
(* The chain.                                                              *)

Accepts(tx) ==
    CASE tx.kind = "deposit"  -> AcceptsDeposit(chain, tx.pre)
      [] tx.kind = "withdraw" -> AcceptsWithdrawal(chain, asp, tx.plan)
      [] tx.kind = "ragequit" -> AcceptsRagequit(chain, tx.note)

MineDeposit(tx) ==
    /\ tx.kind = "deposit"
    /\ Accepts(tx)
    /\ Len(chain.logs.deposits) < MaxDeposits
    /\ chain' = AfterDeposit(chain, tx.pre, tx.value)
    /\ pending' = pending \ {tx}
    /\ UNCHANGED <<asp, aspUpdates, deviceVars>>

MineWithdrawal(tx) ==
    /\ tx.kind = "withdraw"
    /\ Accepts(tx)
    /\ Len(chain.logs.withdrawals) < MaxWithdrawals
    /\ chain' = AfterWithdrawal(chain, tx.plan)
    /\ pending' = pending \ {tx}
    /\ UNCHANGED <<asp, aspUpdates, deviceVars>>

MineRagequit(tx) ==
    /\ tx.kind = "ragequit"
    /\ Accepts(tx)
    /\ chain' = AfterRagequit(chain, tx.note)
    /\ pending' = pending \ {tx}
    /\ UNCHANGED <<asp, aspUpdates, deviceVars>>

\* A transaction reverts, or is lost before it is mined.
Drop(tx) ==
    /\ pending' = pending \ {tx}
    /\ UNCHANGED <<chain, asp, aspUpdates, deviceVars>>

\* The ASP approves or revokes a label and publishes the new set.
PublishAsp(lab) ==
    /\ aspUpdates < MaxAspUpdates
    /\ asp' = IF lab \in asp THEN asp \ {lab} ELSE asp \cup {lab}
    /\ aspUpdates' = aspUpdates + 1
    /\ UNCHANGED <<chain, pending, deviceVars>>

Environment ==
    \/ \E tx \in pending :
          MineDeposit(tx) \/ MineWithdrawal(tx) \/ MineRagequit(tx) \/ Drop(tx)
    \/ \E i \in DOMAIN chain.logs.deposits : PublishAsp(chain.logs.deposits[i].label)

Next == Environment \/ \E d \in Devices : DeviceStep(d)

Spec == Init /\ [][Next]_vars

-----------------------------------------------------------------------------
PoolLogs == [leaves: Seq(CommitmentHashes), deposits: Seq(DepositLogs),
             withdrawals: Seq(WithdrawLogs), ragequits: Seq(RagequitLogs)]

Plans == [withdrawn_value: Nat, state_root: Seq(CommitmentHashes),
          asp_root: SUBSET Nat, existing: Commitments, new_key: Keys,
          new_note: Commitments]

Transactions ==
    [kind: {"deposit"}, value: DepositAmounts, pre: Precommitments]
        \cup [kind: {"withdraw"}, plan: Plans]
        \cup [kind: {"ragequit"}, note: Commitments]

TypeOK ==
    /\ chain \in [logs: PoolLogs, spent: SUBSET NullifierHashes]
    /\ asp \subseteq Nat
    /\ aspUpdates \in 0..MaxAspUpdates
    /\ pending \subseteq Transactions
    /\ stage \in [Devices -> Stages]
    /\ view \in [Devices -> PoolLogs]
    /\ fetched \in [Devices -> SUBSET Nat]
    /\ plan \in [Devices -> Plans]

LeavesOf(logs) == {logs.leaves[n] : n \in DOMAIN logs.leaves}
KeyOf(leaf) == leaf.precommitment.nullifier_and_secret

\* The nullifiers that logs say are spent.
SpentIn(logs) ==
    {logs.withdrawals[m].spent_nullifier : m \in DOMAIN logs.withdrawals}
        \cup {nullifier_hash(KeyOf(logs.ragequits[r].commitment)) :
                r \in DOMAIN logs.ragequits}

\* What the pool still owes account a: its leaves that hold something and whose
\* nullifier is not spent.
Unspent(a) ==
    {leaf \in LeavesOf(chain.logs) :
        /\ KeyOf(leaf).account = a
        /\ nullifier_hash(KeyOf(leaf)) \notin chain.spent
        /\ leaf.value # 0}

(* Recovery from the seed phrase (README "Wallet SDK" step 3, sync.rs:313).   *)
(* Whatever wallets did, crashed in the middle of, raced each other on or    *)
(* lost on the way, recovering an account from the chain succeeds and finds  *)
(* as spendable exactly the notes the pool still owes it.                    *)
RecoverySound ==
    \A a \in Accounts :
        /\ RecoverySucceeds(chain.logs, a, gap_limit)
        /\ {commitment_hash(n) : n \in SpendableNotes(chain.logs, a, gap_limit)}
              = Unspent(a)

(* A plan is assembled from a scan, two verified roots and a recovered       *)
(* account that may each be out of date; the circuit accepts it all the same *)
(* (flow.rs:88-163): the proof never fails for a plan the SDK built.         *)
PlansProvable ==
    \A d \in Devices : stage[d] = "planned" => WithdrawCircuit(plan[d])

\* The ASP's set is the plan's (again), and fewer leaves were inserted since its
\* scan than the ring has slots.
RootsHold(p) ==
    /\ p.asp_root = asp
    /\ Len(chain.logs.leaves) < Len(p.state_root) + ROOT_HISTORY_SIZE

(* Only what happened after its device looked makes a withdrawal revert       *)
(* (sync.rs:283-310, flow.rs:106-120): a plan on a stale scan and a stale     *)
(* ASP set, in a device or in flight, is one the pool accepts until the       *)
(* state root has left the ring, the ASP has published another set, or the   *)
(* note was spent since; other transactions, ragequits and withdrawals of     *)
(* other notes among them, do it no harm.                                  *)
OnlyStalenessRejects ==
    /\ \A d \in Devices :
          /\ stage[d] = "planned" /\ RootsHold(plan[d])
          /\ nullifier_hash(plan[d].existing.key) \notin SpentIn(chain.logs) \ SpentIn(view[d])
          => AcceptsWithdrawal(chain, asp, plan[d])
    /\ \A tx \in pending :
          /\ tx.kind = "withdraw" /\ RootsHold(tx.plan)
          /\ nullifier_hash(tx.plan.existing.key) \notin SpentIn(chain.logs)
          => Accepts(tx)

(* No two leaves of the tree share a nullifier (account.rs:72-90, flow.rs:122): *)
(* spending one note never spends another, though devices of one account     *)
(* derive keys without coordination.                                         *)
NullifiersDistinct ==
    \A m, n \in DOMAIN chain.logs.leaves :
        m # n => KeyOf(chain.logs.leaves[m]) # KeyOf(chain.logs.leaves[n])

(* A plan's change note is the one recovery finds once the plan is mined     *)
(* (flow.rs:84, sync.rs:367-378): new_note needs no backup of its own.       *)
ChangeNoteRecovered ==
    [][\A tx \in pending :
          MineWithdrawal(tx) =>
              \E acct \in RecoveredAccounts(chain'.logs,
                              tx.plan.existing.key.account, gap_limit) :
                  acct.children # <<>> /\ CurrentNote(acct) = tx.plan.new_note]_vars

(* Accounts only grow (sync.rs:313-393): an account recovered once is        *)
(* recovered ever after, with the same deposit and label, and with at least  *)
(* the change notes it had, in the same order.                               *)
RecoveryMonotone ==
    [][\A a \in Accounts :
          \A old \in RecoveredAccounts(chain.logs, a, gap_limit) :
              \E new \in RecoveredAccounts(chain'.logs, a, gap_limit) :
                  /\ new.deposit_index = old.deposit_index
                  /\ new.deposit = old.deposit
                  /\ Len(old.children) <= Len(new.children)
                  /\ \A k \in DOMAIN old.children : new.children[k] = old.children[k]
                  /\ old.ragequit => new.ragequit]_vars

\* The account a transaction belongs to.
OwnerOf(tx) ==
    CASE tx.kind = "deposit"  -> tx.pre.nullifier_and_secret.account
      [] tx.kind = "withdraw" -> tx.plan.existing.key.account
      [] tx.kind = "ragequit" -> tx.note.key.account

(* Accounts do not interfere (account.rs:72-90): whatever is mined for one   *)
(* account, the others recover exactly what they did before.                 *)
OthersUnaffected ==
    [][\A tx \in pending \ pending' : \A a \in Accounts \ {OwnerOf(tx)} :
          RecoveredAccounts(chain'.logs, a, gap_limit)
             = RecoveredAccounts(chain.logs, a, gap_limit)]_vars

-----------------------------------------------------------------------------
(* The inductive strengthening of these invariants: what holds of the logs  *)
(* of the chain holds of every device's view of them, old as it may be.     *)

DepositKey(logs, n) == logs.deposits[n].precommitment.nullifier_and_secret

\* The key that precedes a change note's key in its chain: the deposit's, or
\* the one with the index before.
Previous(logs, key) ==
    IF key.index = 0 THEN DepositKey(logs, key.base) ELSE [key EXCEPT !.index = @ - 1]

DepositsOK(logs) ==
    /\ \A n \in DOMAIN logs.deposits :
          LET dep == logs.deposits[n]
          IN  /\ dep.label = n
              /\ dep.value \in DepositAmounts
              /\ dep.commitment = [value |-> dep.value, label |-> n,
                                   precommitment |-> dep.precommitment]
              /\ dep.commitment \in LeavesOf(logs)
              /\ DepositKey(logs, n).base = Scope
              /\ Reached(logs, DepositKey(logs, n).account, gap_limit,
                         DepositKey(logs, n).index)
    /\ \A m, n \in DOMAIN logs.deposits :
          m # n => DepositKey(logs, m) # DepositKey(logs, n)

\* A withdrawal turns a note into the next one of its chain, ...
WithdrawalOK(logs, w) ==
    LET new == w.new_commitment
    IN  /\ new \in LeavesOf(logs)
        /\ new.label \in DOMAIN logs.deposits
        /\ KeyOf(new).base = new.label
        /\ KeyOf(new).account = DepositKey(logs, new.label).account
        /\ \E old \in LeavesOf(logs) :
              /\ w.spent_nullifier = nullifier_hash(KeyOf(old))
              /\ KeyOf(old) = Previous(logs, KeyOf(new))
              /\ old.label = new.label
              /\ old.value = new.value + w.value

\* ... and no two of them the same note.
WithdrawalsOK(logs) ==
    /\ \A m \in DOMAIN logs.withdrawals : WithdrawalOK(logs, logs.withdrawals[m])
    /\ \A m, n \in DOMAIN logs.withdrawals :
          m # n => logs.withdrawals[m].spent_nullifier # logs.withdrawals[n].spent_nullifier

\* Every leaf is a deposit's or a change note, and no two share a nullifier.
LeavesOK(logs) ==
    /\ \A leaf \in LeavesOf(logs) :
          /\ leaf.value < FieldOrder
          /\ \/ \E n \in DOMAIN logs.deposits : leaf = logs.deposits[n].commitment
             \/ \E m \in DOMAIN logs.withdrawals :
                   leaf = logs.withdrawals[m].new_commitment
    /\ \A m, n \in DOMAIN logs.leaves :
          m # n => KeyOf(logs.leaves[m]) # KeyOf(logs.leaves[n])

\* A ragequit takes a note that no withdrawal has spent.
RagequitsOK(logs) ==
    \A r \in DOMAIN logs.ragequits :
        LET note == logs.ragequits[r].commitment
        IN  /\ note \in LeavesOf(logs)
            /\ logs.ragequits[r].label = note.label
            /\ \A m \in DOMAIN logs.withdrawals :
                  logs.withdrawals[m].spent_nullifier # nullifier_hash(KeyOf(note))

HistoryOK(logs) ==
    DepositsOK(logs) /\ WithdrawalsOK(logs) /\ LeavesOK(logs) /\ RagequitsOK(logs)

\* The log t starts with the log s, and so for all the logs of a pool.
StartsWith(t, s) == Len(s) <= Len(t) /\ \A k \in DOMAIN s : t[k] = s[k]

Continues(later, earlier) ==
    /\ StartsWith(later.leaves, earlier.leaves)
    /\ StartsWith(later.deposits, earlier.deposits)
    /\ StartsWith(later.withdrawals, earlier.withdrawals)
    /\ StartsWith(later.ragequits, earlier.ragequits)

\* A plan spends a note of the tree, as it was, into the next one of its chain.
PlanOK(p, logs) ==
    /\ WithdrawCircuit(p)
    /\ StartsWith(logs.leaves, p.state_root)
    /\ p.withdrawn_value \in WithdrawAmounts
    /\ commitment_hash(p.existing) \in LeavesOf(logs)
    /\ p.existing.label \in DOMAIN logs.deposits
    /\ p.existing.key = Previous(logs, p.new_key)
    /\ p.new_key.base = p.existing.label
    /\ p.new_key.account = DepositKey(logs, p.existing.label).account
    /\ p.new_note = Note(p.existing.value - p.withdrawn_value, p.existing.label, p.new_key)

DevicesOK ==
    \A d \in Devices :
        /\ HistoryOK(view[d])
        /\ Continues(chain.logs, view[d])
        /\ stage[d] = "planned" =>
              /\ PlanOK(plan[d], view[d])
              /\ plan[d].state_root = view[d].leaves
              /\ nullifier_hash(plan[d].existing.key) \notin SpentIn(view[d])

PendingOK ==
    \A tx \in pending :
        /\ tx.kind = "deposit" =>
              LET key == tx.pre.nullifier_and_secret
              IN  key.base = Scope /\ Reached(chain.logs, key.account, gap_limit, key.index)
        /\ tx.kind = "withdraw" => PlanOK(tx.plan, chain.logs)
        /\ tx.kind = "ragequit" => tx.note.value # 0

WalletInv ==
    /\ TypeOK
    /\ HistoryOK(chain.logs)
    /\ chain.spent = SpentIn(chain.logs)
    /\ asp \subseteq DOMAIN chain.logs.deposits
    /\ DevicesOK
    /\ PendingOK
=============================================================================
