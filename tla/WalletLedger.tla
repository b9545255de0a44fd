----------------------------- MODULE WalletLedger -----------------------------
(***************************************************************************)
(* Wallet seen as a ledger: the refinement mapping to NoteLedger, and the  *)
(* pool's books.                                                           *)
(***************************************************************************)
EXTENDS Wallet, FiniteSetsExt

ASSUME AccountsAssumption == IsFiniteSet(Accounts)

\* The value that a set of notes or leaves holds.
ValueOf(S) == SumFunction([x \in S |-> x.value])

\* The unspent leaves of a label in a chain, and the value they hold.  (Leaves
\* differ, since their nullifiers do.)
UnspentUnder(ch, l) ==
    {leaf \in LeavesOf(ch.logs) :
        leaf.label = l /\ nullifier_hash(KeyOf(leaf)) \notin ch.spent}

BalanceOf(ch, l) == ValueOf(UnspentUnder(ch, l))

Entries ==
    [l \in {chain.logs.deposits[n].label : n \in DOMAIN chain.logs.deposits} |->
        [owner   |-> chain.logs.deposits[l].precommitment.nullifier_and_secret.account,
         balance |-> BalanceOf(chain, l)]]

Ledger == INSTANCE NoteLedger WITH
    Owners <- Accounts, Labels <- 1..MaxDeposits, entry <- Entries, approved <- asp

(* Wallets and pool implement the ledger (flow.rs, sync.rs:283-310): each     *)
(* step opens an entry, takes an amount from one approved entry, empties one  *)
(* entry, changes the approved set, or moves no balance.                      *)
RefinesLedger == Ledger!Spec

\* What the events of a log add up to.
Total(log) == SumFunction([n \in DOMAIN log |-> log[n].value])

(* The books balance (flow.rs:118-128, sync.rs:364-368): what was deposited   *)
(* is what was withdrawn, what was taken out by ragequit, and what the        *)
(* accounts that wallets recover still hold.                                  *)
BooksBalance ==
    Total(chain.logs.deposits) =
        Total(chain.logs.withdrawals) + Total(chain.logs.ragequits)
        + SumFunction([a \in Accounts |->
              ValueOf(SpendableNotes(chain.logs, a, gap_limit))])

-----------------------------------------------------------------------------
(* The books without recovery, which a step keeps: what is left is in the   *)
(* leaves that nothing has spent.                                          *)

Unclaimed(ch) ==
    {leaf \in LeavesOf(ch.logs) :
        nullifier_hash(KeyOf(leaf)) \notin ch.spent /\ leaf.value # 0}

PoolBalances(ch) ==
    Total(ch.logs.deposits) =
        Total(ch.logs.withdrawals) + Total(ch.logs.ragequits) + ValueOf(Unclaimed(ch))

BooksInv == PoolBalances(chain)
=============================================================================
