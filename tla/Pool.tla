--------------------------------- MODULE Pool ---------------------------------
(***************************************************************************)
(* The deployed contracts and circuits, as the SDK relies on them: which   *)
(* transactions they accept and what an accepted one adds to the logs.     *)
(* They are not part of the repository (crates/privacy-pools/src/onchain.rs *)
(* binds their interface); this module is the environment of Wallet.tla.   *)
(*                                                                         *)
(* A chain is the record of what the pool has emitted and stored.  A state *)
(* root is the sequence of leaves it commits to; LeanImt.tla is about how  *)
(* that root is computed.                                                  *)
(***************************************************************************)
EXTENDS Notes

CONSTANT ROOT_HISTORY_SIZE    \* how many recent state roots the pool accepts

ASSUME RootHistoryAssumption == ROOT_HISTORY_SIZE \in Nat \ {0}

EmptyLogs == [leaves |-> <<>>, deposits |-> <<>>, withdrawals |-> <<>>,
              ragequits |-> <<>>]

\* The logs and the nullifier hashes marked as spent.
Genesis == [logs |-> EmptyLogs, spent |-> {}]

LeafAdded(logs, leaf) == Append(logs.leaves, leaf)

\* One of the last ROOT_HISTORY_SIZE roots.
IsKnownRoot(logs, root) ==
    \E n \in 1..Len(logs.leaves) :
        /\ n > Len(logs.leaves) - ROOT_HISTORY_SIZE
        /\ root = SubSeq(logs.leaves, 1, n)

-----------------------------------------------------------------------------
(* Deposits: each precommitment is used once, labels count up from 1.      *)

AcceptsDeposit(ch, pre) == ~HasDeposit(ch.logs, pre)

AfterDeposit(ch, pre, value) ==
    LET lab  == label(Len(ch.logs.deposits) + 1)
        leaf == [value |-> u256_to_field(value), label |-> lab, precommitment |-> pre]
    IN  [ch EXCEPT !.logs.leaves = LeafAdded(ch.logs, leaf),
                   !.logs.deposits = Append(@, DepositLog(leaf, lab, value, pre))]

-----------------------------------------------------------------------------
(* Withdrawals.                                                            *)

\* The relation the withdraw circuit proves: the existing note is a leaf under
\* the state root and its label one under the ASP root, and the new note holds
\* what is left of it under the same label and another nullifier.
WithdrawCircuit(in) ==
    /\ \E n \in DOMAIN in.state_root : in.state_root[n] = commitment_hash(in.existing)
    /\ in.existing.label \in in.asp_root
    /\ in.withdrawn_value <= in.existing.value
    /\ in.new_key # in.existing.key

NewCommitment(in) ==
    commitment_hash(Note(in.existing.value - in.withdrawn_value, in.existing.label,
                         in.new_key))

AcceptsWithdrawal(ch, latestRoot, in) ==
    /\ WithdrawCircuit(in)
    /\ IsKnownRoot(ch.logs, in.state_root)
    /\ in.asp_root = latestRoot
    /\ nullifier_hash(in.existing.key) \notin ch.spent

AfterWithdrawal(ch, in) ==
    LET nullifier == nullifier_hash(in.existing.key)
    IN  [ch EXCEPT !.logs.leaves = LeafAdded(ch.logs, NewCommitment(in)),
                   !.logs.withdrawals =
                        Append(@, WithdrawLog(in.withdrawn_value, nullifier,
                                              NewCommitment(in))),
                   !.spent = @ \cup {nullifier}]

-----------------------------------------------------------------------------
(* Ragequits: the depositor takes an unspent note of the tree out.         *)

AcceptsRagequit(ch, note) ==
    /\ \E n \in DOMAIN ch.logs.leaves : ch.logs.leaves[n] = commitment_hash(note)
    /\ nullifier_hash(note.key) \notin ch.spent

AfterRagequit(ch, note) ==
    [ch EXCEPT !.logs.ragequits =
                    Append(@, RagequitLog(commitment_hash(note), note.label, note.value)),
               !.spent = @ \cup {nullifier_hash(note.key)}]
=============================================================================
