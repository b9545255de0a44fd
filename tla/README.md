# privacy-pools in TLA+

TLA+ modules for the `privacy-pools` repository: a Rust crate with which a wallet
deposits into, recovers its notes from and withdraws from a Privacy Pool, and the
`xtask` that pulls the circuit artifacts the crate proves with. The modules are
checked with TLC on small instances, and every invariant and action property that a
passing run checks is also proved with TLAPS, for every value of the constants.

Line numbers without a path are of `crates/privacy-pools/src/`. Names of
operators are the source's where TLA+ allows it.

## The system

| Component | State | Operations | What makes it correct |
|---|---|---|---|
| Keys and commitments (`account.rs`, `commitment.rs`, `context.rs`, `poseidon.rs`) | none: pure derivation from the mnemonic | deposit and withdrawal keys, precommitment, commitment hash, nullifier hash, label | two notes of an account, or of two accounts, never share a nullifier |
| Chain scan (`sync.rs` `scan_pool`) | the loop's window and head, the logs collected | one `eth_blockNumber`, then one `eth_getLogs` per window | each block of the range is asked for once; the result is the pool's logs |
| Root verification (`sync.rs` `verify_state_root`, `verify_asp_root`) | the position in the ring buffer | up to 65 `eth_call`s, one after the other | true only of a root that was recent during the call, false only of one that was not throughout |
| Note recovery (`sync.rs` `recover_accounts`, `PoolAccount::spendable`) | index, consecutive misses, the walk along one chain of change notes | gap-limit scan over deposit indices, walk over `Withdrawn` events | finds exactly the deposits the gap limit reaches, each with its whole chain; fails exactly when a chain does not check out |
| Wallet flow (`flow.rs`, README "Wallet SDK", `validation/anvil-lifecycle`) | per device: logs, verified roots, a plan | deposit, scan, verify, `build_withdrawal`, submit, ragequit | plans are provable, and rejected only for staleness; no value is lost or counted twice; the seed phrase alone brings everything back |
| Pool contracts and circuits (external; bound in `onchain.rs`) | tree, ring buffer, spent nullifiers, ASP root | deposit, withdraw, ragequit | environment |
| Lean incremental Merkle tree (`tree.rs`, `inputs.rs`) | the levels | insert, `generate_proof`, padding, `compute_root` | the root is that of the leaves, proofs verify, roots bind leaves |
| Artifact pipeline (`xtask/src/pull_circuits.rs`) | files under `artifacts/`, the manifest, a cached tool, a clone | `cargo xtask pull-circuits` | what is called up to date is one consistent build |
| Prover and verifier (`prover.rs`, `verifier.rs`, `circuit.rs`, `lib.rs`) | graph and proving key, verifying key | `from_dir`, `bundled`, `prove`, `verify` | what is proved with a graph and a key of the same constraints verifies under the keys of that key's setup, what is proved with ones of different constraints nowhere |
| Calldata encoding (`proof.rs`, `onchain.rs`) | none | proof structs of the two contract entries | the contract's verdict is the verifier's |
| Witness and key files (`witness.rs`, `vendor/zkey.rs`, `validation/witness-bench`) | none: one call, one buffer | `parse_wtns`, its copy in the benchmark, `read_zkey` | what was written is read back; a file cut short is an error |
| Field and constraint arithmetic (`field.rs`, `vendor/qap.rs`) | none | conversions, reduction | not modelled |
| Validation harnesses (`validation/`, `examples/`) | none | drivers | the order of calls in `anvil-lifecycle` is that of `Wallet` |

How they interact: a wallet calls the SDK synchronously, except for the `Syncer`,
whose methods await requests to the wallet's own provider. Nothing is shared in
memory and the SDK persists nothing. What is concurrent is outside: blocks arrive
and are orphaned between two requests of one scan, leaves arrive between two reads
of the ring buffer, the ASP publishes another set, `pull-circuits` replaces artifacts
between the two reads of `from_dir`, and other devices, possibly of
the same account, transact between any two calls. A wallet may crash at any
moment and start again from its seed phrase. Transactions are mined in any order,
revert or are lost. These interleavings, the arithmetic of windows, gap counts, tree
levels and section lengths, and failures of `pull-circuits` half-way are the hard behaviour;
`PROJECT.json` lists them as hazards, at their lines, with the properties that
cover them.

## Modules

| Module | Models | Extends |
|---|---|---|
| `Notes` | keys, hashes as injective constructors, event logs and lookups in them, `PoolAccount` | |
| `Recovery` | `recover_accounts`, one action per branch of its two loops | `Recovered` |
| `Recovered` | the contract of `recover_accounts`, in closed form, without loops | `Notes` |
| `Pool` | what contracts and circuit accept and emit (external) | `Notes` |
| `Wallet` | devices, mempool, chain and ASP, with recovery as one step through `Recovered` | `Pool`, `Recovered` |
| `NoteLedger` | abstract: one balance per deposit | |
| `WalletLedger` | the refinement mapping from `Wallet` to `NoteLedger`, and the pool's books | `Wallet` |
| `LeanImt` | the tree, proofs, padding, `compute_root` | |
| `RootCheck` | `verify_state_root` against a moving ring buffer | |
| `PoolScan` | `scan_pool` against a growing, reorganising chain; a wallet that re-syncs from its cursor | |
| `ArtifactPipeline` | runs of `pull-circuits` on one disk | |
| `BinFile` | `parse_wtns`, `parse_wtns_decimal` and `read_zkey` on any sequence of cells, in builds with and without overflow checks | |
| `ProofSystem` | a process that loads artifacts, proves, verifies and submits while `pull-circuits` replaces them | |
| `MCRecovery`, `MCWallet`, `MCLeanImt`, `MCPoolScan`, `MCBinFile` | instances for TLC | the module they are named for |
| `RecoveredLemmas` | least and greatest natural numbers, induction over them, and what the operators of `Recovered` return on any logs | `Recovered`, `TLAPS` |
| `RecoveryProofs`, `WalletProofs` | theorems and their proofs | `Recovery` and `WalletLedger`, with `RecoveredLemmas` |
| `StateRootProofs` | theorems and their proofs | `LeanImt` and `RootCheck`, whose variables are disjoint: the tree a wallet rebuilds, and what the pool says of its root |
| `PoolScanProofs`, `ArtifactPipelineProofs`, `BinFileProofs`, `ProofSystemProofs` | theorems and their proofs | the module they are named for, `TLAPS` |

A definition preceded by `\* Mutant:` is not part of the model. It is the
definition after it with a plausible bug; put in that one's place it must violate
the property that `PROJECT.json` names.

### How state and actions correspond to the code

**Notes.** Poseidon and keccak are free constructors: a hash is the record of its
inputs. A nullifier and a secret are derived from the same arguments, so one key
`[account, base, index]` stands for both; `base` is 0 for keys under the scope and
the label for keys under a label. Amounts are reduced modulo `FieldOrder` where
the code goes through `u256_to_field`, and only there. The maps that
`recover_accounts` builds keep the last event of a key: `LastOf`.

**Recovery.** `index`, `misses`, `accounts` are the outer loop's variables and
`dep`, `deposit`, `children`, `current`, `current_value`, `child_index` the inner
one's. `Miss` and `Hit` are the two outcomes of the lookup at 347-353, `WalkOn`,
`WalkFails` and `WalkEnds` those of the walk at 363-391, `Finish` the exit of the
`while`. `logs` may be any logs, consistent or not.

**Recovered.** What the loops compute, without the loops: the k-th key of a deposit's
chain (`ChainKey`), how many of them are spent (`ChainLength`), what is left after k
withdrawals (`ValueAfter`), whether each withdrawal announced the note the keys derive
(`ChainChecks`), and which indices the gap limit reaches (`Reached`). A chain can be one
longer than there are withdrawals: under a label equal to the scope the first change
note has the deposit's own key, and one withdrawal is met twice. No label of the pool is
its scope, but `recover_accounts` reads any logs.

**Wallet.** A device goes `idle -> scanned -> rooted -> fetched -> verified ->
planned` as the README's "Wallet SDK" section and `anvil-lifecycle` do: `Scan` is
`scan_pool` and `recover_accounts`, `VerifyStateRoot` and `VerifyAspRoot` the two
root checks, `BuildWithdrawal` all of `build_withdrawal` with its checks
(`WithdrawalChecks`) and what it assembles (`PlanFor`). Each stage uses what the
device learned earlier, stale or not. `Deposit` and `Ragequit` start from a scan.
The chain mines or drops any transaction in `pending`; `Crash` forgets everything
but the account.

**PoolScan.** `start`, `head` and `logs` are `scan_pool`'s locals. `GetBlockNumber`
and `GetLogs` are one request each, answered by a node that may be `MaxLag` blocks
behind; `Mine` and `Reorg` happen in between. u64 arithmetic wraps at `WordSize`
(`Wrap`), as it does without overflow checks. `CallRange` is any call over blocks
that exist, `CallResync` and `Merge` a wallet that resumes after `to_block`
(68-69). `Decoded` is the body of the loop over a chunk's events, `Push` that loop, and
`Sorted` the stable sort by leaf index, with which `scan_pool` ends.

**RootCheck.** The pool's n-th root is the number n and 0 the value of a slot that
was never written (and of `Field::ZERO`). `ReadCurrent` and each `ReadSlot` are
one `eth_call`; `NewRoot` may happen between any two.

**LeanImt.** `nodes` is the vector of levels; a leaf is a 1-tuple, a hash a pair,
zero the empty tuple. `insert`'s loop over the levels is the recursive function
`PathNodes`; the loops of `generate_proof` (`LevelsMet`, then `compressed_index`) and
`compute_root` are written the same way. `At(index, level)` is `index >> level`. What
all this is compared with is `MerkleRoot`: `Row` builds the whole tree from all leaves at
once, level by level, and `MCLeanImt` compares that in turn with a root that knows no
levels (`RootsAgree`).

**ArtifactPipeline.** A file's content is its provenance: the commit, for keys; the
commit and the `build-circuit` release, for graphs. Each action is one step of
`run()` that touches the disk; `Stop` is that step failing, or the process being
killed in it, and may leave what the step writes torn. The history variables
`asked`, `custom` and `silent` record what the code does not.

**BinFile.** `bytes` is the file, in cells: where the code reads a number, a point or a
coefficient's value of several bytes, the model reads one cell; an element of a
witness takes the `n8` cells the file says. `left`, `off` and `sections` are the walk
over the section headers; an action is one turn of that loop, one section of the key
read, or an outcome: a value, `err`, or a panic (`SectionOverflows`, `HeaderOutside`,
`WitnessOutside`, `MagicNotText`, `SectionMissing`, `CoeffsPanic`). Additions wrap at
`WordSize` or, with `overflow_checks`, panic. The numbers that the code reads and then
ignores (the version, the prime, the count of elements) are not compared by the model
either. The numbers of points that `read_zkey` asks for are cut to 32 bits, `CountSize`
(`AsCount`).
The files that other programs write are constants, `WitnessFiles` and `KeyFiles`: records of
a file's cells, of the sections in it, and of what was written. What their formats are is
assumed (`LaidOut`, `IsWitness`, `IsKey`), and TLC evaluates these assumptions on the files
that `MCBinFile`'s encoder makes from elements and constraint systems.

**ProofSystem.** A file's content is the build it comes from, 1 or 2, or `Torn`; `change`
says what the second build changed: nothing, the setup, or the constraints, with a
variable more or a public signal less. `ReadGraph` and `ReadZkey` are the two reads of
`from_dir`, with `Pull` possible between them; the graph is parsed only by `Prove`. A
witness is the sequence of its signals, each marked with the constraints and the
statement it was computed for, so that `public_signals` and `n_vars` are the code's
slice and sum over `matrices`. Groth16 is external: a proof is accepted under the keys
of the setup it was made with, for the signals it binds, if its assignment satisfies
the key's constraints. `Submit` is `withdraw_proof` or `ragequit_proof` and the contract,
deployed with build 1.

## Runs

All bounds are constants of the configurations.

| Run | Bounds | States | Shows |
|---|---|---|---|
| `recovery` | gap limit 2; deposits at any subset of indices 0-4, an index used twice, another account's deposit, two deposits under one label, one labelled with the scope; every sequence of up to 3 of 9 withdrawal events, right and wrong | 404,440 | recovery returns what `Recovered` says, or fails when it says so (`OutcomeIsContract`), finds every reachable deposit, walks every chain to its end, and always returns |
| `wallet` | two devices of one account, 2 deposits of 2, withdrawals of 1 or 2, 2 mined withdrawals, 1 transaction in flight, 1 ASP update, ring of 2 | 284,450 | plans are provable, and rejected, from the device or from the mempool, only for staleness; the books balance, nullifiers are distinct; recovery finds exactly what the pool owes, the planned change note included, and recovered accounts only grow; wallets and pool implement `NoteLedger` |
| `lean_imt` | every tree of up to 9 leaves over two leaves and zero | 29,524 | root and levels, proofs, index and depth, padding and binding, against the tree built level by level |
| `root_check` | ring of 4, 10 roots, targets 0, 1, 2, 3, 5, 9, 12 | 5,238 | both answers are right; the call returns |
| `pool_scan` | 4 blocks, 4 transactions of all kinds, chunks of 1 and 3, 1 reorganisation, 2 merged re-syncs | 661,142 | every block read once; scans and re-syncs exact; the scan ends |
| `pipeline` | a tag and a branch, 2 releases, 1 push, 3 runs that rebuild | 3.9 million | "up to date" is one build; a rebuild is fresh |
| `bin_file` | words of 256, counts below 64; witnesses of up to 3 elements of 2 cells, keys of 2 circuits with sections in 2 orders, every beginning of them, keys with a wrong header; after the magic and 0-3 sections, every tail of up to 5 cells with 6 values | 905,163 | what was written is read back; what was cut short is an error, or complete as far as it is read |
| `proof_system` | 2 builds, 5 kinds of change, 2 circuits with 2 private signals | 1,035,756 | verdicts of both verifiers and of the contract are right for every mix of files |
| `scan_roots`, `scan_word`, `parse_panics`, `pipeline_tool` | smaller instances; `parse_panics` that of `bin_file` | | violations, below |

Why the bounds are enough. A gap limit of 2 with five indices has gaps shorter
than, equal to and longer than the limit, before and between deposits. Three
withdrawals reach a chain of two change notes and one event that does not fit. A
second device is what any number of others are to the first; two withdrawals
exhaust a deposit of 2 and let one device's plan be overtaken by another's; one
transaction in flight is enough for that, since the plan waits in the device. A ring
of 2 is overrun by three leaves. Nine leaves go through the growth from 8 to 9 and
every shape of a path below. Ten roots go round a ring of 4 twice. Chunks of 1 and
3 in ranges of up to 4 blocks give one window, several, and a short last one. Three
`pull-circuits` runs are one that completes, one that is interrupted, and one that
finds what those left. Five cells of a tail are two section headers and a body, with
lengths that are short, exact, too long, and at both sides of the word's end. The
proof system has no counters: two builds are every way in which two files can differ.
`wallet` uses the symmetry of the two devices, which nothing distinguishes, and which its
action properties and the (safety only) refinement of `NoteLedger` do not mention.
Several accounts on one pool are out of its size: that they do not interfere is proved
(`OthersAreUnaffected`), as everything else about `Wallet` is for any accounts.

Deadlock is checked except where the system really stops: `LeanImt` at its size
bound; `RootCheck` when the call has returned and no more roots come;
`ArtifactPipeline` when its runs and pushes are used up and nothing is current;
`BinFile` when the call has returned.

### Fairness

`Recovery` has weak fairness of `Next`: a function that was called runs. `RootCheck`
and `PoolScan` have weak fairness of `Proceed`, the call's own steps without its
failures: an awaited future is polled until it is ready, a provider answers, and no
failure is assumed to come to the rescue. Nothing is assumed of the chain. `Wallet`,
`LeanImt`, `ArtifactPipeline`, `BinFile` and `ProofSystem` state safety only and have no
fairness: a user may stop at any time.

## Findings

- `scan_roots`: a root check covers the leaves only. A scan answered by a node that
  is one block behind can lack a `Ragequit` event (which inserts no leaf) and still
  verify, so recovery reports a spent account as spendable. The module doc calls
  untrusted logs safe.
- `scan_word`: `start + chunk_size - 1` is computed before the cut at the head; for
  the largest `chunk_size` it wraps to a block below `from_block`.
- `pipeline_tool`: a `build-circuit` cached by an earlier run is used after
  `WITNESSCALC_TAG` was bumped, `--force` or not, and the manifest names the new
  release.
- `parse_panics`: `parse_wtns` adds a section's length to a position before it compares
  (witness.rs:68). A length near the end of the word panics in the addition or, where
  that wraps, in a later slice, although `tests/robustness.rs` says that the parsers "must
  return `Err` on bad input, never panic". `PanicsOnlyOnOverflow` delimits this: it is
  proved that nothing but the overflow makes the parser panic, so a checked addition is
  enough. It is not a property of a run, since it would pass where the code's own promise
  fails.

Seen while modelling, without a run:

- `verify_state_root(Field::ZERO)` is true while a slot of the ring was never written
  (sync.rs:301), although sync.rs:280 says that it is asked of "the pool's recent on-chain
  state roots". `TrueIsSound` says of zero that this is the only case: with a full ring it
  is never taken for a root. Zero is asked about only if a caller does.
- `scan_pool`'s `to_block`, "a cursor for incremental re-sync" (sync.rs:68), is the head
  that the node named, whether or not a block was scanned (sync.rs:166). A node behind the
  wallet's cursor moves it back, and the next re-sync merges events a second time.
  `ResyncExact` is therefore stated of nodes that keep up.
- The benchmark's copy of the parser lacks the check of the header's length and reads
  past a header section that ends the file (witness-bench `main.rs:232`).
- `from_dir` reads its two files one after the other (lib.rs:164); a typed prover does
  not check that they are of its circuit or of one build, and `prove` returns `Ok`
  whether or not the witness satisfies the key's constraints. `VerdictsRight` is what
  then still holds. `Error::VerificationFailed` is never constructed.
- `named_public_signals` labels as many signals as there are names (lib.rs:132).
- `LeanImt::default()` has no level, so `insert` fails on it and `depth` underflows
  (tree.rs:82, 109). `MerkleProof::depth` is the number of siblings met, not "the tree
  depth" of its comment (tree.rs:70); `IndexAndDepthBind` fails for the latter.
- A `build-circuit` that reports success without writing leaves an earlier run's graph
  to be recorded as the new one (pull_circuits.rs:373).

## Proofs

All theorems are for arbitrary constants, under the modules' named assumptions. The invariants that strengthen the properties are in the components' modules, and TLC
checked each of them before it was proved.

| Theorem | States | Argument |
|---|---|---|
| `RecoveryTypeCorrect` | `[]TypeOK` of `Recovery` | inductive |
| `RecoveryFindsEveryDeposit` | `[]EveryDepositFound` | `ScanInv`: `misses` is the length of the run of empty indices right below `index`, every deposit below `index` is in the result or being walked, and everything in the result lies within the gap limit. The property alone says nothing before `pc = "done"` and is not inductive. |
| `RecoveredChainsAreComplete` | `[]ChainsComplete` | `WalkInv`: the chain found so far is linked and `current` is its end |
| `RecoveryImplementsContract` | `[]OutcomeIsContract` | `ContractInv`: during the walk (`OnChain`) the locals are what `Recovered` says of the chain's first `child_index` notes, every account in the result is the contract's, and the chain an error was returned for does not check out. With `ScanInv` the result is the contract's set. |
| `RootCheckTypeCorrect`, `VerifiedRootWasRecent` | `[]TypeOK`, `[]TrueIsSound` of `RootCheck` | `RingInv`: the ring holds exactly the recent roots, each in the slot counted back from the head |
| `RejectedRootWasNotRecent` | `[]FalseIsSound` | `RingInv` and `WalkInv`: a root that stayed recent keeps its slot, and that slot is not behind the walk |
| `TreeIsThatOfItsLeaves` | `[]TreeInv` of `LeanImt` | inductive: every level is the `Row` of that height over the leaves. A new leaf changes in each row only the node on its path, which is what `PathNodes` computes; the row that had one node gets a second one exactly when `ceil_log2` grows. |
| `RootIsThatOfItsLeaves` | `[]RootIsMerkleRoot` | from `TreeInv`: row k has one node for each position that a leaf has in it (`RowShape`), so the row at the depth is the root alone |
| `GeneratedProofsVerify` | `[]ProofsVerify` | from `TreeInv`, climbing: after the levels below k, the node is the one on the leaf's path in row k. `ProofHolds` says which sibling and which bit belong to the level (`below` counts those met below it); no node over nonzero leaves is zero. |
| `IndexAndDepthNameOneLeaf` | `[]IndexAndDepthBind` | downwards from the root: while two paths agree and as many siblings are left, the bit at the level, if it is met, says the same of both |
| `PaddedProofsProveOneLeaf` | `[]PaddedProofsBind` | a zero at the end passes the node through; a hash determines both its inputs |
| `RootBindsTheLeaves` | `[]RootBindsLeaves` | `NoTaller`: a node's chain of left children is as long as its level if it has a right neighbour, and never longer, and a leaf is no hash. So equal roots have equal depth, and a row determines how long the row below is, and what is in it. |
| `ScanReadsEveryBlockOnce` | `[]BlocksReadOnce` of `PoolScan`, assuming `NoOverflow` | `ReadSoFar`: the blocks from `from_block` to before `start` were read once, the others never; `NoOverflow` (no chunk of 0, no window that reaches the end of the word) is what `scan_word` shows to be needed |
| `ScanTypes` | `[]TypeOK` of `PoolScan`, assuming `MaxBlocks < WordSize` | inductive; a chain as long as the word would wrap the cursor |
| `ScansAreExact`, `ResyncsAreExact` | `[]ScanExact`, `[]ResyncExact`, assuming `NoOverflow` | `ExactSoFar`: while nothing was orphaned and no node lags, the chain's leaves are numbered in order, a call's range lies in the chain, and `logs` is what one pass over the blocks read so far decodes to. Decoding block after block is decoding the whole; numbered leaves are in the order a sort by index gives them, so sorting a scan, and sorting again after a merge, changes nothing. |
| `PipelineTypeCorrect`, `UpToDateArtifactsAreOneBuild`, `StagedArtifactsAreFresh` | `[]TypeOK`, `[]UpToDateIsOneBuild`, `[]StagedIsFresh` of `ArtifactPipeline` | `ManifestInv`: a complete manifest records one build of its ref; `RunInv`: the clone is of the ref and no older than the run, finished circuits are built from it and lie on disk as recorded. Current means that disk and manifest agree, so the disk holds one build. |
| `BinFileTypeCorrect`, `OverflowIsTheOnlyPanic` | `[]TypeOK`, `[]PanicsOnlyOnOverflow` of `BinFile` | `SectionsKept`: a section that was kept lies in the file or its end leaves the machine word. A panic can come long after the section that causes it was walked, so the property alone is not inductive. |
| `TornFilesAreNotMistaken`, `WrittenFilesAreReadBack` | `[]TornFileNotMistaken`, `[]WrittenIsReadBack` of `BinFile` | `WrittenInv`: on a prefix of a written file the walk is always where one of its sections ends, has kept exactly the sections before, and finds in each header what the file says. An error means that the prefix is not the whole; what is read of a section that lies in the prefix is the file's, and from all coefficients the last row less the public inputs is the number of constraints. |
| `ProofSystemTypeCorrect`, `VerdictsAreRight`, `ChainAgreesWithVerifier`, `ProverProvesWhatMatches` | `[]TypeOK`, `[]VerdictsRight`, `[]ChainAgrees`, `[]ProvesWhatMatches` of `ProofSystem` | `ProofInv`: a proof carries exactly the signals it binds, as many as the keys of its setup take; and keys of one setup are of one circuit and take equally many (`SetupDetermines`) |
| `WalletInvariant`, `WalletTypes` | `[]WalletInv`, `[]TypeOK` of `Wallet` | `WalletInv`, below |
| `NullifiersAreDistinct` | `[]NullifiersDistinct` | a leaf's key determines the note before it in its chain, and that note is spent once |
| `PlansAreProvable`, `OnlyStalenessIsRejected` | `[]PlansProvable`, `[]OnlyStalenessRejects` | a plan's note, siblings and root are of its device's view, whatever the chain did since; a view's root is that of a beginning of the chain's leaves (`StartsWith` in `PlanOK`), so the pool knows it until the ring has gone round |
| `RecoveryIsSound` | `[]RecoverySound` | in logs that satisfy `HistoryOK`, the chain of a deposit is found by following its keys, the withdrawals on it check out, and its last note is the only one of its label that nothing has spent |
| `ChangeNoteIsRecovered`, `RecoveryIsMonotone`, `OthersAreUnaffected` | the three action properties of `Wallet` | a mined transaction appends one event to the logs: it lengthens the chain of its own note by one, marks a label as ragequit or reaches one index more, and leaves every other chain as it was |
| `WalletRefinesLedger` | `RefinesLedger`: `Wallet` implements `NoteLedger` | a mined deposit maps to `Open`, a withdrawal to `Withdraw` of its label's entry, a ragequit to `Exit`, `PublishAsp` to a change of the approved set, and every other step to a stutter; a balance is the value of the leaves of its label that nothing has spent, of which there is at most one |
| `BooksAlwaysBalance` | `[]BooksBalance` of `WalletLedger` | `BooksInv`: deposits less withdrawals and ragequits are the sum of the leaves nothing has spent (`Unclaimed`), which each mined transaction keeps; these leaves are the spendable notes of all accounts, by `RecoveryIsSound` and because each has one owner |

`WalletInv` is what makes the properties of `Wallet` inductive. None of them is, alone:
that two leaves have two nullifiers depends on what a plan in flight may still add, and
what a plan may add on logs its device read long ago. Its parts are:

- `HistoryOK` of the chain's logs **and of every device's view**: each deposit has its
  own key under the scope, at an index the gap limit reaches, and its own label; each
  withdrawal turns a leaf into the next note of its chain (`Previous`), with what is left
  of its value, and no two spend one note; every leaf is a deposit's or a withdrawal's, and
  no two have one key; a ragequit takes a leaf no withdrawal has spent.
- The pool's spent set is `SpentIn` of the logs.
- `DevicesOK`: the chain continues every view, and a plan spends an unspent leaf of its
  view into the next note of its chain, with the root of a beginning of the tree.
- `PendingOK`: the same of transactions in flight, with deposits still within the
  gap limit; the ASP approves only labels of deposits.

The crucial case is a withdrawal that is mined: its change note's key may not be in the
tree yet. If it were, the withdrawal that put it there would have spent the
note before it, which is this plan's own, and the pool would refuse the plan.

`RecoveredLemmas` holds facts that the proofs of `Recovery` and `Wallet` share: least and
greatest elements and induction over naturals (as the set of those for which a formula
holds, since the library's induction rules take an operator as parameter), lookups in
logs, and what `ChainLength` and `ValueAfter` are. The functions defined by recursion on
a sequence's length (`Push`, `ValueAfter`), and those of `LeanImt`, are reasoned about in
the same way, from their defining equations, each of which is a lemma (`RowDef`,
`HashingDef` ...) that shows that a function with these equations exists.

The assumptions are the modules' own, on the constants: `Accounts` is finite for the
books (a sum over them is taken), amounts are positive, and `FieldOrder` exceeds every
amount. `ProofSystem` assumes nothing of Groth16 beyond the definition of `Verdict`.

Only model-checked are the liveness properties (`Terminates` of `Recovery` and `PoolScan`,
`Returns` of `RootCheck`), which TLAPS does not prove, and that the reference definitions
agree with others: `RootsAgree` of `MCLeanImt`, and the encoder of `MCBinFile` with the
formats that `BinFile` assumes.

## Not modelled

Groth16 and the pairing, the field and the QAP reduction (numbers out of TLC's reach,
without state); the decimal and hexadecimal conversions of `field.rs`; ABI encoding of
calldata (stateless, compared with the reference implementations by `validation/`); the
mnemonic's key derivation (an account is a model value); a withdrawal's destination,
fee and context (no property depends on them); `current_tree_depth` and
`latest_asp_root` beyond the comparison with the ASP's root (single reads); two
`pull-circuits` runs at the same time; words narrower than a file's 64-bit lengths
(32-bit targets, where the cast itself truncates); memory that a huge count in a file
would claim; two error paths that no call of the modelled flow can take: `generate_proof`
of an index outside the tree (tree.rs:152), and more siblings than the circuit has room for
in `build_withdrawal` (flow.rs:151, 32 levels); the timing loops and printing of `validation/` and `examples/`.

## Plan

Done, in this order, the most important behaviour first: `Notes`, `Recovery` with
`Recovered` and its proofs; `Pool`, `Wallet`, `NoteLedger`, `WalletLedger`;
`LeanImt`; `RootCheck` and `PoolScan` with their proofs; `ArtifactPipeline` with its
proofs; `BinFile` and `ProofSystem` with theirs; the contract of recovery, the proofs
about `Wallet` and its refinement of `NoteLedger`; exact scans.

Then the proofs about `LeanImt` (the shape of the levels, that proofs verify and bind, that
the root binds all leaves) and those about files written whole or in part.

What could follow: the hazards without a property (a deposit whose announced commitment is
not the derived one, a tree made by `Default`, the benchmark's header check, signals beyond
the names), each of which the code or its callers would have to settle first; and the
conversions of `field.rs`, if they come to do more than convert.
