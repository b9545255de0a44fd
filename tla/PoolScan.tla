-------------------------------- MODULE PoolScan --------------------------------
(***************************************************************************)
(* Syncer::scan_pool (sync.rs) against a chain that grows and reorganises   *)
(* between its requests, and a wallet that re-syncs from the cursor each    *)
(* scan returns.                                                           *)
(*                                                                         *)
(* A block carries at most one transaction of the pool.  u64 arithmetic is  *)
(* that of a release build: it wraps at WordSize.                          *)
(***************************************************************************)
EXTENDS Integers, Sequences, SequencesExt

CONSTANTS
    Txs, KindOf,        \* the pool's transactions, and what each one is
    ChunkSizes,         \* the chunk_sizes a Syncer may be given
    WordSize,           \* values of the machine word (2^64)
    MaxBlocks,          \* bound: length of the chain
    MaxReorgs, MaxLag,  \* bounds: reorganisations; blocks a node may be behind
    MaxMerges,          \* bound: incremental scans merged
    NoBlock             \* to_block = None

Kinds == {"deposit", "withdraw", "ragequit", "other"}

ASSUME KindAssumption == KindOf \in [Txs -> Kinds]
ASSUME WordAssumption == WordSize \in Nat \ {0} /\ MaxBlocks \in 1..WordSize
ASSUME ChunkAssumption == ChunkSizes \subseteq 0..(WordSize - 1)
ASSUME BoundsAssumption == {MaxReorgs, MaxLag, MaxMerges} \subseteq Nat
ASSUME NoBlockAssumption == NoBlock \notin Nat

VARIABLES
    chain,       \* the blocks, each the sequence of its events; block b is chain[b + 1]
    reorgs,      \* reorganisations so far
    chunk_size,  \* of the Syncer
    pc,          \* the call: "idle", "number", "scan", "done", "error"
    from_block,  \* its argument
    start, head, \* the loop's locals
    logs,        \* the PoolLogs being filled
    reads,       \* history: how often each block was part of a request
    resync,      \* the wallet: the call is an incremental scan
    next,        \* the wallet: the block its next incremental scan starts at
    store,       \* the wallet: the logs merged so far
    merges       \* the wallet: how many scans those came from

chainVars == <<chain, reorgs>>
callVars == <<pc, from_block, start, head, logs, reads>>
walletVars == <<next, store, merges>>
vars == <<chainVars, chunk_size, callVars, resync, walletVars>>

-----------------------------------------------------------------------------
(* The chain's events and their decoding.                                  *)

Blocks == 0..(MaxBlocks - 1)

LeafInserted(tx, index) == [event |-> "LeafInserted", tx |-> tx, index |-> index]
Other(event, tx) == [event |-> event, tx |-> tx]

\* With the tree's size before tx; leaves are numbered from 1.
EventsOf(tx, size) ==
    CASE KindOf[tx] = "deposit"  -> <<LeafInserted(tx, size + 1), Other("Deposited", tx)>>
      [] KindOf[tx] = "withdraw" -> <<LeafInserted(tx, size + 1), Other("Withdrawn", tx)>>
      [] KindOf[tx] = "ragequit" -> <<Other("Ragequit", tx)>>
      [] KindOf[tx] = "other"    -> <<Other("RootUpdated", tx)>>

\* What get_logs answers from the blocks of c, for the range first..last.
LogsOf(c, first, last) ==
    FlattenSeq(SubSeq(c, first + 1, IF last < Len(c) THEN last + 1 ELSE Len(c)))

EmptyLogs == [leaves |-> <<>>, deposits |-> <<>>, withdrawals |-> <<>>, ragequits |-> <<>>]

\* Decodes one event into the logs; one with another topic is skipped.
Decoded(l, e) ==
    CASE e.event = "LeafInserted" -> [l EXCEPT !.leaves = Append(@, e)]
      [] e.event = "Deposited"    -> [l EXCEPT !.deposits = Append(@, e)]
      [] e.event = "Withdrawn"    -> [l EXCEPT !.withdrawals = Append(@, e)]
      [] e.event = "Ragequit"     -> [l EXCEPT !.ragequits = Append(@, e)]
      [] OTHER -> l

\* ... and a chunk, event by event.
Push(l, chunk) ==
    LET after[n \in 0..Len(chunk)] ==
            IF n = 0 THEN l ELSE Decoded(after[n - 1], chunk[n])
    IN  after[Len(chunk)]

LeavesOf(events) == Push(EmptyLogs, events).leaves

\* The stable sort by index: element k becomes the Rank(s, k)-th.
Rank(s, k) ==
    Cardinality({j \in DOMAIN s : \/ s[j].index < s[k].index
                                  \/ s[j].index = s[k].index /\ j <= k})

ByIndex(s) == [n \in DOMAIN s |-> s[CHOOSE k \in DOMAIN s : Rank(s, k) = n]]

Sorted(l) == [l EXCEPT !.leaves = ByIndex(@)]

\* PoolLogs::state_leaves and verify_state_root: the leaves in order are those
\* of a root the pool has had.
RootVerifies(l, c) ==
    LET Leaf(e) == e.tx
        leaves(events) == [k \in DOMAIN events |-> Leaf(events[k])]
    IN  /\ l.leaves # <<>>
        /\ IsPrefix(leaves(l.leaves), leaves(LeavesOf(FlattenSeq(c))))

-----------------------------------------------------------------------------
\* Machine words: one wrap is enough for a sum or a difference of two words.
Wrap(x) == IF x < 0 THEN x + WordSize ELSE IF x >= WordSize THEN x - WordSize ELSE x

\* Mutant: the last window is not cut at the head.
WindowEndUncut(s, size, h) == Wrap(Wrap(s + size) - 1)

WindowEnd(s, size, h) ==
    LET last == Wrap(Wrap(s + size) - 1) IN IF last < h THEN last ELSE h

-----------------------------------------------------------------------------
Init ==
    /\ chain = << <<>> >> /\ reorgs = 0
    /\ chunk_size \in ChunkSizes
    /\ pc = "idle" /\ from_block = 0 /\ start = 0 /\ head = 0
    /\ logs = EmptyLogs
    /\ reads = [b \in Blocks |-> 0]
    /\ resync = FALSE /\ next = 0 /\ store = EmptyLogs /\ merges = 0

OnChain(tx) == \E b \in DOMAIN chain : \E k \in DOMAIN chain[b] : chain[b][k].tx = tx

\* A new block, empty or with a transaction.
Mine ==
    /\ Len(chain) < MaxBlocks
    /\ \/ chain' = Append(chain, <<>>)
       \/ \E tx \in Txs :
             /\ ~OnChain(tx)
             /\ chain' = Append(chain, EventsOf(tx, Len(LeavesOf(FlattenSeq(chain)))))
    /\ UNCHANGED <<reorgs, chunk_size, callVars, resync, walletVars>>

\* The last block is orphaned; its transaction may be mined again.
Reorg ==
    /\ reorgs < MaxReorgs
    /\ Len(chain) > 1
    /\ chain' = Front(chain)
    /\ reorgs' = reorgs + 1
    /\ UNCHANGED <<chunk_size, callVars, resync, walletVars>>

-----------------------------------------------------------------------------
Mined == {b \in Blocks : b < Len(chain)}

\* The newest block of the node that answers a request.
NodeHeads == {b \in Mined : b + 1 >= Len(chain) - MaxLag}

\* scan_pool(from, to_block).
Begin(from, to_block) ==
    /\ pc = "idle"
    /\ from_block' = from
    /\ start' = from
    /\ logs' = EmptyLogs
    /\ reads' = [b \in Blocks |-> 0]
    /\ IF to_block = NoBlock
       THEN pc' = "number" /\ UNCHANGED head
       ELSE pc' = "scan" /\ head' = to_block
    /\ UNCHANGED <<chainVars, chunk_size, walletVars>>

\* The wallet scans a range of blocks that exist, ...
CallRange ==
    /\ \E from \in Mined, to \in {NoBlock} \union Mined : Begin(from, to)
    /\ resync' = FALSE

\* ... or whatever is new since its cursor.
CallResync ==
    /\ merges < MaxMerges
    /\ Begin(next, NoBlock)
    /\ resync' = TRUE

GetBlockNumber ==
    /\ pc = "number"
    /\ head' \in NodeHeads
    /\ pc' = "scan"
    /\ UNCHANGED <<chainVars, chunk_size, from_block, start, logs, reads, resync, walletVars>>

\* Mutant: a block is skipped between two windows.
NextStartSkipping(end) == Wrap(end + 2)

\* The block after a window.
NextStart(end) == Wrap(end + 1)

\* One turn of the loop: a request for a window, its logs decoded.
GetLogs ==
    /\ pc = "scan"
    /\ start <= head
    /\ LET end == WindowEnd(start, chunk_size, head)
       IN  /\ \E n \in NodeHeads :
                 logs' = Push(logs, LogsOf(SubSeq(chain, 1, n + 1), start, end))
           /\ reads' = [b \in Blocks |->
                           IF b \in start..end THEN reads[b] + 1 ELSE reads[b]]
           /\ start' = NextStart(end)
    /\ UNCHANGED <<chainVars, chunk_size, pc, from_block, head, resync, walletVars>>

\* The provider fails, or an event does not decode.
RequestFails ==
    /\ pc = "number" \/ (pc = "scan" /\ start <= head)
    /\ pc' = "error"
    /\ UNCHANGED <<chainVars, chunk_size, from_block, start, head, logs, reads, resync, walletVars>>

\* Mutant: a range that is empty from the start is not noticed.
ReturnAtHead ==
    /\ pc = "scan"
    /\ start = head + 1
    /\ logs' = Sorted(logs)
    /\ pc' = "done"
    /\ UNCHANGED <<chainVars, chunk_size, from_block, start, head, reads, resync, walletVars>>

Return ==
    /\ pc = "scan"
    /\ start > head
    /\ logs' = Sorted(logs)
    /\ pc' = "done"
    /\ UNCHANGED <<chainVars, chunk_size, from_block, start, head, reads, resync, walletVars>>

Proceed == GetBlockNumber \/ GetLogs \/ Return

ScanPool == Proceed \/ RequestFails

\* Mutants: the cursor is the last block scanned, and the one after the next.
CursorAtHead(h) == h
CursorPastNext(h) == h + 2

\* Where the next incremental scan starts: after to_block.
CursorAfter(h) == h + 1

\* The call's locals are gone.
CallEnds ==
    /\ pc' = "idle"
    /\ from_block' = 0 /\ start' = 0 /\ head' = 0
    /\ logs' = EmptyLogs
    /\ reads' = [b \in Blocks |-> 0]
    /\ resync' = FALSE

\* The wallet merges an incremental scan and keeps its cursor, to_block (= head).
Merge ==
    /\ pc = "done"
    /\ resync
    /\ store' = [f \in DOMAIN store |-> store[f] \o logs[f]]
    /\ next' = CursorAfter(head)
    /\ merges' = merges + 1
    /\ CallEnds
    /\ UNCHANGED <<chainVars, chunk_size>>

\* The wallet has looked at the result, or given up.
Leave ==
    /\ pc \in {"done", "error"}
    /\ CallEnds
    /\ UNCHANGED <<chainVars, chunk_size, walletVars>>

Next == Mine \/ Reorg \/ CallRange \/ CallResync \/ ScanPool \/ Merge \/ Leave

\* An async call that is awaited is polled until it returns, and each request
\* is answered or (RequestFails) is not; no failure is assumed to come.
Spec == Init /\ [][Next]_vars /\ WF_vars(Proceed)

-----------------------------------------------------------------------------
CallTypeOK ==
    /\ chunk_size \in ChunkSizes
    /\ pc \in {"idle", "number", "scan", "done", "error"}
    /\ from_block \in 0..MaxBlocks /\ next \in 0..MaxBlocks
    /\ start \in 0..(WordSize - 1)
    /\ head \in Blocks
    /\ reads \in [Blocks -> Nat]

TypeOK ==
    /\ Len(chain) \in 1..MaxBlocks
    /\ \A b \in DOMAIN chain : Len(chain[b]) <= 2
    /\ reorgs \in 0..MaxReorgs /\ merges \in 0..MaxMerges
    /\ resync \in BOOLEAN
    /\ CallTypeOK

(* A scan asks for every block of its range exactly once, and for no other    *)
(* block, whatever the chunk size (sync.rs:170-173, 243): windows neither     *)
(* overlap nor leave a gap, the last one included.                            *)
BlocksReadOnce ==
    pc = "done" =>
        \A b \in Blocks : reads[b] = IF b \in from_block..head THEN 1 ELSE 0

(* While no block was orphaned and the nodes keep up, the scan returns the     *)
(* pool's logs of its range, each once and in order, although blocks arrive   *)
(* between its requests (sync.rs:150-248).                                    *)
ScanExact ==
    pc = "done" /\ reorgs = 0 /\ MaxLag = 0 =>
        logs = Push(EmptyLogs, LogsOf(chain, from_block, head))

(* Under the same conditions incremental re-syncs from the cursor             *)
(* (sync.rs:68-69) add up to the chain's logs, with failed and repeated scans *)
(* in between.                                                                *)
ResyncExact ==
    reorgs = 0 /\ MaxLag = 0 => store = Push(EmptyLogs, LogsOf(chain, 0, next - 1))

(* The scan ends although the chain keeps growing: its end is fixed when the  *)
(* call is made.                                                              *)
Terminates == pc \in {"number", "scan"} ~> pc \in {"done", "error"}

(* "untrusted logs are safe" (sync.rs:9-11) once the rebuilt root is verified: *)
(* a scan of the whole chain has all of its logs.                             *)
VerifiedLogsComplete ==
    pc = "done" /\ from_block = 0 /\ RootVerifies(logs, chain) =>
        logs = Push(EmptyLogs, LogsOf(chain, 0, head))

-----------------------------------------------------------------------------
(* The inductive strengthening of BlocksReadOnce.                          *)

\* No window reaches the end of the machine word.
NoOverflow == \A size \in ChunkSizes : size > 0 /\ MaxBlocks + size < WordSize

ReadSoFar ==
    /\ pc = "scan" =>
          /\ IF from_block <= head THEN start \in from_block..(head + 1)
                                   ELSE start = from_block
          /\ \A b \in Blocks :
                reads[b] = IF b \in from_block..(start - 1) THEN 1 ELSE 0
    /\ pc = "number" => start = from_block /\ \A b \in Blocks : reads[b] = 0
    /\ BlocksReadOnce

(* And of ScanExact and ResyncExact: what they say holds all along.        *)

Events ==
    [event : {"LeafInserted"}, tx : Txs, index : Nat] \union
    [event : {"Deposited", "Withdrawn", "Ragequit", "RootUpdated"}, tx : Txs]

\* The leaves of a chain are numbered from 1.
LeavesNumbered(c) ==
    LET leaves == LeavesOf(FlattenSeq(c))
    IN  \A k \in DOMAIN leaves : leaves[k].index = k

\* A scan's end exists, and lies no further back than where a re-sync starts.
CallWithinChain ==
    /\ next <= Len(chain)
    /\ pc \in {"number", "scan"} => from_block <= Len(chain)
    /\ pc \in {"scan", "done"} => head < Len(chain)
    /\ resync /\ pc \in {"number", "scan", "done"} => from_block = next
    /\ resync /\ pc \in {"scan", "done"} => from_block <= head + 1

LogsSoFar ==
    /\ pc = "number" => logs = EmptyLogs
    /\ pc = "scan" => logs = Push(EmptyLogs, LogsOf(chain, from_block, start - 1))

ExactSoFar ==
    /\ chain \in Seq(Seq(Events))
    /\ reorgs \in Nat
    /\ reorgs = 0 /\ MaxLag = 0 =>
          /\ LeavesNumbered(chain)
          /\ CallWithinChain
          /\ LogsSoFar
    /\ ScanExact
    /\ ResyncExact
=============================================================================
