---------------------------- MODULE PoolScanProofs ----------------------------
(***************************************************************************)
(* The windows of scan_pool tile its range, for every chunk size and every   *)
(* range that stay clear of the end of the machine word; so what it returns, *)
(* and what a wallet merges from one scan after another, are the chain's     *)
(* logs.                                                                   *)
(***************************************************************************)
EXTENDS PoolScan, TLAPS, WellFoundedInduction, FiniteSetTheorems

\* The part of the state the windows depend on.
Inv == CallTypeOK /\ ReadSoFar

\* A window starts where the last one ended, is not empty, stays in the range
\* and has at most chunk_size blocks.
LEMMA WindowBounds ==
    ASSUME NoOverflow, NEW size \in ChunkSizes,
           NEW s \in 0..MaxBlocks, NEW h \in 0..MaxBlocks, s <= h
    PROVE  /\ WindowEnd(s, size, h) \in s..h
           /\ WindowEnd(s, size, h) < s + size
           /\ Wrap(WindowEnd(s, size, h) + 1) = WindowEnd(s, size, h) + 1
<1>1. /\ size \in Nat /\ size > 0 /\ MaxBlocks \in Nat
      /\ MaxBlocks + size < WordSize /\ WordSize \in Nat
  BY WordAssumption, ChunkAssumption DEF NoOverflow
<1>2. Wrap(Wrap(s + size) - 1) = (s + size) - 1
  <2> DEFINE sum == s + size
  <2>1. sum \in Nat /\ sum > 0 /\ sum < WordSize
    BY <1>1
  <2> HIDE DEF sum
  <2>2. Wrap(sum) = sum /\ Wrap(sum - 1) = sum - 1
    BY <2>1, <1>1 DEF Wrap
  <2>3. Wrap(Wrap(sum) - 1) = sum - 1
    BY <2>2
  <2> QED
    BY <2>3 DEF sum
<1>3. WindowEnd(s, size, h) = IF (s + size) - 1 < h THEN (s + size) - 1 ELSE h
  BY <1>2 DEF WindowEnd
<1>4. WindowEnd(s, size, h) \in s..h /\ WindowEnd(s, size, h) < s + size
  BY <1>1, <1>3
<1> DEFINE e == WindowEnd(s, size, h)
<1>5. e \in Nat /\ e + 1 < WordSize
  BY <1>1, <1>4
<1>6. Wrap(e + 1) = e + 1
  <2> HIDE DEF e
  <2> QED
    BY <1>5, <1>1 DEF Wrap
<1> QED
  BY <1>4, <1>6

LEMMA InitInv == ASSUME NoOverflow PROVE Init => Inv
BY WordAssumption, ChunkAssumption
   DEF Init, Inv, CallTypeOK, ReadSoFar, BlocksReadOnce, Blocks

LEMMA BeginInv ==
    ASSUME NoOverflow, Inv, NEW from \in 0..MaxBlocks,
           NEW to \in {NoBlock} \union Blocks, Begin(from, to)
    PROVE  Inv'
<1> USE DEF Blocks
<1>1. /\ from_block' = from /\ start' = from /\ reads' = [b \in Blocks |-> 0]
      /\ UNCHANGED <<chunk_size, next>>
  BY DEF Begin, walletVars
<1>2. /\ pc' \in {"number", "scan"}
      /\ head' \in Blocks
  BY WordAssumption, NoBlockAssumption DEF Begin, Inv, CallTypeOK
<1>3. /\ MaxBlocks \in Nat /\ WordSize \in Nat /\ MaxBlocks < WordSize
      /\ chunk_size \in ChunkSizes /\ next \in 0..MaxBlocks
  BY WordAssumption, ChunkAssumption DEF NoOverflow, Inv, CallTypeOK
<1>4. CallTypeOK'
  <2>1. reads' \in [Blocks -> Nat]
    BY <1>1
  <2>2. start' \in 0..(WordSize - 1)
    BY <1>1, <1>3
  <2> QED
    BY <1>1, <1>2, <1>3, <2>1, <2>2 DEF CallTypeOK
<1>5. ReadSoFar'
  <2>1. \A b \in Blocks : reads'[b] = 0 /\ b \notin from..(from - 1)
    BY <1>1
  <2> DEFINE h == head'
  <2>2. from <= h => from \in from..(h + 1)
    <3> h \in Nat /\ from \in Nat
      BY <1>2, <1>3
    <3> HIDE DEF h
    <3> QED
      OBVIOUS
  <2> QED
    BY <1>1, <1>2, <2>1, <2>2 DEF ReadSoFar, BlocksReadOnce
<1> QED
  BY <1>4, <1>5 DEF Inv

LEMMA GetLogsInv ==
    ASSUME NoOverflow, Inv, GetLogs
    PROVE  Inv'
<1> DEFINE end == WindowEnd(start, chunk_size, head)
<1>1. /\ pc = "scan" /\ start <= head
      /\ reads' = [b \in Blocks |-> IF b \in start..end THEN reads[b] + 1 ELSE reads[b]]
      /\ start' = NextStart(end)
      /\ UNCHANGED <<chunk_size, pc, from_block, head, next>>
  BY DEF GetLogs, walletVars
<1>2. /\ MaxBlocks \in Nat /\ WordSize \in Nat
      /\ MaxBlocks + 1 < WordSize
      /\ start \in 0..(WordSize - 1) /\ head \in Blocks /\ head \in 0..MaxBlocks /\ from_block \in 0..MaxBlocks
      /\ chunk_size \in ChunkSizes
      /\ reads \in [Blocks -> Nat]
  BY WordAssumption, ChunkAssumption DEF NoOverflow, Inv, CallTypeOK, Blocks
<1>3. from_block <= start /\ \A b \in Blocks : reads[b] = IF b \in from_block..(start - 1) THEN 1 ELSE 0
  BY <1>1, <1>2 DEF Inv, ReadSoFar
<1>4. end \in start..head /\ start' = end + 1
  <2>1. start \in 0..MaxBlocks
    BY <1>1, <1>2
  <2> QED
    BY <1>1, <1>2, <2>1, WindowBounds DEF NextStart
<1> HIDE DEF end
<1>5. \A b \in Blocks : reads'[b] = IF b \in from_block..(start' - 1) THEN 1 ELSE 0
  BY <1>1, <1>2, <1>3, <1>4 DEF Blocks
<1>6. start' \in from_block..(head + 1) /\ start' \in 0..(WordSize - 1)
  BY <1>1, <1>2, <1>3, <1>4
<1>7. reads' \in [Blocks -> Nat]
  BY <1>1, <1>2
<1>8. CallTypeOK'
  BY <1>1, <1>6, <1>7 DEF Inv, CallTypeOK
<1>9. ReadSoFar'
  BY <1>1, <1>2, <1>3, <1>5, <1>6 DEF ReadSoFar, BlocksReadOnce
<1> QED
  BY <1>8, <1>9 DEF Inv

LEMMA NextInv == ASSUME NoOverflow PROVE Inv /\ [Next]_vars => Inv'
<1> SUFFICES ASSUME Inv, [Next]_vars PROVE Inv'
  OBVIOUS
<1>1. CASE CallRange
  <2>1. PICK from \in Mined, to \in {NoBlock} \union Mined : Begin(from, to)
    BY <1>1 DEF CallRange
  <2>2. from \in 0..MaxBlocks /\ to \in {NoBlock} \union Blocks
    BY WordAssumption DEF Mined, Blocks
  <2> QED
    BY <2>1, <2>2, BeginInv
<1>2. CASE CallResync
  <2>1. Begin(next, NoBlock) /\ next \in 0..MaxBlocks
    BY <1>2 DEF CallResync, Inv, CallTypeOK
  <2> QED
    BY <2>1, BeginInv
<1>3. CASE GetBlockNumber
  <2>1. /\ pc = "number" /\ pc' = "scan" /\ head' \in 0..(MaxBlocks - 1)
        /\ UNCHANGED <<chunk_size, from_block, start, reads, next>>
    BY <1>3 DEF GetBlockNumber, NodeHeads, Mined, Blocks, walletVars
  <2>2. MaxBlocks \in Nat /\ from_block \in 0..MaxBlocks
    BY WordAssumption DEF Inv, CallTypeOK
  <2>3. head' \in Blocks /\ head' \in Nat
    BY <2>1, <2>2 DEF Blocks
  <2>4. CallTypeOK'
    BY <2>1, <2>3 DEF Inv, CallTypeOK
  <2>5. ReadSoFar'
    <3>1. start = from_block /\ \A b \in Blocks : reads[b] = 0
      BY <2>1 DEF Inv, ReadSoFar
    <3>2. \A b \in Blocks : b \notin from_block..(from_block - 1)
      BY <2>2
    <3> DEFINE h == head'
    <3>3. from_block <= h => from_block \in from_block..(h + 1)
      <4> h \in Nat /\ from_block \in Nat
        BY <2>2, <2>3
      <4> HIDE DEF h
      <4> QED
        OBVIOUS
    <3> QED
      BY <2>1, <3>1, <3>2, <3>3 DEF ReadSoFar, BlocksReadOnce
  <2> QED
    BY <2>4, <2>5 DEF Inv
<1>4. CASE GetLogs
  BY <1>4, GetLogsInv
<1>5. CASE Return
  <2>1. /\ pc = "scan" /\ pc' = "done" /\ start > head
        /\ UNCHANGED <<chunk_size, from_block, start, head, reads, next>>
    BY <1>5 DEF Return, walletVars
  <2>2. from_block \in Nat /\ head \in Nat /\ start \in Nat /\ MaxBlocks \in Nat
    BY WordAssumption DEF Inv, CallTypeOK, Blocks
  <2>3. \A b \in Blocks : reads[b] = IF b \in from_block..head THEN 1 ELSE 0
    BY <2>1, <2>2 DEF Inv, ReadSoFar, Blocks
  <2>4. ReadSoFar'
    BY <2>1, <2>3 DEF ReadSoFar, BlocksReadOnce
  <2>5. CallTypeOK'
    BY <2>1 DEF Inv, CallTypeOK
  <2> QED
    BY <2>4, <2>5 DEF Inv
<1>6. CASE Merge \/ Leave
  <2>1. CallEnds /\ chunk_size' = chunk_size /\ pc \in {"done", "error"}
    BY <1>6 DEF Merge, Leave
  <2>2. next' \in 0..MaxBlocks
    <3>1. CASE Merge
      BY <3>1, WordAssumption DEF Merge, CursorAfter, Inv, CallTypeOK, Blocks
    <3>2. CASE Leave
      BY <3>2 DEF Leave, walletVars, Inv, CallTypeOK
    <3> QED
      BY <1>6, <3>1, <3>2
  <2>3. CallTypeOK'
    <3>1. reads' \in [Blocks -> Nat]
      BY <2>1 DEF CallEnds
    <3> QED
      BY <2>1, <2>2, <3>1, WordAssumption DEF CallEnds, Inv, CallTypeOK, Blocks
  <2> QED
    BY <2>1, <2>3 DEF CallEnds, Inv, ReadSoFar, BlocksReadOnce
<1>7. CASE RequestFails
  <2>1. /\ pc' = "error"
        /\ UNCHANGED <<chunk_size, from_block, start, head, reads, next>>
    BY <1>7 DEF RequestFails, walletVars
  <2> QED
    BY <2>1 DEF Inv, CallTypeOK, ReadSoFar, BlocksReadOnce
<1>8. CASE Mine \/ Reorg \/ UNCHANGED vars
  <2>1. UNCHANGED <<chunk_size, pc, from_block, start, head, reads, next>>
    BY <1>8 DEF Mine, Reorg, vars, callVars, walletVars
  <2> QED
    BY <2>1 DEF Inv, CallTypeOK, ReadSoFar, BlocksReadOnce
<1> QED
  BY <1>1, <1>2, <1>3, <1>4, <1>5, <1>6, <1>7, <1>8 DEF Next, ScanPool, Proceed

\* scan_pool's loop (sync.rs:170-173, 243) asks for every block from from_block to
\* the head it fixed exactly once and for no other block: for every chunk size
\* but zero, every range, and however the chain moves, as long as a window
\* does not reach the end of the machine word.
THEOREM ScanReadsEveryBlockOnce ==
    ASSUME NoOverflow PROVE Spec => []BlocksReadOnce
<1>1. Init => Inv
  BY InitInv
<1>2. Inv /\ [Next]_vars => Inv'
  BY NextInv
<1>3. Inv => BlocksReadOnce
  BY DEF Inv, ReadSoFar
<1> QED
  BY <1>1, <1>2, <1>3, PTL DEF Spec

-----------------------------------------------------------------------------
(* The types, which no chunk size breaks: the arithmetic may wrap, and a    *)
(* chunk of zero blocks may repeat a window.                               *)

LEMMA WrapsToWord == \A x \in -1..(WordSize + WordSize - 2) : Wrap(x) \in 0..(WordSize - 1)
BY WordAssumption DEF Wrap

\* A window ends in a block, wherever it starts.
LEMMA WindowEndsInBlock ==
    ASSUME NEW s \in 0..(WordSize - 1), NEW size \in ChunkSizes, NEW h \in Blocks
    PROVE  WindowEnd(s, size, h) \in Blocks
<1>1. /\ size \in 0..(WordSize - 1) /\ WordSize \in Nat \ {0} /\ MaxBlocks \in Nat
      /\ h \in 0..(MaxBlocks - 1)
  BY WordAssumption, ChunkAssumption DEF Blocks
<1>2. Wrap(s + size) \in 0..(WordSize - 1)
  BY <1>1, WrapsToWord
<1> DEFINE sum == Wrap(s + size)
<1>3. Wrap(sum - 1) \in 0..(WordSize - 1)
  <2> HIDE DEF sum
  <2>1. sum \in 0..(WordSize - 1)
    BY <1>2 DEF sum
  <2>2. sum - 1 \in -1..(WordSize + WordSize - 2)
    BY <2>1, <1>1
  <2> QED
    BY <2>2, WrapsToWord
<1> DEFINE last == Wrap(sum - 1)
<1>4. WindowEnd(s, size, h) = IF last < h THEN last ELSE h
  BY DEF WindowEnd
<1> HIDE DEF last
<1> QED
  BY <1>1, <1>3, <1>4 DEF last, Blocks

\* What the types leave out of the chain: it is a sequence.
ChainIsSeq == \E S : chain \in Seq(S)

\* An incremental scan is begun while the bound on merges leaves room for it.
RoomToMerge == resync => merges < MaxMerges

TypeInv == ChainIsSeq /\ RoomToMerge /\ TypeOK

\* A block carries the events of one transaction.
LEMMA EventsPerBlock == \A tx \in Txs : \A size : Len(EventsOf(tx, size)) <= 2
<1> TAKE tx \in Txs
<1> TAKE size
<1> DEFINE leaf == LeafInserted(tx, size + 1)
           other(name) == Other(name, tx)
<1>1. \/ EventsOf(tx, size) = <<leaf, other("Deposited")>>
      \/ EventsOf(tx, size) = <<leaf, other("Withdrawn")>>
      \/ EventsOf(tx, size) = <<other("Ragequit")>>
      \/ EventsOf(tx, size) = <<other("RootUpdated")>>
  BY KindAssumption DEF EventsOf, Kinds
<1> HIDE DEF leaf, other
<1>2. \A a, b : Len(<<a>>) <= 2 /\ Len(<<a, b>>) <= 2
  OBVIOUS
<1> QED
  BY <1>1, <1>2

LEMMA MineTypes ==
    ASSUME TypeInv, Mine
    PROVE  TypeInv'
<1>1. PICK block : chain' = Append(chain, block) /\ Len(block) <= 2
  <2>1. CASE chain' = Append(chain, <<>>)
    BY <2>1
  <2>2. CASE chain' # Append(chain, <<>>)
    <3> DEFINE size == Len(LeavesOf(FlattenSeq(chain)))
    <3>1. PICK tx \in Txs : chain' = Append(chain, EventsOf(tx, size))
      BY <2>2 DEF Mine
    <3> HIDE DEF size
    <3> QED
      BY <3>1, EventsPerBlock
  <2> QED
    BY <2>1, <2>2
<1>2. PICK S : chain \in Seq(S)
  BY DEF TypeInv, ChainIsSeq
<1> DEFINE T == S \cup {block}
<1>3. chain \in Seq(T)
  BY <1>2
<1>4. block \in T
  OBVIOUS
<1> HIDE DEF T
<1>5. /\ chain' \in Seq(T) /\ Len(chain') = Len(chain) + 1
      /\ \A b \in DOMAIN chain' : chain'[b] = IF b = Len(chain) + 1 THEN block ELSE chain[b]
      /\ \A b \in DOMAIN chain' : b # Len(chain) + 1 => b \in DOMAIN chain
  BY <1>1, <1>3, <1>4
<1>6. Len(chain') \in 1..MaxBlocks
  BY <1>3, <1>5, WordAssumption DEF Mine, TypeInv, TypeOK
<1>7. \A b \in DOMAIN chain' : Len(chain'[b]) <= 2
  BY <1>1, <1>5 DEF TypeInv, TypeOK
<1> QED
  BY <1>5, <1>6, <1>7 DEF Mine, TypeInv, TypeOK, CallTypeOK, ChainIsSeq, RoomToMerge, callVars, walletVars

LEMMA ReorgTypes ==
    ASSUME TypeInv, Reorg
    PROVE  TypeInv'
<1>1. PICK S : chain \in Seq(S)
  BY DEF TypeInv, ChainIsSeq
<1>2. Len(chain) \in 2..MaxBlocks /\ chain' = SubSeq(chain, 1, Len(chain) - 1)
  BY <1>1 DEF Reorg, TypeInv, TypeOK, Front
<1>3. /\ chain' \in Seq(S) /\ Len(chain') = Len(chain) - 1
      /\ \A b \in DOMAIN chain' : b \in DOMAIN chain /\ chain'[b] = chain[b]
  BY <1>1, <1>2
<1>4. Len(chain') \in 1..MaxBlocks
  BY <1>2, <1>3, WordAssumption
<1>5. reorgs' \in 0..MaxReorgs
  BY BoundsAssumption DEF Reorg, TypeInv, TypeOK
<1> QED
  BY <1>3, <1>4, <1>5 DEF Reorg, TypeInv, TypeOK, CallTypeOK, ChainIsSeq, RoomToMerge, callVars, walletVars

LEMMA BeginTypes ==
    ASSUME MaxBlocks < WordSize, CallTypeOK, NEW from \in 0..MaxBlocks,
           NEW to \in {NoBlock} \union Blocks, Begin(from, to)
    PROVE  CallTypeOK' /\ UNCHANGED <<chain, reorgs, merges>>
<1>1. /\ from_block' = from /\ start' = from /\ reads' = [b \in Blocks |-> 0]
      /\ UNCHANGED <<chunk_size, next, chain, reorgs, merges>>
  BY DEF Begin, walletVars, chainVars
<1>2. pc' \in {"number", "scan"} /\ head' \in Blocks
  BY DEF Begin, CallTypeOK
<1>3. start' \in 0..(WordSize - 1) /\ reads' \in [Blocks -> Nat]
  BY <1>1, WordAssumption
<1> QED
  BY <1>1, <1>2, <1>3 DEF CallTypeOK

LEMMA NextTypes == ASSUME MaxBlocks < WordSize PROVE TypeInv /\ [Next]_vars => TypeInv'
<1> SUFFICES ASSUME TypeInv, [Next]_vars PROVE TypeInv'
  OBVIOUS
<1>0. /\ MaxBlocks \in Nat \ {0} /\ WordSize \in Nat \ {0} /\ CallTypeOK
      /\ merges \in 0..MaxMerges /\ MaxMerges \in Nat
  BY WordAssumption, BoundsAssumption DEF TypeInv, TypeOK
<1>1. ASSUME UNCHANGED <<chain, reorgs>>, CallTypeOK', merges' \in 0..MaxMerges, resync' \in BOOLEAN, RoomToMerge'
      PROVE  TypeInv'
  BY <1>1 DEF TypeInv, TypeOK, ChainIsSeq
<1>2. CASE CallRange
  <2>1. PICK from \in Mined, to \in {NoBlock} \union Mined : Begin(from, to)
    BY <1>2 DEF CallRange
  <2>2. from \in 0..MaxBlocks /\ to \in {NoBlock} \union Blocks
    BY <1>0 DEF Mined, Blocks
  <2>3. CallTypeOK' /\ UNCHANGED <<chain, reorgs, merges>>
    BY <1>0, <2>1, <2>2, BeginTypes
  <2> QED
    BY <1>0, <1>1, <1>2, <2>3 DEF CallRange, RoomToMerge
<1>3. CASE CallResync
  <2>1. Begin(next, NoBlock) /\ next \in 0..MaxBlocks /\ resync' = TRUE
    BY <1>0, <1>3 DEF CallResync, CallTypeOK
  <2>2. CallTypeOK' /\ UNCHANGED <<chain, reorgs, merges>>
    BY <1>0, <2>1, BeginTypes
  <2> QED
    BY <1>0, <1>1, <1>3, <2>1, <2>2 DEF CallResync, RoomToMerge
<1>4. CASE GetBlockNumber \/ Return \/ RequestFails
  <2>1. /\ pc' \in {"scan", "done", "error"} /\ head' \in Blocks
        /\ UNCHANGED <<chain, reorgs, merges, chunk_size, from_block, start, reads, next, resync>>
    BY <1>0, <1>4 DEF GetBlockNumber, Return, RequestFails, NodeHeads, Mined, chainVars, walletVars,
                      CallTypeOK
  <2>2. CallTypeOK'
    BY <1>0, <2>1 DEF CallTypeOK
  <2> QED
    BY <1>0, <1>1, <2>1, <2>2 DEF TypeInv, TypeOK, RoomToMerge
<1>5. CASE GetLogs
  <2> DEFINE end == WindowEnd(start, chunk_size, head)
  <2>1. /\ reads' = [b \in Blocks |-> IF b \in start..end THEN reads[b] + 1 ELSE reads[b]]
        /\ start' = Wrap(end + 1)
        /\ UNCHANGED <<chain, reorgs, merges, chunk_size, pc, from_block, head, next, resync>>
    BY <1>5 DEF GetLogs, NextStart, chainVars, walletVars
  <2>2. end \in Blocks
    BY <1>0, WindowEndsInBlock DEF CallTypeOK
  <2> HIDE DEF end
  <2>3. start' \in 0..(WordSize - 1)
    <3>1. end + 1 \in -1..(WordSize + WordSize - 2)
      BY <1>0, <2>2 DEF Blocks
    <3> QED
      BY <2>1, <3>1, WrapsToWord
  <2>4. reads' \in [Blocks -> Nat]
    BY <1>0, <2>1 DEF CallTypeOK
  <2>5. CallTypeOK'
    BY <1>0, <2>1, <2>3, <2>4 DEF CallTypeOK
  <2> QED
    BY <1>0, <1>1, <2>1, <2>5 DEF TypeInv, TypeOK, RoomToMerge
<1>6. CASE Merge \/ Leave
  <2>1. /\ CallEnds /\ UNCHANGED <<chain, reorgs, chunk_size>>
    BY <1>6 DEF Merge, Leave, chainVars
  <2>2. next' \in 0..MaxBlocks
    BY <1>0, <1>6 DEF Merge, Leave, CursorAfter, walletVars, CallTypeOK, Blocks
  <2>3. merges' \in 0..MaxMerges
    BY <1>0, <1>6 DEF Merge, Leave, walletVars, TypeInv, RoomToMerge
  <2>4. reads' \in [Blocks -> Nat]
    BY <2>1 DEF CallEnds
  <2>5. CallTypeOK'
    BY <1>0, <2>1, <2>2, <2>4 DEF CallEnds, CallTypeOK, Blocks
  <2> QED
    BY <1>1, <2>1, <2>3, <2>5 DEF CallEnds, RoomToMerge
<1>7. CASE Mine \/ Reorg
  BY <1>7, MineTypes, ReorgTypes
<1>8. CASE UNCHANGED vars
  BY <1>8 DEF vars, chainVars, callVars, walletVars, TypeInv, TypeOK, CallTypeOK, ChainIsSeq, RoomToMerge
<1> QED
  BY <1>2, <1>3, <1>4, <1>5, <1>6, <1>7, <1>8 DEF Next, ScanPool, Proceed

LEMMA InitTypes == Init => TypeInv
<1> SUFFICES ASSUME Init PROVE TypeInv
  OBVIOUS
<1>1. chain \in Seq({<<>>}) /\ Len(chain) = 1 /\ \A b \in DOMAIN chain : Len(chain[b]) <= 2
  BY DEF Init
<1>2. MaxBlocks \in Nat \ {0} /\ WordSize \in Nat \ {0} /\ {MaxReorgs, MaxMerges} \subseteq Nat
  BY WordAssumption, BoundsAssumption
<1>3. CallTypeOK
  BY <1>2 DEF Init, CallTypeOK, Blocks
<1>4. ChainIsSeq
  BY <1>1 DEF ChainIsSeq
<1>5. /\ reorgs \in 0..MaxReorgs /\ merges \in 0..MaxMerges /\ resync \in BOOLEAN
      /\ RoomToMerge
  <2>1. reorgs = 0 /\ merges = 0 /\ resync = FALSE
    BY DEF Init
  <2>2. RoomToMerge
    BY <2>1, Zenon DEF RoomToMerge
  <2>3. reorgs \in 0..MaxReorgs /\ merges \in 0..MaxMerges
    BY <1>2, <2>1
  <2> QED
    BY <2>1, <2>2, <2>3
<1>6. Len(chain) \in 1..MaxBlocks
  BY <1>1, <1>2
<1> QED
  BY <1>1, <1>3, <1>4, <1>5, <1>6 DEF TypeInv, TypeOK

\* The loop's locals stay what they are declared to be (sync.rs:150-248), however
\* its arithmetic wraps and the chain moves between its requests: its end is a
\* block, its start a machine word, and the cursor at most the next block.
THEOREM ScanTypes ==
    ASSUME MaxBlocks < WordSize PROVE Spec => []TypeOK
<1>1. TypeInv => TypeOK
  BY DEF TypeInv
<1> QED
  BY <1>1, InitTypes, NextTypes, PTL DEF Spec

-----------------------------------------------------------------------------
(* Natural numbers.                                                        *)

LessThan == {p \in Nat \X Nat : p[1] < p[2]}

LEMMA LessThanWellFounded == IsWellFoundedOn(LessThan, Nat)
<1>1. IsWellFoundedOn(OpToRel(<, Nat), Nat)
  BY NatLessThanWellFounded, Zenon
<1>2. OpToRel(<, Nat) = LessThan
  BY Zenon DEF OpToRel, LessThan
<1> QED
  BY <1>1, <1>2, Zenon

\* A non-empty set of natural numbers has a least element.
LEMMA LeastElement ==
    ASSUME NEW S \in SUBSET Nat, S # {}
    PROVE  \E x \in S : \A y \in S : x <= y
<1>1. PICK x \in S : \A y \in S : ~ (<<y, x>> \in LessThan)
  BY LessThanWellFounded, WFMin, Zenon
<1>2. ASSUME NEW y \in S PROVE x <= y
  <2>1. ~ (<<y, x>> \in LessThan)
    BY <1>1
  <2>2. <<y, x>> \in Nat \X Nat
    OBVIOUS
  <2>3. ~ (y < x)
    BY <2>1, <2>2 DEF LessThan
  <2> QED
    BY <2>3
<1> QED
  BY <1>2

\* Induction over the natural numbers.
LEMMA SetInduction ==
    ASSUME NEW S \in SUBSET Nat, 0 \in S,
           \A n \in S : n + 1 \in S
    PROVE  S = Nat
<1> SUFFICES ASSUME NEW m \in Nat, m \notin S PROVE FALSE
  OBVIOUS
<1> DEFINE T == Nat \ S
<1>1. PICK x \in T : \A y \in T : x <= y
  BY LeastElement
<1>2. x # 0 /\ x - 1 \in Nat
  OBVIOUS
<1>3. x - 1 \notin T
  BY <1>1, <1>2
<1> QED
  BY <1>2, <1>3

-----------------------------------------------------------------------------
(* Decoding a sequence of events.                                          *)

IsDecoding(f, l, c, N) ==
    f = [n \in 0..N |-> IF n = 0 THEN l ELSE Decoded(f[n - 1], c[n])]

\* The loop over a chunk has an outcome.
LEMMA DecodingExists ==
    ASSUME NEW l, NEW c, NEW N \in Nat
    PROVE  \E f : IsDecoding(f, l, c, N)
<1> DEFINE S == {n \in Nat : \E f : IsDecoding(f, l, c, n)}
<1>1. 0 \in S
  <2> DEFINE f == [n \in 0..0 |-> l]
  <2>1. f = [n \in 0..0 |-> IF n = 0 THEN l ELSE Decoded(f[n - 1], c[n])]
    OBVIOUS
  <2> HIDE DEF f
  <2> QED
    BY <2>1 DEF IsDecoding
<1>2. ASSUME NEW n \in S PROVE n + 1 \in S
  <2>1. PICK f : IsDecoding(f, l, c, n)
    OBVIOUS
  <2> DEFINE h == [m \in 0..(n + 1) |-> IF m = n + 1 THEN Decoded(f[n], c[m]) ELSE f[m]]
  <2>2. h = [m \in 0..(n + 1) |-> IF m = 0 THEN l ELSE Decoded(h[m - 1], c[m])]
    <3>1. \A m \in 0..n : h[m] = f[m] /\ f[m] = IF m = 0 THEN l ELSE Decoded(f[m - 1], c[m])
      BY <2>1 DEF IsDecoding
    <3>2. h[n + 1] = Decoded(f[n], c[n + 1])
      OBVIOUS
    <3>3. \A m \in 0..(n + 1) : h[m] = IF m = 0 THEN l ELSE Decoded(h[m - 1], c[m])
      <4> SUFFICES ASSUME NEW m \in 0..(n + 1)
                   PROVE  h[m] = IF m = 0 THEN l ELSE Decoded(h[m - 1], c[m])
        OBVIOUS
      <4>1. m = n + 1 \/ m \in 0..n
        OBVIOUS
      <4>2. CASE m = n + 1
        <5>1. m # 0 /\ m - 1 = n /\ n \in 0..n
          BY <4>2
        <5>2. h[m - 1] = f[n]
          BY <3>1, <5>1
        <5> HIDE DEF h
        <5> QED
          BY <3>2, <4>2, <5>1, <5>2
      <4>3. CASE m \in 0..n
        <5>1. m # 0 => m - 1 \in 0..n
          BY <4>3
        <5> HIDE DEF h
        <5> QED
          BY <3>1, <4>3, <5>1
      <4> QED
        BY <4>1, <4>2, <4>3
    <3>4. h = [m \in 0..(n + 1) |-> h[m]]
      OBVIOUS
    <3> HIDE DEF h
    <3> QED
      BY <3>3, <3>4
  <2> HIDE DEF h
  <2> QED
    BY <2>2 DEF IsDecoding
<1>3. S = Nat
  <2> HIDE DEF S
  <2>1. S \in SUBSET Nat
    BY DEF S
  <2> QED
    BY <1>1, <1>2, <2>1, SetInduction
<1> QED
  BY <1>3

\* Its outcome after n events depends on those n only.
LEMMA DecodingsAgree ==
    ASSUME NEW l, NEW c, NEW d, NEW N \in Nat, NEW M \in Nat, NEW K \in Nat, K <= N, K <= M,
           \A n \in 1..K : c[n] = d[n],
           NEW f, IsDecoding(f, l, c, N), NEW g, IsDecoding(g, l, d, M)
    PROVE  f[K] = g[K]
<1> DEFINE S == {n \in Nat : n <= K => f[n] = g[n]}
<1>0. /\ \A n \in 0..N : f[n] = IF n = 0 THEN l ELSE Decoded(f[n - 1], c[n])
      /\ \A n \in 0..M : g[n] = IF n = 0 THEN l ELSE Decoded(g[n - 1], d[n])
  BY DEF IsDecoding
<1>1. 0 \in S
  BY <1>0
<1>2. ASSUME NEW n \in S PROVE n + 1 \in S
  <2> SUFFICES ASSUME n + 1 <= K PROVE f[n + 1] = g[n + 1]
    OBVIOUS
  <2>1. n + 1 \in 1..K /\ n + 1 \in 0..N /\ n + 1 \in 0..M /\ n + 1 # 0 /\ (n + 1) - 1 = n /\ f[n] = g[n]
    OBVIOUS
  <2> QED
    BY <1>0, <2>1
<1>3. S = Nat
  <2> HIDE DEF S
  <2>1. S \in SUBSET Nat
    BY DEF S
  <2> QED
    BY <1>1, <1>2, <2>1, SetInduction
<1> QED
  BY <1>3

LEMMA PushIs ==
    ASSUME NEW l, NEW c, Len(c) \in Nat, NEW f, IsDecoding(f, l, c, Len(c))
    PROVE  Push(l, c) = f[Len(c)]
<1> DEFINE after == CHOOSE g : IsDecoding(g, l, c, Len(c))
<1>1. IsDecoding(after, l, c, Len(c))
  <2> HIDE DEF IsDecoding
  <2> QED
    OBVIOUS
<1>2. Push(l, c) = after[Len(c)]
  BY DEF Push, IsDecoding
<1> HIDE DEF after
<1>3. after[Len(c)] = f[Len(c)]
  BY <1>1, DecodingsAgree
<1> QED
  BY <1>2, <1>3

LEMMA PushNone == \A l : Push(l, <<>>) = l
<1> TAKE l
<1>1. PICK f : IsDecoding(f, l, <<>>, Len(<<>>))
  BY DecodingExists
<1>2. Push(l, <<>>) = f[Len(<<>>)]
  BY <1>1, PushIs
<1> QED
  BY <1>1, <1>2 DEF IsDecoding

\* One more event.
LEMMA PushOne ==
    ASSUME NEW E, NEW l, NEW c \in Seq(E), NEW e \in E
    PROVE  Push(l, Append(c, e)) = Decoded(Push(l, c), e)
<1> DEFINE d == Append(c, e)
           N == Len(c)
<1>1. d \in Seq(E) /\ N \in Nat /\ Len(d) = N + 1 /\ d[N + 1] = e /\ \A n \in 1..N : c[n] = d[n]
  OBVIOUS
<1> HIDE DEF d
<1>2. PICK f : IsDecoding(f, l, c, N)
  BY <1>1, DecodingExists
<1>3. PICK g : IsDecoding(g, l, d, N + 1)
  BY <1>1, DecodingExists
<1>4. f[N] = g[N]
  <2>1. N + 1 \in Nat /\ N <= N + 1 /\ N <= N
    BY <1>1
  <2> HIDE DEF N
  <2> QED
    BY <1>1, <1>2, <1>3, <2>1, DecodingsAgree
<1>5. g[N + 1] = Decoded(g[N], e)
  <2>1. N + 1 \in 0..(N + 1) /\ N + 1 # 0 /\ (N + 1) - 1 = N
    BY <1>1
  <2> HIDE DEF N
  <2> QED
    BY <1>1, <1>3, <2>1 DEF IsDecoding
<1>6. Push(l, c) = f[N] /\ Push(l, d) = g[N + 1]
  <2>1. Push(l, c) = f[N]
    BY <1>1, <1>2, PushIs
  <2>2. Len(d) \in Nat /\ IsDecoding(g, l, d, Len(d))
    BY <1>1, <1>3
  <2>3. Push(l, d) = g[Len(d)]
    BY <2>2, PushIs
  <2> QED
    BY <1>1, <2>1, <2>3
<1> QED
  BY <1>4, <1>5, <1>6 DEF d

\* A chunk after another.
LEMMA PushConcat ==
    ASSUME NEW E, NEW l, NEW x \in Seq(E), NEW y \in Seq(E)
    PROVE  Push(l, x \o y) = Push(Push(l, x), y)
<1> DEFINE S == {n \in Nat : n <= Len(y) =>
                     Push(l, x \o SubSeq(y, 1, n)) = Push(Push(l, x), SubSeq(y, 1, n))}
<1>1. 0 \in S
  <2>1. SubSeq(y, 1, 0) = <<>> /\ x \o <<>> = x
    OBVIOUS
  <2> QED
    BY <2>1, PushNone
<1>2. ASSUME NEW n \in S PROVE n + 1 \in S
  <2> SUFFICES ASSUME n + 1 <= Len(y)
               PROVE  Push(l, x \o SubSeq(y, 1, n + 1)) = Push(Push(l, x), SubSeq(y, 1, n + 1))
    OBVIOUS
  <2> DEFINE z == SubSeq(y, 1, n)
             e == y[n + 1]
  <2>1. z \in Seq(E) /\ e \in E /\ SubSeq(y, 1, n + 1) = Append(z, e)
    OBVIOUS
  <2>2. Push(l, x \o z) = Push(Push(l, x), z)
    OBVIOUS
  <2> HIDE DEF z, e, S
  <2>3. x \o z \in Seq(E) /\ x \o Append(z, e) = Append(x \o z, e)
    BY <2>1
  <2> DEFINE xz == x \o z
  <2>4. Push(l, Append(xz, e)) = Decoded(Push(l, xz), e)
    <3>1. xz \in Seq(E) /\ e \in E
      BY <2>1, <2>3
    <3> HIDE DEF xz
    <3> QED
      BY <3>1, PushOne
  <2>5. Push(Push(l, x), Append(z, e)) = Decoded(Push(Push(l, x), z), e)
    BY <2>1, PushOne
  <2> QED
    BY <2>1, <2>2, <2>3, <2>4, <2>5
<1>3. S = Nat
  <2> HIDE DEF S
  <2>1. S \in SUBSET Nat
    BY DEF S
  <2> QED
    BY <1>1, <1>2, <2>1, SetInduction
<1>4. Len(y) \in Nat /\ SubSeq(y, 1, Len(y)) = y
  OBVIOUS
<1>5. Len(y) \in S
  <2> HIDE DEF S
  <2> QED
    BY <1>3, <1>4
<1>6. Push(l, x \o SubSeq(y, 1, Len(y))) = Push(Push(l, x), SubSeq(y, 1, Len(y)))
  BY <1>4, <1>5
<1> QED
  BY <1>4, <1>6

Logs(E) == [leaves : Seq(E), deposits : Seq(E), withdrawals : Seq(E), ragequits : Seq(E)]

\* The logs l, then those of m.
Joined(l, m) ==
    [leaves      |-> l.leaves \o m.leaves,
     deposits    |-> l.deposits \o m.deposits,
     withdrawals |-> l.withdrawals \o m.withdrawals,
     ragequits   |-> l.ragequits \o m.ragequits]

LEMMA JoinEmpty == \A E : \A l \in Logs(E) : EmptyLogs \in Logs(E) /\ Joined(l, EmptyLogs) = l
BY DEF Logs, EmptyLogs, Joined

\* What one event adds does not depend on the logs it is added to.
LEMMA DecodedAdds ==
    ASSUME NEW E, NEW l \in Logs(E), NEW m \in Logs(E), NEW e \in E
    PROVE  /\ Decoded(l, e) \in Logs(E)
           /\ Decoded(Joined(l, m), e) = Joined(l, Decoded(m, e))
<1>1. \A s \in Seq(E), t \in Seq(E) : Append(s \o t, e) = s \o Append(t, e) /\ Append(t, e) \in Seq(E)
  OBVIOUS
<1>0. /\ l.leaves \in Seq(E) /\ l.deposits \in Seq(E) /\ l.withdrawals \in Seq(E) /\ l.ragequits \in Seq(E)
      /\ m.leaves \in Seq(E) /\ m.deposits \in Seq(E) /\ m.withdrawals \in Seq(E) /\ m.ragequits \in Seq(E)
      /\ Joined(l, m) \in Logs(E)
  BY DEF Logs, Joined
<1>2. CASE e.event = "LeafInserted"
  <2> DEFINE With(k) == [leaves |-> Append(k.leaves, e), deposits |-> k.deposits,
                         withdrawals |-> k.withdrawals, ragequits |-> k.ragequits]
  <2>1. \A k : Decoded(k, e) = [k EXCEPT !.leaves = Append(@, e)]
    BY <1>2 DEF Decoded
  <2>2. ASSUME NEW k \in Logs(E) PROVE Decoded(k, e) = With(k)
    BY <2>1 DEF Logs
  <2>3. /\ Decoded(l, e) = With(l) /\ Decoded(m, e) = With(m)
        /\ Decoded(Joined(l, m), e) = With(Joined(l, m))
    <3> HIDE DEF With
    <3> QED
      BY <1>0, <2>2
  <2>4. With(l) \in Logs(E)
    BY <1>0, <1>1 DEF Logs
  <2>5. With(Joined(l, m)) = Joined(l, With(m))
    BY <1>0, <1>1 DEF Joined
  <2> HIDE DEF With
  <2> QED
    BY <2>3, <2>4, <2>5
<1>3. CASE e.event = "Deposited"
  <2> DEFINE With(k) == [leaves |-> k.leaves, deposits |-> Append(k.deposits, e),
                         withdrawals |-> k.withdrawals, ragequits |-> k.ragequits]
  <2>1. \A k : Decoded(k, e) = [k EXCEPT !.deposits = Append(@, e)]
    BY <1>3 DEF Decoded
  <2>2. ASSUME NEW k \in Logs(E) PROVE Decoded(k, e) = With(k)
    BY <2>1 DEF Logs
  <2>3. /\ Decoded(l, e) = With(l) /\ Decoded(m, e) = With(m)
        /\ Decoded(Joined(l, m), e) = With(Joined(l, m))
    <3> HIDE DEF With
    <3> QED
      BY <1>0, <2>2
  <2>4. With(l) \in Logs(E)
    BY <1>0, <1>1 DEF Logs
  <2>5. With(Joined(l, m)) = Joined(l, With(m))
    BY <1>0, <1>1 DEF Joined
  <2> HIDE DEF With
  <2> QED
    BY <2>3, <2>4, <2>5
<1>4. CASE e.event = "Withdrawn"
  <2> DEFINE With(k) == [leaves |-> k.leaves, deposits |-> k.deposits,
                         withdrawals |-> Append(k.withdrawals, e), ragequits |-> k.ragequits]
  <2>1. \A k : Decoded(k, e) = [k EXCEPT !.withdrawals = Append(@, e)]
    BY <1>4 DEF Decoded
  <2>2. ASSUME NEW k \in Logs(E) PROVE Decoded(k, e) = With(k)
    BY <2>1 DEF Logs
  <2>3. /\ Decoded(l, e) = With(l) /\ Decoded(m, e) = With(m)
        /\ Decoded(Joined(l, m), e) = With(Joined(l, m))
    <3> HIDE DEF With
    <3> QED
      BY <1>0, <2>2
  <2>4. With(l) \in Logs(E)
    BY <1>0, <1>1 DEF Logs
  <2>5. With(Joined(l, m)) = Joined(l, With(m))
    BY <1>0, <1>1 DEF Joined
  <2> HIDE DEF With
  <2> QED
    BY <2>3, <2>4, <2>5
<1>5. CASE e.event = "Ragequit"
  <2> DEFINE With(k) == [leaves |-> k.leaves, deposits |-> k.deposits,
                         withdrawals |-> k.withdrawals, ragequits |-> Append(k.ragequits, e)]
  <2>1. \A k : Decoded(k, e) = [k EXCEPT !.ragequits = Append(@, e)]
    BY <1>5 DEF Decoded
  <2>2. ASSUME NEW k \in Logs(E) PROVE Decoded(k, e) = With(k)
    BY <2>1 DEF Logs
  <2>3. /\ Decoded(l, e) = With(l) /\ Decoded(m, e) = With(m)
        /\ Decoded(Joined(l, m), e) = With(Joined(l, m))
    <3> HIDE DEF With
    <3> QED
      BY <1>0, <2>2
  <2>4. With(l) \in Logs(E)
    BY <1>0, <1>1 DEF Logs
  <2>5. With(Joined(l, m)) = Joined(l, With(m))
    BY <1>0, <1>1 DEF Joined
  <2> HIDE DEF With
  <2> QED
    BY <2>3, <2>4, <2>5
<1>6. CASE e.event \notin {"LeafInserted", "Deposited", "Withdrawn", "Ragequit"}
  BY <1>6 DEF Decoded
<1> QED
  BY <1>2, <1>3, <1>4, <1>5, <1>6

\* Nor what a chunk adds.
LEMMA PushAdds ==
    ASSUME NEW E, NEW l \in Logs(E), NEW c \in Seq(E)
    PROVE  /\ Push(l, c) \in Logs(E)
           /\ Push(l, c) = Joined(l, Push(EmptyLogs, c))
<1> DEFINE Adds(z) == /\ Push(l, z) \in Logs(E) /\ Push(EmptyLogs, z) \in Logs(E)
                      /\ Push(l, z) = Joined(l, Push(EmptyLogs, z))
           S == {n \in Nat : n <= Len(c) => Adds(SubSeq(c, 1, n))}
<1>1. 0 \in S
  <2>1. SubSeq(c, 1, 0) = <<>>
    OBVIOUS
  <2> QED
    BY <2>1, PushNone, JoinEmpty
<1>2. ASSUME NEW n \in S PROVE n + 1 \in S
  <2>0. SUFFICES ASSUME n + 1 <= Len(c) PROVE Adds(SubSeq(c, 1, n + 1))
    <3> HIDE DEF Adds
    <3> QED
      OBVIOUS
  <2> DEFINE z == SubSeq(c, 1, n)
             e == c[n + 1]
  <2>1. z \in Seq(E) /\ e \in E /\ SubSeq(c, 1, n + 1) = Append(z, e)
    <3> HIDE DEF Adds
    <3> QED
      BY <2>0
  <2>2. Adds(z)
    <3> HIDE DEF Adds
    <3> QED
      BY <2>0
  <2> HIDE DEF z, e, S
  <2> DEFINE a == Push(l, z)
             b == Push(EmptyLogs, z)
  <2>3. Push(l, Append(z, e)) = Decoded(a, e) /\ Push(EmptyLogs, Append(z, e)) = Decoded(b, e)
    BY <2>1, PushOne
  <2>4. a \in Logs(E) /\ b \in Logs(E) /\ a = Joined(l, b)
    BY <2>2
  <2> HIDE DEF a, b
  <2>5. /\ Decoded(a, e) \in Logs(E) /\ Decoded(b, e) \in Logs(E)
        /\ Decoded(a, e) = Joined(l, Decoded(b, e))
    BY <2>1, <2>4, DecodedAdds
  <2> QED
    BY <2>1, <2>3, <2>5
<1>3. S = Nat
  <2> HIDE DEF S
  <2>1. S \in SUBSET Nat
    BY DEF S
  <2> QED
    BY <1>1, <1>2, <2>1, SetInduction
<1>4. Len(c) \in Nat /\ SubSeq(c, 1, Len(c)) = c
  OBVIOUS
<1>5. Len(c) \in S
  <2> HIDE DEF S
  <2> QED
    BY <1>3, <1>4
<1>6. Adds(SubSeq(c, 1, Len(c)))
  <2> HIDE DEF Adds
  <2> QED
    BY <1>4, <1>5
<1> QED
  BY <1>4, <1>6

-----------------------------------------------------------------------------
(* The events of consecutive blocks.                                       *)

IsFlattening(f, s, N) ==
    f = [i \in 1..N |-> IF i = 1 THEN s[i] ELSE f[i - 1] \o s[i]]

LEMMA FlatteningExists ==
    ASSUME NEW s, NEW N \in Nat
    PROVE  \E f : IsFlattening(f, s, N)
<1> DEFINE S == {n \in Nat : \E f : IsFlattening(f, s, n)}
<1>1. 0 \in S
  <2> DEFINE f == [i \in 1..0 |-> s[i]]
  <2>1. f = [i \in 1..0 |-> IF i = 1 THEN s[i] ELSE f[i - 1] \o s[i]]
    OBVIOUS
  <2> HIDE DEF f
  <2> QED
    BY <2>1 DEF IsFlattening
<1>2. ASSUME NEW n \in S PROVE n + 1 \in S
  <2>1. PICK f : IsFlattening(f, s, n)
    OBVIOUS
  <2> DEFINE last == IF n = 0 THEN s[n + 1] ELSE f[n] \o s[n + 1]
             h == [i \in 1..(n + 1) |-> IF i = n + 1 THEN last ELSE f[i]]
  <2>2. \A i \in 1..n : h[i] = f[i] /\ f[i] = IF i = 1 THEN s[i] ELSE f[i - 1] \o s[i]
    <3>1. \A i \in 1..n : h[i] = f[i]
      <4> HIDE DEF last
      <4> QED
        OBVIOUS
    <3>2. \A i \in 1..n : f[i] = IF i = 1 THEN s[i] ELSE f[i - 1] \o s[i]
      <4> HIDE DEF h
      <4> QED
        BY <2>1 DEF IsFlattening
    <3> HIDE DEF h
    <3> QED
      BY <3>1, <3>2
  <2>3. h[n + 1] = last
    <3> HIDE DEF last
    <3> QED
      OBVIOUS
  <2>4. h = [i \in 1..(n + 1) |-> h[i]]
    <3> HIDE DEF last
    <3> QED
      OBVIOUS
  <2> HIDE DEF h
  <2>5. \A i \in 1..(n + 1) : h[i] = IF i = 1 THEN s[i] ELSE h[i - 1] \o s[i]
    <3> SUFFICES ASSUME NEW i \in 1..(n + 1)
                 PROVE  h[i] = IF i = 1 THEN s[i] ELSE h[i - 1] \o s[i]
      OBVIOUS
    <3>1. CASE i = n + 1
      <4>1. CASE n = 0
        BY <2>3, <3>1, <4>1
      <4>2. CASE n # 0
        <5>1. i # 1 /\ i - 1 = n /\ n \in 1..n
          BY <3>1, <4>2
        <5>2. h[n] = f[n]
          BY <2>2, <5>1
        <5> QED
          BY <2>3, <3>1, <4>2, <5>1, <5>2
      <4> QED
        BY <4>1, <4>2
    <3>2. CASE i \in 1..n
      <4>1. i # 1 => i - 1 \in 1..n
        BY <3>2
      <4> QED
        BY <2>2, <3>2, <4>1
    <3> QED
      BY <3>1, <3>2
  <2>6. IsFlattening(h, s, n + 1)
    <3>1. h = [i \in 1..(n + 1) |-> IF i = 1 THEN s[i] ELSE h[i - 1] \o s[i]]
      BY <2>4, <2>5
    <3> QED
      BY <3>1 DEF IsFlattening
  <2> QED
    BY <2>6
<1>3. S = Nat
  <2> HIDE DEF S
  <2>1. S \in SUBSET Nat
    BY DEF S
  <2> QED
    BY <1>1, <1>2, <2>1, SetInduction
<1> QED
  BY <1>3

LEMMA FlatteningsAgree ==
    ASSUME NEW s, NEW t, NEW N \in Nat, NEW M \in Nat, N <= M, N > 0,
           \A n \in 1..N : s[n] = t[n],
           NEW f, IsFlattening(f, s, N), NEW g, IsFlattening(g, t, M)
    PROVE  f[N] = g[N]
<1> DEFINE S == {n \in Nat : n \in 1..N => f[n] = g[n]}
<1>0. /\ \A n \in 1..N : f[n] = IF n = 1 THEN s[n] ELSE f[n - 1] \o s[n]
      /\ \A n \in 1..M : g[n] = IF n = 1 THEN t[n] ELSE g[n - 1] \o t[n]
  BY DEF IsFlattening
<1>1. 0 \in S
  OBVIOUS
<1>2. ASSUME NEW n \in S PROVE n + 1 \in S
  <2> SUFFICES ASSUME n + 1 <= N PROVE f[n + 1] = g[n + 1]
    OBVIOUS
  <2>1. n + 1 \in 1..N /\ n + 1 \in 1..M /\ (n + 1) - 1 = n /\ s[n + 1] = t[n + 1]
    OBVIOUS
  <2>2. n + 1 # 1 => f[n] = g[n]
    <3> n + 1 # 1 => n \in 1..N
      OBVIOUS
    <3> QED
      OBVIOUS
  <2> QED
    BY <1>0, <2>1, <2>2
<1>3. S = Nat
  <2> HIDE DEF S
  <2>1. S \in SUBSET Nat
    BY DEF S
  <2> QED
    BY <1>1, <1>2, <2>1, SetInduction
<1> QED
  BY <1>3

LEMMA FlattenIs ==
    ASSUME NEW s, Len(s) \in Nat, Len(s) > 0, NEW f, IsFlattening(f, s, Len(s))
    PROVE  FlattenSeq(s) = f[Len(s)]
<1> DEFINE flatten == CHOOSE g : IsFlattening(g, s, Len(s))
<1>1. IsFlattening(flatten, s, Len(s))
  <2> HIDE DEF IsFlattening
  <2> QED
    OBVIOUS
<1>2. FlattenSeq(s) = flatten[Len(s)]
  BY DEF FlattenSeq, IsFlattening
<1> HIDE DEF flatten
<1>3. flatten[Len(s)] = f[Len(s)]
  BY <1>1, FlatteningsAgree
<1> QED
  BY <1>2, <1>3

LEMMA FlattenNone == FlattenSeq(<<>>) = <<>>
BY DEF FlattenSeq

\* One more block.
LEMMA FlattenGrows ==
    ASSUME NEW s, NEW t, NEW N \in Nat, N > 0, Len(s) = N, Len(t) = N + 1,
           \A n \in 1..N : s[n] = t[n]
    PROVE  FlattenSeq(t) = FlattenSeq(s) \o t[N + 1]
<1> DEFINE M == N + 1
<1>1. M \in Nat /\ N <= M /\ N <= N /\ M > 0 /\ M \in 1..M /\ M - 1 = N /\ M # 1
  OBVIOUS
<1> HIDE DEF M
<1>2. PICK f : IsFlattening(f, s, N)
  BY FlatteningExists
<1>3. PICK g : IsFlattening(g, t, M)
  BY <1>1, FlatteningExists
<1>4. FlattenSeq(s) = f[N]
  BY <1>2, FlattenIs
<1>5. FlattenSeq(t) = g[M]
  <2>1. Len(t) = M
    BY DEF M
  <2> QED
    BY <1>1, <1>3, <2>1, FlattenIs
<1>6. f[N] = g[N]
  BY <1>1, <1>2, <1>3, FlatteningsAgree
<1>7. g[M] = g[N] \o t[M]
  BY <1>1, <1>3 DEF IsFlattening
<1> QED
  BY <1>4, <1>5, <1>6, <1>7 DEF M

LEMMA FlattenOne ==
    ASSUME NEW E, NEW s \in Seq(Seq(E)), NEW b \in Seq(E)
    PROVE  FlattenSeq(Append(s, b)) = FlattenSeq(s) \o b
<1> DEFINE t == Append(s, b)
           N == Len(s)
<1>1. N \in Nat /\ Len(t) = N + 1 /\ t[N + 1] = b /\ \A n \in 1..N : s[n] = t[n]
  OBVIOUS
<1>2. CASE N = 0
  <2>1. s = <<>> /\ <<>> \o b = b
    BY <1>2
  <2>2. PICK g : IsFlattening(g, t, 1)
    BY FlatteningExists
  <2>3. g[1] = b
    <3>1. 1 \in 1..1 /\ t[1] = b
      BY <1>1, <1>2
    <3> HIDE DEF t
    <3> QED
      BY <2>2, <3>1 DEF IsFlattening
  <2>4. FlattenSeq(t) = g[1]
    <3>1. Len(t) = 1 /\ Len(t) \in Nat /\ Len(t) > 0
      BY <1>1, <1>2
    <3>2. IsFlattening(g, t, Len(t))
      BY <2>2, <3>1
    <3> HIDE DEF t
    <3>3. FlattenSeq(t) = g[Len(t)]
      BY <3>1, <3>2, FlattenIs
    <3> QED
      BY <3>1, <3>3
  <2> QED
    BY <2>1, <2>3, <2>4, FlattenNone
<1>3. CASE N # 0
  <2>1. N \in Nat /\ N > 0 /\ Len(s) = N
    BY <1>1, <1>3
  <2>2. FlattenSeq(t) = FlattenSeq(s) \o t[N + 1]
    <3> HIDE DEF t, N
    <3> QED
      BY <1>1, <2>1, FlattenGrows
  <2> QED
    BY <1>1, <2>2
<1> QED
  BY <1>2, <1>3

LEMMA FlattenIsSeq ==
    ASSUME NEW E, NEW s \in Seq(Seq(E))
    PROVE  FlattenSeq(s) \in Seq(E)
<1> DEFINE S == {n \in Nat : n <= Len(s) => FlattenSeq(SubSeq(s, 1, n)) \in Seq(E)}
<1>1. 0 \in S
  <2>1. SubSeq(s, 1, 0) = <<>> /\ <<>> \in Seq(E)
    OBVIOUS
  <2>2. FlattenSeq(SubSeq(s, 1, 0)) = <<>>
    BY <2>1, FlattenNone
  <2> QED
    BY <2>1, <2>2
<1>2. ASSUME NEW n \in S PROVE n + 1 \in S
  <2> SUFFICES ASSUME n + 1 <= Len(s) PROVE FlattenSeq(SubSeq(s, 1, n + 1)) \in Seq(E)
    OBVIOUS
  <2> DEFINE r == SubSeq(s, 1, n)
             b == s[n + 1]
  <2>1. r \in Seq(Seq(E)) /\ b \in Seq(E) /\ SubSeq(s, 1, n + 1) = Append(r, b) /\ FlattenSeq(r) \in Seq(E)
    OBVIOUS
  <2> HIDE DEF r, b, S
  <2>2. FlattenSeq(Append(r, b)) = FlattenSeq(r) \o b
    BY <2>1, FlattenOne
  <2> DEFINE fr == FlattenSeq(r)
  <2>3. fr \in Seq(E) /\ b \in Seq(E)
    BY <2>1
  <2>4. fr \o b \in Seq(E)
    <3> HIDE DEF fr
    <3> QED
      BY <2>3
  <2> QED
    BY <2>1, <2>2, <2>4
<1>3. S = Nat
  <2> HIDE DEF S
  <2>1. S \in SUBSET Nat
    BY DEF S
  <2> QED
    BY <1>1, <1>2, <2>1, SetInduction
<1>4. Len(s) \in Nat /\ SubSeq(s, 1, Len(s)) = s
  OBVIOUS
<1>5. Len(s) \in S
  <2> HIDE DEF S
  <2> QED
    BY <1>3, <1>4
<1>6. FlattenSeq(SubSeq(s, 1, Len(s))) \in Seq(E)
  BY <1>4, <1>5
<1> QED
  BY <1>4, <1>6

LEMMA FlattenConcat ==
    ASSUME NEW E, NEW s \in Seq(Seq(E)), NEW t \in Seq(Seq(E))
    PROVE  FlattenSeq(s \o t) = FlattenSeq(s) \o FlattenSeq(t)
<1> DEFINE S == {n \in Nat : n <= Len(t) =>
                     FlattenSeq(s \o SubSeq(t, 1, n)) = FlattenSeq(s) \o FlattenSeq(SubSeq(t, 1, n))}
<1>0. FlattenSeq(s) \in Seq(E)
  BY FlattenIsSeq
<1>1. 0 \in S
  <2>1. SubSeq(t, 1, 0) = <<>> /\ s \o <<>> = s /\ FlattenSeq(s) \o <<>> = FlattenSeq(s)
    BY <1>0
  <2> QED
    BY <2>1, FlattenNone
<1>2. ASSUME NEW n \in S PROVE n + 1 \in S
  <2> SUFFICES ASSUME n + 1 <= Len(t)
               PROVE  FlattenSeq(s \o SubSeq(t, 1, n + 1)) = FlattenSeq(s) \o FlattenSeq(SubSeq(t, 1, n + 1))
    OBVIOUS
  <2> DEFINE r == SubSeq(t, 1, n)
             b == t[n + 1]
  <2>1. r \in Seq(Seq(E)) /\ b \in Seq(E) /\ SubSeq(t, 1, n + 1) = Append(r, b)
    OBVIOUS
  <2>2. FlattenSeq(s \o r) = FlattenSeq(s) \o FlattenSeq(r)
    OBVIOUS
  <2> HIDE DEF r, b, S
  <2> DEFINE sr == s \o r
  <2>3. sr \in Seq(Seq(E)) /\ s \o Append(r, b) = Append(sr, b)
    BY <2>1
  <2> HIDE DEF sr
  <2>4. FlattenSeq(sr) \in Seq(E) /\ FlattenSeq(r) \in Seq(E)
    BY <2>1, <2>3, FlattenIsSeq
  <2>5. FlattenSeq(Append(sr, b)) = FlattenSeq(sr) \o b /\ FlattenSeq(Append(r, b)) = FlattenSeq(r) \o b
    BY <2>1, <2>3, <2>4, FlattenOne
  <2>6. (FlattenSeq(s) \o FlattenSeq(r)) \o b = FlattenSeq(s) \o (FlattenSeq(r) \o b)
    BY <1>0, <2>1, <2>4
  <2> QED
    BY <2>1, <2>2, <2>3, <2>5, <2>6 DEF sr
<1>3. S = Nat
  <2> HIDE DEF S
  <2>1. S \in SUBSET Nat
    BY DEF S
  <2> QED
    BY <1>1, <1>2, <2>1, SetInduction
<1>4. Len(t) \in Nat /\ SubSeq(t, 1, Len(t)) = t
  OBVIOUS
<1>5. Len(t) \in S
  <2> HIDE DEF S
  <2> QED
    BY <1>3, <1>4
<1>6. FlattenSeq(s \o SubSeq(t, 1, Len(t))) = FlattenSeq(s) \o FlattenSeq(SubSeq(t, 1, Len(t)))
  BY <1>4, <1>5
<1> QED
  BY <1>4, <1>6

-----------------------------------------------------------------------------
(* Ranges of blocks.                                                       *)

\* LogsOf, of blocks that exist.
LEMMA LogsOfRange ==
    ASSUME NEW E, NEW c \in Seq(Seq(E)), NEW a \in Nat, NEW b \in Int, b < Len(c)
    PROVE  /\ LogsOf(c, a, b) = FlattenSeq(SubSeq(c, a + 1, b + 1))
           /\ SubSeq(c, a + 1, b + 1) \in Seq(Seq(E))
           /\ LogsOf(c, a, b) \in Seq(E)
<1>1. LogsOf(c, a, b) = FlattenSeq(SubSeq(c, a + 1, b + 1))
  BY DEF LogsOf
<1>2. SubSeq(c, a + 1, b + 1) \in Seq(Seq(E))
  OBVIOUS
<1> QED
  BY <1>1, <1>2, FlattenIsSeq

LEMMA LogsOfNone ==
    ASSUME NEW E, NEW c \in Seq(Seq(E)), NEW a \in Nat, NEW b \in Int, b < Len(c), b < a
    PROVE  LogsOf(c, a, b) = <<>>
<1>1. SubSeq(c, a + 1, b + 1) = <<>>
  OBVIOUS
<1> QED
  BY <1>1, LogsOfRange, FlattenNone

\* A range after another.
LEMMA LogsOfJoin ==
    ASSUME NEW E, NEW c \in Seq(Seq(E)), NEW a \in Nat, NEW b \in Int, NEW d \in Int,
           a <= b + 1, b <= d, d < Len(c)
    PROVE  LogsOf(c, a, d) = LogsOf(c, a, b) \o LogsOf(c, b + 1, d)
<1> DEFINE x == SubSeq(c, a + 1, b + 1)
           y == SubSeq(c, (b + 1) + 1, d + 1)
<1>1. x \in Seq(Seq(E)) /\ y \in Seq(Seq(E)) /\ x \o y = SubSeq(c, a + 1, d + 1)
  OBVIOUS
<1>2. LogsOf(c, a, b) = FlattenSeq(x) /\ LogsOf(c, b + 1, d) = FlattenSeq(y)
      /\ LogsOf(c, a, d) = FlattenSeq(SubSeq(c, a + 1, d + 1))
  BY DEF LogsOf
<1> HIDE DEF x, y
<1>3. FlattenSeq(x \o y) = FlattenSeq(x) \o FlattenSeq(y)
  BY <1>1, FlattenConcat
<1> QED
  BY <1>1, <1>2, <1>3

\* What is mined does not change the blocks before it.
LEMMA LogsOfMined ==
    ASSUME NEW E, NEW c \in Seq(Seq(E)), NEW x \in Seq(E), NEW a \in Nat, NEW b \in Int, b < Len(c)
    PROVE  LogsOf(Append(c, x), a, b) = LogsOf(c, a, b)
<1>1. SubSeq(Append(c, x), a + 1, b + 1) = SubSeq(c, a + 1, b + 1) /\ b < Len(Append(c, x))
  OBVIOUS
<1> QED
  BY <1>1 DEF LogsOf

-----------------------------------------------------------------------------
(* Sorting by index.                                                       *)

\* Elements that are in order stay where they are.
LEMMA SortedStays ==
    ASSUME NEW E, NEW s \in Seq(E), NEW f, \A k \in DOMAIN s : s[k].index = f + k /\ f + k \in Nat,
           f \in Int
    PROVE  ByIndex(s) = s
<1>1. ASSUME NEW k \in DOMAIN s PROVE Rank(s, k) = k
  <2>1. {j \in DOMAIN s : \/ s[j].index < s[k].index
                          \/ s[j].index = s[k].index /\ j <= k} = 1..k
    <3>1. \A j \in DOMAIN s : s[j].index = f + j /\ s[k].index = f + k
      OBVIOUS
    <3> QED
      BY <3>1
  <2>2. 1 \in Int /\ k \in Int /\ k \in Nat
    OBVIOUS
  <2>3. Cardinality(1..k) = k
    <3>1. Cardinality(1..k) = IF 1 > k THEN 0 ELSE k - 1 + 1
      BY <2>2, FS_Interval
    <3> QED
      BY <2>2, <3>1
  <2> QED
    BY <2>1, <2>3 DEF Rank
<1>2. ASSUME NEW n \in DOMAIN s PROVE (CHOOSE k \in DOMAIN s : Rank(s, k) = n) = n
  BY <1>1
<1> DEFINE at(n) == CHOOSE k \in DOMAIN s : Rank(s, k) = n
<1>3. ByIndex(s) = [n \in DOMAIN s |-> s[at(n)]]
  BY DEF ByIndex
<1>4. \A n \in DOMAIN s : at(n) = n
  BY <1>2
<1> HIDE DEF at
<1>5. s = [n \in DOMAIN s |-> s[n]]
  OBVIOUS
<1> QED
  BY <1>3, <1>4, <1>5

-----------------------------------------------------------------------------
(* What a scan returns.                                                    *)

\* One event decoded on its own.
LEMMA EmptyDecoded == 
    \A e : Decoded(EmptyLogs, e).leaves = IF e.event = "LeafInserted" THEN <<e>> ELSE <<>>
BY DEF Decoded, EmptyLogs

\* The leaves of two chunks are those of the first, then those of the second.
LEMMA LeavesConcat ==
    ASSUME NEW E, NEW x \in Seq(E), NEW y \in Seq(E)
    PROVE  /\ LeavesOf(x \o y) = LeavesOf(x) \o LeavesOf(y)
           /\ LeavesOf(x) \in Seq(E) /\ LeavesOf(y) \in Seq(E)
<1>1. EmptyLogs \in Logs(E)
  BY JoinEmpty DEF Logs, EmptyLogs
<1>2. Push(EmptyLogs, x) \in Logs(E) /\ Push(EmptyLogs, y) \in Logs(E)
  BY <1>1, PushAdds
<1>3. Push(EmptyLogs, x \o y) = Push(Push(EmptyLogs, x), y)
  BY PushConcat
<1>4. Push(Push(EmptyLogs, x), y) = Joined(Push(EmptyLogs, x), Push(EmptyLogs, y))
  BY <1>2, PushAdds
<1> QED
  BY <1>2, <1>3, <1>4 DEF LeavesOf, Joined, Logs

\* A block adds at most one leaf, the next one.
LEMMA BlockEvents ==
    ASSUME NEW tx \in Txs, NEW size \in Nat
    PROVE  /\ EventsOf(tx, size) \in Seq(Events)
           /\ \/ LeavesOf(EventsOf(tx, size)) = <<>>
              \/ LeavesOf(EventsOf(tx, size)) = <<LeafInserted(tx, size + 1)>>
<1> DEFINE leaf == LeafInserted(tx, size + 1)
           other(name) == Other(name, tx)
           names == {"Deposited", "Withdrawn", "Ragequit", "RootUpdated"}
<1>1. /\ leaf \in Events /\ leaf.event = "LeafInserted"
      /\ \A name \in names : other(name) \in Events /\ other(name).event = name
  BY DEF Events, LeafInserted, Other
<1>2. \E name \in names : \/ EventsOf(tx, size) = <<leaf, other(name)>>
                          \/ EventsOf(tx, size) = <<other(name)>>
  BY KindAssumption DEF EventsOf, Kinds
<1> HIDE DEF leaf, other
<1>3. PICK name \in names : \/ EventsOf(tx, size) = <<leaf, other(name)>>
                            \/ EventsOf(tx, size) = <<other(name)>>
  BY <1>2
<1> DEFINE o == other(name)
<1>4. o \in Events /\ o.event # "LeafInserted"
  BY <1>1
<1> HIDE DEF o
<1>5. LeavesOf(<<o>>) = <<>> /\ LeavesOf(<<leaf>>) = <<leaf>>
  <2>1. ASSUME NEW e \in Events PROVE LeavesOf(<<e>>) = IF e.event = "LeafInserted" THEN <<e>> ELSE <<>>
    <3> DEFINE none == <<>>
    <3>1. none \in Seq(Events) /\ <<e>> = Append(none, e)
      OBVIOUS
    <3> HIDE DEF none
    <3>2. Push(EmptyLogs, Append(none, e)) = Decoded(Push(EmptyLogs, none), e)
      BY <3>1, PushOne
    <3> USE DEF none
    <3> QED
      BY <3>1, <3>2, PushNone, EmptyDecoded DEF LeavesOf
  <2> QED
    BY <1>1, <1>4, <2>1
<1>6. LeavesOf(<<leaf, o>>) = <<leaf>>
  <2> DEFINE x == <<leaf>>
             y == <<o>>
  <2>1. x \in Seq(Events) /\ y \in Seq(Events) /\ <<leaf, o>> = x \o y /\ x \o <<>> = x
    BY <1>1, <1>4
  <2>2. LeavesOf(x) = x /\ LeavesOf(y) = <<>>
    BY <1>5
  <2> HIDE DEF x, y
  <2>3. LeavesOf(x \o y) = LeavesOf(x) \o LeavesOf(y)
    BY <2>1, LeavesConcat
  <2>4. LeavesOf(<<leaf, o>>) = x
    BY <2>1, <2>2, <2>3
  <2> QED
    BY <2>4 DEF x
<1>7. EventsOf(tx, size) \in Seq(Events)
  <2>1. <<leaf, o>> \in Seq(Events) /\ <<o>> \in Seq(Events)
    BY <1>1, <1>4
  <2>2. EventsOf(tx, size) = <<leaf, o>> \/ EventsOf(tx, size) = <<o>>
    BY <1>3 DEF o
  <2> QED
    BY <2>1, <2>2
<1> QED
  BY <1>3, <1>5, <1>6, <1>7 DEF o, leaf

\* The leaves of consecutive blocks are consecutive, hence already sorted.
LEMMA RangeIsSorted ==
    ASSUME NEW c \in Seq(Seq(Events)), LeavesNumbered(c),
           NEW a \in Nat, NEW b \in Int, a <= b + 1, b < Len(c)
    PROVE  Sorted(Push(EmptyLogs, LogsOf(c, a, b))) = Push(EmptyLogs, LogsOf(c, a, b))
<1> DEFINE n == Len(c) - 1
           x == LogsOf(c, 0, a - 1)
           y == LogsOf(c, a, b)
           z == LogsOf(c, b + 1, n)
<1>1. /\ n \in Int /\ n < Len(c) /\ a - 1 \in Int /\ a - 1 <= n /\ b <= n /\ b + 1 \in Nat
      /\ (a - 1) + 1 = a /\ a - 1 < Len(c) /\ 0 <= (a - 1) + 1 /\ 0 \in Nat
  OBVIOUS
<1>2. x \in Seq(Events) /\ y \in Seq(Events) /\ z \in Seq(Events)
  <2>1. x \in Seq(Events)
    BY <1>1, LogsOfRange
  <2>2. y \in Seq(Events)
    BY LogsOfRange
  <2>3. z \in Seq(Events)
    BY <1>1, LogsOfRange
  <2> QED
    BY <2>1, <2>2, <2>3
<1>3. FlattenSeq(c) = x \o (y \o z)
  <2>1. LogsOf(c, 0, n) = x \o LogsOf(c, a, n)
    <3>1. LogsOf(c, 0, n) = LogsOf(c, 0, a - 1) \o LogsOf(c, (a - 1) + 1, n)
      <4> HIDE DEF n
      <4> QED
        BY <1>1, LogsOfJoin
    <3> QED
      BY <1>1, <3>1
  <2>2. LogsOf(c, a, n) = y \o z
    <3> HIDE DEF n
    <3> QED
      BY <1>1, LogsOfJoin DEF n
  <2>3. LogsOf(c, 0, n) = FlattenSeq(c)
    <3>1. SubSeq(c, 1, Len(c)) = c /\ n + 1 = Len(c) /\ 0 + 1 = 1
      OBVIOUS
    <3>2. LogsOf(c, 0, n) = FlattenSeq(SubSeq(c, 0 + 1, n + 1))
      <4> HIDE DEF n
      <4> QED
        BY <1>1, LogsOfRange
    <3> QED
      BY <3>1, <3>2
  <2> QED
    BY <2>1, <2>2, <2>3
<1> HIDE DEF x, y, z
<1> DEFINE lx == LeavesOf(x)
           ly == LeavesOf(y)
           lz == LeavesOf(z)
<1>4. /\ lx \in Seq(Events) /\ ly \in Seq(Events) /\ lz \in Seq(Events)
      /\ LeavesOf(FlattenSeq(c)) = lx \o (ly \o lz)
  <2> DEFINE yz == y \o z
  <2>1. yz \in Seq(Events) /\ LeavesOf(yz) = ly \o lz /\ ly \in Seq(Events) /\ lz \in Seq(Events)
    BY <1>2, LeavesConcat
  <2> HIDE DEF yz
  <2>2. LeavesOf(x \o yz) = lx \o LeavesOf(yz) /\ lx \in Seq(Events)
    BY <1>2, <2>1, LeavesConcat
  <2> QED
    BY <1>3, <2>1, <2>2 DEF yz
<1>5. \A k \in DOMAIN ly : ly[k].index = Len(lx) + k
  <2> HIDE DEF lx, ly, lz
  <2> SUFFICES ASSUME NEW k \in DOMAIN ly PROVE ly[k].index = Len(lx) + k
    OBVIOUS
  <2> DEFINE s == lx \o (ly \o lz)
  <2>1. Len(lx) + k \in DOMAIN s /\ s[Len(lx) + k] = ly[k]
    BY <1>4
  <2>2. s[Len(lx) + k].index = Len(lx) + k
    BY <1>4, <2>1 DEF LeavesNumbered
  <2>3. Len(lx) \in Nat /\ k \in Nat
    BY <1>4
  <2> HIDE DEF s
  <2> QED
    BY <2>1, <2>2, <2>3
<1>6. ByIndex(ly) = ly
  <2> DEFINE f == Len(lx)
  <2>1. f \in Int /\ \A k \in DOMAIN ly : f + k \in Nat
    <3> HIDE DEF lx, ly
    <3> QED
      BY <1>4
  <2> HIDE DEF lx, ly
  <2>2. \A k \in DOMAIN ly : ly[k].index = f + k /\ f + k \in Nat
    BY <1>5, <2>1
  <2> HIDE DEF f
  <2> QED
    BY <1>4, <2>1, <2>2, SortedStays
<1> DEFINE l == Push(EmptyLogs, y)
<1>7. l \in Logs(Events) /\ l.leaves = ly
  <2>1. EmptyLogs \in Logs(Events)
    BY DEF Logs, EmptyLogs
  <2> QED
    BY <1>2, <2>1, PushAdds DEF LeavesOf
<1> HIDE DEF l, ly
<1>8. Sorted(l) = [l EXCEPT !.leaves = ly]
  BY <1>6, <1>7 DEF Sorted
<1>9. Sorted(l) = l
  BY <1>7, <1>8 DEF Logs
<1> QED
  BY <1>9 DEF l, y

\* What scan_pool has to return for a range of the chain's blocks.
ScanOf(a, b) == Push(EmptyLogs, LogsOf(chain, a, b))

\* While no block was orphaned and the nodes keep up.
Exact ==
    /\ chain \in Seq(Seq(Events))
    /\ LeavesNumbered(chain)
    /\ CallWithinChain
    /\ LogsSoFar
    /\ pc = "done" => logs = ScanOf(from_block, head)
    /\ store = ScanOf(0, next - 1)

\* The next window starts in the chain, or right after it.
LEMMA WindowInChain ==
    ASSUME Inv, Exact, pc = "scan"
    PROVE  from_block <= start /\ start <= Len(chain)
<1>1. from_block \in Nat /\ start \in Nat /\ head \in Nat /\ Len(chain) \in Nat
  BY WordAssumption DEF Inv, CallTypeOK, Blocks, Exact
<1> QED
  BY <1>1 DEF Inv, ReadSoFar, Exact, CallWithinChain

LEMMA MineExact ==
    ASSUME Inv, Exact, Mine
    PROVE  Exact'
<1>0. UNCHANGED <<reorgs, chunk_size, pc, from_block, start, head, logs, reads, resync, next, store, merges>>
  BY DEF Mine, callVars, walletVars
<1> DEFINE leaves == LeavesOf(FlattenSeq(chain))
<1>1. FlattenSeq(chain) \in Seq(Events) /\ leaves \in Seq(Events)
  <2>1. FlattenSeq(chain) \in Seq(Events)
    BY FlattenIsSeq DEF Exact
  <2> QED
    BY <2>1, LeavesConcat
<1>2. PICK block \in Seq(Events) :
          /\ chain' = Append(chain, block)
          /\ \/ LeavesOf(block) = <<>>
             \/ \E tx : LeavesOf(block) = <<LeafInserted(tx, Len(leaves) + 1)>>
  <2>1. CASE chain' = Append(chain, <<>>)
    <3>1. <<>> \in Seq(Events) /\ LeavesOf(<<>>) = <<>>
      BY PushNone DEF LeavesOf, EmptyLogs
    <3> QED
      BY <2>1, <3>1
  <2>2. CASE chain' # Append(chain, <<>>)
    <3>1. PICK tx \in Txs : chain' = Append(chain, EventsOf(tx, Len(leaves)))
      BY <2>2 DEF Mine
    <3>2. Len(leaves) \in Nat
      BY <1>1
    <3> HIDE DEF leaves
    <3>3. /\ EventsOf(tx, Len(leaves)) \in Seq(Events)
          /\ \/ LeavesOf(EventsOf(tx, Len(leaves))) = <<>>
             \/ LeavesOf(EventsOf(tx, Len(leaves))) = <<LeafInserted(tx, Len(leaves) + 1)>>
      BY <3>2, BlockEvents
    <3> QED
      BY <3>1, <3>3
  <2> QED
    BY <2>1, <2>2
<1>3. chain' \in Seq(Seq(Events)) /\ Len(chain') = Len(chain) + 1 /\ Len(chain) \in Nat
  BY <1>2 DEF Exact
<1>4. LeavesNumbered(chain)'
  <2>1. FlattenSeq(chain') = FlattenSeq(chain) \o block
    BY <1>2, FlattenOne DEF Exact
  <2>2. LeavesOf(FlattenSeq(chain')) = leaves \o LeavesOf(block)
    BY <1>1, <2>1, LeavesConcat
  <2>3. \A k \in DOMAIN leaves : leaves[k].index = k
    BY DEF Exact, LeavesNumbered
  <2> HIDE DEF leaves
  <2> DEFINE after == LeavesOf(FlattenSeq(chain'))
  <2>4. \A k \in DOMAIN after : after[k].index = k
    <3>1. CASE LeavesOf(block) = <<>>
      <4>1. after = leaves
        BY <1>1, <2>2, <3>1
      <4> HIDE DEF after
      <4> QED
        BY <2>3, <4>1
    <3>2. CASE LeavesOf(block) # <<>>
      <4>1. PICK tx : LeavesOf(block) = <<LeafInserted(tx, Len(leaves) + 1)>>
        BY <1>2, <3>2
      <4> DEFINE e == LeafInserted(tx, Len(leaves) + 1)
      <4>2. e.index = Len(leaves) + 1
        BY DEF LeafInserted
      <4>3. after = leaves \o <<e>>
        BY <2>2, <4>1
      <4> HIDE DEF after, e
      <4>4. /\ DOMAIN after = 1..(Len(leaves) + 1)
            /\ \A k \in 1..Len(leaves) : after[k] = leaves[k] /\ k \in DOMAIN leaves
            /\ after[Len(leaves) + 1] = e
            /\ Len(leaves) \in Nat
        BY <1>1, <4>3
      <4> QED
        BY <2>3, <4>2, <4>4
    <3> QED
      BY <3>1, <3>2
  <2> QED
    BY <2>4 DEF LeavesNumbered
<1>5. ASSUME NEW a \in Nat, NEW b \in Int, b < Len(chain) PROVE LogsOf(chain', a, b) = LogsOf(chain, a, b)
  BY <1>2, <1>5, LogsOfMined DEF Exact
<1>6. /\ from_block \in Nat /\ next \in Nat /\ start \in Nat /\ head \in Int
      /\ next - 1 \in Int /\ start - 1 \in Int
  BY WordAssumption DEF Inv, CallTypeOK, Blocks
<1>7. CallWithinChain'
  BY <1>0, <1>3, <1>6 DEF CallWithinChain, Exact
<1>8. LogsSoFar'
  <2>1. CASE pc = "scan"
    <3>1. start - 1 < Len(chain)
      BY <1>3, <1>6, <2>1, WindowInChain
    <3>2. LogsOf(chain', from_block, start - 1) = LogsOf(chain, from_block, start - 1)
      BY <1>5, <1>6, <3>1
    <3> QED
      BY <1>0, <2>1, <3>2 DEF LogsSoFar, Exact
  <2>2. CASE pc # "scan"
    BY <1>0, <2>2 DEF LogsSoFar, Exact
  <2> QED
    BY <2>1, <2>2
<1>9. (pc = "done" => logs = ScanOf(from_block, head))'
  <2>1. CASE pc = "done"
    <3>1. head < Len(chain)
      BY <2>1 DEF Exact, CallWithinChain
    <3>2. LogsOf(chain', from_block, head) = LogsOf(chain, from_block, head)
      BY <1>5, <1>6, <3>1
    <3> QED
      BY <1>0, <2>1, <3>2 DEF ScanOf, Exact
  <2>2. CASE pc # "done"
    BY <1>0, <2>2
  <2> QED
    BY <2>1, <2>2
<1>10. (store = ScanOf(0, next - 1))'
  <2>1. next - 1 < Len(chain) /\ 0 \in Nat
    BY <1>3, <1>6 DEF Exact, CallWithinChain
  <2>2. LogsOf(chain', 0, next - 1) = LogsOf(chain, 0, next - 1)
    BY <1>5, <1>6, <2>1
  <2> QED
    BY <1>0, <2>2 DEF ScanOf, Exact
<1> QED
  BY <1>3, <1>4, <1>7, <1>8, <1>9, <1>10 DEF Exact

LEMMA BeginExact ==
    ASSUME Inv, Exact, NEW from \in 0..Len(chain), NEW to \in {NoBlock} \union Mined,
           Begin(from, to), resync' => from = next /\ to = NoBlock
    PROVE  Exact'
<1>1. /\ from_block' = from /\ start' = from /\ logs' = EmptyLogs
      /\ UNCHANGED <<chain, reorgs, chunk_size, next, store, merges>>
      /\ \/ to = NoBlock /\ pc' = "number"
         \/ to \in Mined /\ pc' = "scan" /\ head' = to
  BY DEF Begin, chainVars, walletVars
<1>2. /\ Len(chain) \in Nat /\ from \in Nat /\ from - 1 \in Int /\ from - 1 < Len(chain) /\ from - 1 < from
      /\ next \in Nat
  BY WordAssumption DEF Exact, Inv, CallTypeOK
<1>3. LogsOf(chain, from, from - 1) = <<>>
  BY <1>2, LogsOfNone DEF Exact
<1>4. LogsSoFar'
  BY <1>1, <1>3, PushNone DEF LogsSoFar
<1>5. CallWithinChain'
  <2>1. to \in Mined => to < Len(chain)
    BY DEF Mined
  <2>2. next <= Len(chain)
    BY DEF Exact, CallWithinChain
  <2>3. pc' = "scan" => ~resync'
    BY <1>1, NoBlockAssumption DEF Mined, Blocks
  <2> QED
    BY <1>1, <1>2, <2>1, <2>2, <2>3 DEF CallWithinChain
<1> QED
  BY <1>1, <1>4, <1>5 DEF Exact, ScanOf

LEMMA GetBlockNumberExact ==
    ASSUME MaxLag = 0, Inv, Exact, GetBlockNumber
    PROVE  Exact'
<1>1. /\ pc = "number" /\ pc' = "scan" /\ head' \in NodeHeads
      /\ UNCHANGED <<chain, reorgs, from_block, start, logs, resync, next, store>>
  BY DEF GetBlockNumber, chainVars, walletVars
<1>2. /\ Len(chain) \in Nat /\ from_block \in Nat /\ from_block - 1 \in Int /\ from_block - 1 < from_block
      /\ from_block <= Len(chain) /\ from_block - 1 < Len(chain)
  BY <1>1, WordAssumption DEF Exact, Inv, CallTypeOK, CallWithinChain
<1>3. head' \in Nat /\ head' < Len(chain) /\ head' + 1 >= Len(chain)
  BY <1>1, <1>2 DEF NodeHeads, Mined, Blocks
<1>4. start = from_block
  BY <1>1 DEF Inv, ReadSoFar
<1>5. LogsOf(chain, from_block, from_block - 1) = <<>>
  BY <1>2, LogsOfNone DEF Exact
<1>6. LogsSoFar'
  BY <1>1, <1>4, <1>5, PushNone DEF LogsSoFar, Exact
<1>7. CallWithinChain'
  <2> DEFINE h == head'
  <2>1. h < Len(chain) /\ from_block <= h + 1
    <3>1. h \in Nat /\ h < Len(chain) /\ h + 1 >= Len(chain)
      BY <1>3
    <3> HIDE DEF h
    <3> QED
      BY <1>2, <3>1
  <2>2. next <= Len(chain) /\ (resync => from_block = next)
    BY <1>1 DEF Exact, CallWithinChain
  <2> QED
    BY <1>1, <1>2, <2>1, <2>2 DEF CallWithinChain
<1> QED
  BY <1>1, <1>6, <1>7 DEF Exact, ScanOf

LEMMA GetLogsExact ==
    ASSUME NoOverflow, MaxLag = 0, Inv, Exact, GetLogs
    PROVE  Exact'
<1> DEFINE end == WindowEnd(start, chunk_size, head)
<1>1. /\ pc = "scan" /\ start <= head /\ start' = NextStart(end)
      /\ UNCHANGED <<chain, reorgs, pc, from_block, head, resync, next, store>>
  BY DEF GetLogs, chainVars, walletVars
<1>2. PICK n \in NodeHeads : logs' = Push(logs, LogsOf(SubSeq(chain, 1, n + 1), start, end))
  BY DEF GetLogs
<1>3. /\ chain \in Seq(Seq(Events)) /\ Len(chain) \in Nat /\ from_block \in Nat /\ start \in Nat /\ head \in Nat
      /\ head < Len(chain) /\ from_block <= start /\ MaxBlocks \in Nat /\ head < MaxBlocks
  BY <1>1, WindowInChain, WordAssumption DEF Exact, Inv, CallTypeOK, Blocks, CallWithinChain
<1>4. end \in start..head /\ start' = end + 1
  <2>1. start \in 0..MaxBlocks /\ head \in 0..MaxBlocks /\ chunk_size \in ChunkSizes
    BY <1>1, <1>3 DEF Inv, CallTypeOK
  <2> QED
    BY <1>1, <2>1, WindowBounds DEF NextStart
<1>5. SubSeq(chain, 1, n + 1) = chain
  <2>1. n + 1 = Len(chain)
    BY <1>3 DEF NodeHeads, Mined, Blocks
  <2> QED
    BY <1>3, <2>1
<1> HIDE DEF end
<1> DEFINE x == LogsOf(chain, from_block, start - 1)
           y == LogsOf(chain, start, end)
<1>6. start - 1 \in Int /\ end \in Int /\ from_block <= (start - 1) + 1 /\ start - 1 <= end /\ end < Len(chain)
      /\ (start - 1) + 1 = start /\ start - 1 < Len(chain)
  BY <1>1, <1>3, <1>4
<1>7. LogsOf(chain, from_block, end) = x \o y
  <2>1. LogsOf(chain, from_block, end) = LogsOf(chain, from_block, start - 1) \o LogsOf(chain, (start - 1) + 1, end)
    BY <1>3, <1>6, LogsOfJoin
  <2> QED
    BY <1>6, <2>1
<1>8. x \in Seq(Events) /\ y \in Seq(Events)
  BY <1>3, <1>6, LogsOfRange
<1>9. logs' = Push(Push(EmptyLogs, x), y)
  BY <1>1, <1>2, <1>5 DEF Exact, LogsSoFar
<1>10. logs' = Push(EmptyLogs, LogsOf(chain, from_block, end))
  <2> HIDE DEF x, y
  <2>1. Push(EmptyLogs, x \o y) = Push(Push(EmptyLogs, x), y)
    BY <1>8, PushConcat
  <2> QED
    BY <1>7, <1>9, <2>1
<1>11. LogsSoFar'
  <2>1. start' - 1 = end
    BY <1>4, <1>6
  <2> QED
    BY <1>1, <1>10, <2>1 DEF LogsSoFar
<1>12. CallWithinChain'
  BY <1>1 DEF Exact, CallWithinChain
<1> QED
  BY <1>1, <1>11, <1>12 DEF Exact, ScanOf

LEMMA ReturnExact ==
    ASSUME Inv, Exact, Return
    PROVE  Exact'
<1>1. /\ pc = "scan" /\ start > head /\ logs' = Sorted(logs) /\ pc' = "done"
      /\ UNCHANGED <<chain, reorgs, from_block, head, resync, next, store>>
  BY DEF Return, chainVars, walletVars
<1>2. /\ chain \in Seq(Seq(Events)) /\ LeavesNumbered(chain)
      /\ Len(chain) \in Nat /\ from_block \in Nat /\ start \in Nat /\ head \in Nat
      /\ head < Len(chain) /\ from_block <= start /\ start <= Len(chain)
      /\ start - 1 \in Int /\ from_block <= (start - 1) + 1 /\ start - 1 < Len(chain)
  <2>1. /\ chain \in Seq(Seq(Events)) /\ LeavesNumbered(chain)
        /\ Len(chain) \in Nat /\ from_block \in Nat /\ start \in Nat /\ head \in Nat
        /\ head < Len(chain)
    BY <1>1, WordAssumption DEF Exact, Inv, CallTypeOK, Blocks, CallWithinChain
  <2>2. from_block <= start /\ start <= Len(chain)
    BY <1>1, WindowInChain
  <2>3. start - 1 \in Int /\ from_block <= (start - 1) + 1 /\ start - 1 < Len(chain)
    BY <2>1, <2>2
  <2> QED
    BY <2>1, <2>2, <2>3
<1>3. logs = Push(EmptyLogs, LogsOf(chain, from_block, start - 1))
  BY <1>1 DEF Exact, LogsSoFar
<1>4. logs' = logs
  <2>1. Sorted(Push(EmptyLogs, LogsOf(chain, from_block, start - 1))) = Push(EmptyLogs, LogsOf(chain, from_block, start - 1))
    BY <1>2, RangeIsSorted
  <2> QED
    BY <1>1, <1>3, <2>1
<1>5. LogsOf(chain, from_block, start - 1) = LogsOf(chain, from_block, head)
  <2>1. CASE from_block <= head
    <3>1. start = head + 1
      BY <1>1, <1>2, <2>1 DEF Inv, ReadSoFar
    <3>2. start - 1 = head
      BY <1>2, <3>1
    <3> QED
      BY <3>2
  <2>2. CASE ~(from_block <= head)
    <3>1. start = from_block
      BY <1>1, <2>2 DEF Inv, ReadSoFar
    <3>2. head < from_block /\ start - 1 < from_block /\ head \in Int
      BY <1>2, <2>2, <3>1
    <3>3. LogsOf(chain, from_block, head) = <<>>
      BY <1>2, <3>2, LogsOfNone
    <3>4. LogsOf(chain, from_block, start - 1) = <<>>
      BY <1>2, <3>2, LogsOfNone
    <3> QED
      BY <3>3, <3>4
  <2> QED
    BY <2>1, <2>2
<1>6. (pc = "done" => logs = ScanOf(from_block, head))'
  BY <1>1, <1>3, <1>4, <1>5 DEF ScanOf
<1>7. CallWithinChain'
  BY <1>1 DEF Exact, CallWithinChain
<1>8. LogsSoFar'
  BY <1>1 DEF LogsSoFar
<1> QED
  BY <1>1, <1>2, <1>6, <1>7, <1>8 DEF Exact, ScanOf

LEMMA MergeExact ==
    ASSUME Inv, Exact, Merge
    PROVE  Exact'
<1>1. /\ pc = "done" /\ resync /\ pc' = "idle"
      /\ store' = [f \in DOMAIN store |-> store[f] \o logs[f]]
      /\ next' = head + 1
      /\ UNCHANGED <<chain, reorgs>>
  BY DEF Merge, CallEnds, CursorAfter, chainVars
<1>2. /\ chain \in Seq(Seq(Events)) /\ Len(chain) \in Nat /\ next \in Nat /\ head \in Nat
      /\ head < Len(chain) /\ from_block = next /\ next <= head + 1 /\ next <= Len(chain)
  BY <1>1, WordAssumption DEF Exact, Inv, CallTypeOK, Blocks, CallWithinChain
<1> DEFINE x == LogsOf(chain, 0, next - 1)
           y == LogsOf(chain, next, head)
<1>3. store = Push(EmptyLogs, x) /\ logs = Push(EmptyLogs, y)
  BY <1>1, <1>2 DEF Exact, ScanOf
<1>4. /\ 0 \in Nat /\ next - 1 \in Int /\ head \in Int /\ 0 <= (next - 1) + 1 /\ next - 1 <= head
      /\ (next - 1) + 1 = next /\ next - 1 < Len(chain)
  BY <1>2
<1>5. x \in Seq(Events) /\ y \in Seq(Events)
  BY <1>2, <1>4, LogsOfRange
<1>6. LogsOf(chain, 0, head) = x \o y
  <2>1. LogsOf(chain, 0, head) = LogsOf(chain, 0, next - 1) \o LogsOf(chain, (next - 1) + 1, head)
    BY <1>2, <1>4, LogsOfJoin
  <2> QED
    BY <1>4, <2>1
<1> HIDE DEF x, y
<1>7. /\ store \in Logs(Events) /\ logs \in Logs(Events)
      /\ Push(EmptyLogs, x \o y) = Joined(store, logs)
  <2>1. EmptyLogs \in Logs(Events)
    BY DEF Logs, EmptyLogs
  <2>2. store \in Logs(Events) /\ logs \in Logs(Events)
    BY <1>3, <1>5, <2>1, PushAdds
  <2>3. Push(store, y) = Joined(store, logs)
    BY <1>3, <1>5, <2>2, PushAdds
  <2>4. Push(EmptyLogs, x \o y) = Push(Push(EmptyLogs, x), y)
    BY <1>5, PushConcat
  <2> QED
    BY <1>3, <2>2, <2>3, <2>4
<1>8. store' = Joined(store, logs)
  BY <1>1, <1>7 DEF Logs, Joined
<1>9. next' - 1 = head
  BY <1>1, <1>2
<1>10. (store = ScanOf(0, next - 1))'
  BY <1>1, <1>6, <1>7, <1>8, <1>9 DEF ScanOf
<1>11. CallWithinChain' /\ LogsSoFar'
  BY <1>1, <1>2 DEF CallWithinChain, LogsSoFar
<1> QED
  BY <1>1, <1>2, <1>10, <1>11 DEF Exact, ScanOf

LEMMA InitExact ==
    ASSUME Init
    PROVE  Exact
<1>1. /\ chain = << <<>> >> /\ pc = "idle" /\ next = 0 /\ store = EmptyLogs
  BY DEF Init
<1>2. chain \in Seq(Seq(Events)) /\ Len(chain) = 1
  BY <1>1
<1>3. LeavesNumbered(chain)
  <2>1. FlattenSeq(chain) = <<>>
    <3>1. <<>> \in Seq(Seq(Events)) /\ <<>> \in Seq(Events) /\ chain = Append(<<>>, <<>>) /\ <<>> \o <<>> = <<>>
      BY <1>1
    <3> QED
      BY <3>1, FlattenOne, FlattenNone
  <2>2. LeavesOf(FlattenSeq(chain)) = <<>>
    BY <2>1, PushNone DEF LeavesOf, EmptyLogs
  <2> QED
    BY <2>2 DEF LeavesNumbered
<1>4. store = ScanOf(0, next - 1)
  <2>1. 0 \in Nat /\ next - 1 \in Int /\ next - 1 < Len(chain) /\ next - 1 < 0
    BY <1>1, <1>2
  <2>2. LogsOf(chain, 0, next - 1) = <<>>
    BY <1>2, <2>1, LogsOfNone
  <2> QED
    BY <1>1, <2>2, PushNone DEF ScanOf
<1>5. CallWithinChain /\ LogsSoFar
  BY <1>1, <1>2 DEF CallWithinChain, LogsSoFar, Init
<1> QED
  BY <1>1, <1>2, <1>3, <1>4, <1>5 DEF Exact

LEMMA StepExact ==
    ASSUME NoOverflow, MaxLag = 0, Inv, Exact, [Next]_vars, ~Reorg
    PROVE  Exact'
<1>1. CASE CallRange
  <2>1. PICK from \in Mined, to \in {NoBlock} \union Mined : Begin(from, to)
    BY <1>1 DEF CallRange
  <2>2. from \in 0..Len(chain)
    <3>1. Len(chain) \in Nat
      BY DEF Exact
    <3> QED
      BY <3>1 DEF Mined, Blocks
  <2>3. ~resync'
    BY <1>1 DEF CallRange
  <2> QED
    BY <2>1, <2>2, <2>3, BeginExact
<1>2. CASE CallResync
  <2>1. Begin(next, NoBlock)
    BY <1>2 DEF CallResync
  <2>2. next \in 0..Len(chain)
    <3>1. Len(chain) \in Nat /\ next \in Nat /\ next <= Len(chain)
      BY WordAssumption DEF Exact, CallWithinChain, Inv, CallTypeOK
    <3> QED
      BY <3>1
  <2> QED
    BY <2>1, <2>2, BeginExact
<1>3. CASE RequestFails
  <2>1. /\ pc' = "error" /\ UNCHANGED <<chain, reorgs, from_block, start, head, logs, resync, next, store>>
    BY <1>3 DEF RequestFails, chainVars, walletVars
  <2> QED
    BY <2>1 DEF Exact, CallWithinChain, LogsSoFar, ScanOf
<1>4. CASE Leave
  <2>1. /\ pc' = "idle" /\ UNCHANGED <<chain, reorgs, next, store>>
    BY <1>4 DEF Leave, CallEnds, chainVars, walletVars
  <2> QED
    BY <2>1 DEF Exact, CallWithinChain, LogsSoFar, ScanOf
<1>5. CASE UNCHANGED vars
  BY <1>5 DEF vars, chainVars, callVars, walletVars, Exact, CallWithinChain, LogsSoFar, ScanOf
<1> QED
  BY <1>1, <1>2, <1>3, <1>4, <1>5, MineExact, GetBlockNumberExact, GetLogsExact, ReturnExact, MergeExact
     DEF Next, ScanPool, Proceed

ExactInv == Inv /\ ExactSoFar

LEMMA ExactParts ==
    ExactSoFar <=> /\ chain \in Seq(Seq(Events))
                   /\ reorgs \in Nat
                   /\ reorgs = 0 /\ MaxLag = 0 => Exact
BY Zenon DEF ExactSoFar, Exact, ScanExact, ResyncExact, ScanOf

LEMMA InitExactInv == ASSUME NoOverflow PROVE Init => ExactInv
<1> SUFFICES ASSUME Init PROVE ExactInv
  OBVIOUS
<1>1. Inv
  BY InitInv
<1>2. Exact /\ reorgs = 0
  BY InitExact DEF Init
<1> QED
  BY <1>1, <1>2, ExactParts DEF ExactInv, Exact

\* The chain's events stay well formed when blocks are orphaned.
LEMMA ChainOfEvents ==
    ASSUME chain \in Seq(Seq(Events)), [Next]_vars
    PROVE  chain' \in Seq(Seq(Events))
<1>1. CASE Mine
  <2>1. PICK block \in Seq(Events) : chain' = Append(chain, block)
    <3>1. CASE chain' = Append(chain, <<>>)
      <4>1. <<>> \in Seq(Events)
        OBVIOUS
      <4> QED
        BY <3>1, <4>1
    <3>2. CASE chain' # Append(chain, <<>>)
      <4> DEFINE size == Len(LeavesOf(FlattenSeq(chain)))
      <4>1. size \in Nat
        <5>1. FlattenSeq(chain) \in Seq(Events)
          BY FlattenIsSeq
        <5>2. LeavesOf(FlattenSeq(chain)) \in Seq(Events)
          BY <5>1, LeavesConcat
        <5> QED
          BY <5>2
      <4>2. PICK tx \in Txs : chain' = Append(chain, EventsOf(tx, size))
        BY <1>1, <3>2 DEF Mine
      <4> HIDE DEF size
      <4> QED
        BY <4>1, <4>2, BlockEvents
    <3> QED
      BY <3>1, <3>2
  <2> QED
    BY <2>1
<1>2. CASE Reorg
  <2>1. Len(chain) > 1 /\ chain' = SubSeq(chain, 1, Len(chain) - 1)
    BY <1>2 DEF Reorg, Front
  <2> QED
    BY <2>1
<1>3. CASE ~Mine /\ ~Reorg
  <2>1. chain' = chain
    BY <1>3 DEF Next, ScanPool, Proceed, CallRange, CallResync, Begin, GetBlockNumber, GetLogs,
                Return, RequestFails, Merge, Leave, chainVars, vars
  <2> QED
    BY <2>1
<1> QED
  BY <1>1, <1>2, <1>3

LEMMA NextExactInv == ASSUME NoOverflow PROVE ExactInv /\ [Next]_vars => ExactInv'
<1> SUFFICES ASSUME ExactInv, [Next]_vars PROVE ExactInv'
  OBVIOUS
<1>1. Inv'
  BY NextInv DEF ExactInv
<1>2. /\ chain \in Seq(Seq(Events)) /\ reorgs \in Nat
      /\ reorgs = 0 /\ MaxLag = 0 => Exact
  BY ExactParts DEF ExactInv
<1>3. chain' \in Seq(Seq(Events))
  BY <1>2, ChainOfEvents
<1>4. CASE Reorg
  <2>1. reorgs' \in Nat /\ reorgs' # 0
    BY <1>2, <1>4 DEF Reorg
  <2>2. ExactSoFar'
    BY <1>3, <2>1, Zenon DEF ExactSoFar, ScanExact, ResyncExact
  <2> QED
    BY <1>1, <2>2 DEF ExactInv
<1>5. CASE ~Reorg
  <2>1. reorgs' = reorgs
    BY <1>5 DEF Next, Mine, ScanPool, Proceed, CallRange, CallResync, Begin, GetBlockNumber, GetLogs,
                Return, RequestFails, Merge, Leave, chainVars, vars
  <2>2. reorgs = 0 /\ MaxLag = 0 => Exact'
    BY <1>2, <1>5, StepExact DEF ExactInv
  <2>3. ExactSoFar'
    BY <1>2, <1>3, <2>1, <2>2, Zenon DEF ExactSoFar, Exact, ScanExact, ResyncExact, ScanOf
  <2> QED
    BY <1>1, <2>3 DEF ExactInv
<1> QED
  BY <1>4, <1>5

\* While no block was orphaned and the nodes keep up, a scan returns the pool's
\* logs of its range, each once and in order (sync.rs:150-248), although blocks
\* arrive between its requests: for every chain, every mix of transactions in
\* it and every chunk size that NoOverflow allows.
THEOREM ScansAreExact ==
    ASSUME NoOverflow PROVE Spec => []ScanExact
<1>1. Init => ExactInv
  BY InitExactInv
<1>2. ExactInv /\ [Next]_vars => ExactInv'
  BY NextExactInv
<1>3. ExactInv => ScanExact
  BY DEF ExactInv, ExactSoFar
<1> QED
  BY <1>1, <1>2, <1>3, PTL DEF Spec

\* Under the same conditions the incremental scans that a wallet merges from its
\* cursor on (sync.rs:68-69) are the chain's logs up to the cursor, whatever
\* scans failed or were given up in between.
THEOREM ResyncsAreExact ==
    ASSUME NoOverflow PROVE Spec => []ResyncExact
<1>1. Init => ExactInv
  BY InitExactInv
<1>2. ExactInv /\ [Next]_vars => ExactInv'
  BY NextExactInv
<1>3. ExactInv => ResyncExact
  BY DEF ExactInv, ExactSoFar
<1> QED
  BY <1>1, <1>2, <1>3, PTL DEF Spec
=============================================================================
