SPECIFICATION Spec
CONSTANTS
    Txs <- TwoTxs
    KindOf <- Kinds2
    ChunkSizes <- WholeWord
    WordSize = 16
    MaxBlocks = 3
    MaxReorgs = 0
    MaxLag = 0
    MaxMerges = 0
    NoBlock = NoBlock
INVARIANT
    BlocksReadOnce
