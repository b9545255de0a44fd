SPECIFICATION Spec
CONSTANTS
    Txs <- TwoTxs
    KindOf <- Kinds2
    ChunkSizes <- OneAndThree
    WordSize = 16
    MaxBlocks = 3
    MaxReorgs = 0
    MaxLag = 1
    MaxMerges = 0
    NoBlock = NoBlock
INVARIANT
    VerifiedLogsComplete
