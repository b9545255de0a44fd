CONSTANTS
    Txs <- FourTxs
    KindOf <- Kinds4
    ChunkSizes <- OneAndThree
    WordSize = 16
    MaxBlocks = 4
    MaxReorgs = 1
    MaxLag = 0
    MaxMerges = 2
    NoBlock = NoBlock
SPECIFICATION Spec
INVARIANTS
    TypeOK
    BlocksReadOnce
    ScanExact
    ResyncExact
PROPERTIES
    Terminates
