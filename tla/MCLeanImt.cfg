CONSTANTS
    Leaves <- LeavesAndZero
    MAX_TREE_DEPTH = 3
    MaxSize = 9
    MaxCompared = 6
SPECIFICATION TreeSpec
CHECK_DEADLOCK FALSE
INVARIANTS
    RootIsMerkleRoot
    ProofsVerify
    IndexAndDepthBind
    PaddedProofsBind
    RootBindsLeaves
