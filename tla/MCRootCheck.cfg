CONSTANTS
    ROOT_HISTORY_SIZE = 4
    Targets = {0, 1, 2, 3, 5, 9, 12}
    MaxRoots = 10
SPECIFICATION Spec
CHECK_DEADLOCK FALSE
INVARIANTS
    TypeOK
    TrueIsSound
    FalseIsSound
PROPERTIES
    Returns
