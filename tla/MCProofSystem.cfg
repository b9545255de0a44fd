CONSTANTS
    Privates = 2
    Torn = Torn
    None = None
SPECIFICATION Spec
INVARIANTS
    TypeOK
    ProvesWhatMatches
    VerdictsRight
    ChainAgrees
