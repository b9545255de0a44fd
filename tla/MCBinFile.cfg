CONSTANTS
    Files <- MCFiles
    WitnessFiles <- MCWitnessFiles
    KeyFiles <- MCKeyFiles
    Wtns = 1
    Zkey = 2
    NotText = 3
    Text = {1, 2}
    WordSize = 256
    CountSize = 64
    Base = 4
    FieldOrder = 7
    MaxTail = 5
SPECIFICATION Spec
CHECK_DEADLOCK FALSE
INVARIANTS
    TypeOK
    WrittenIsReadBack
    TornFileNotMistaken
