CONSTANTS
    Refs = {"v1.2.1", "main"}
    Branches = {"main"}
    Versions = {"v0.3.0", "v0.4.0"}
    MaxPushes = 1
    MaxRuns = 3
    NoFile = NoFile
    Torn = Torn
SPECIFICATION Spec
CHECK_DEADLOCK FALSE
INVARIANTS
    TypeOK
    UpToDateIsOneBuild
    StagedIsFresh
