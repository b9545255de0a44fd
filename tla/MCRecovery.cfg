CONSTANTS
    Me = Me
    You = You
    Accounts <- MCAccounts
    account = Me
    gap_limit = 2
    FieldOrder = 4
    MaxWithdrawals = 3
    Logs <- MCLogs
SPECIFICATION Spec
INVARIANTS
    TypeOK
    EveryDepositFound
    ChainsComplete
    OutcomeIsContract
PROPERTIES
    Terminates
