CONSTANTS
    alice = alice
    phone = phone
    laptop = laptop
    Accounts <- OneAccount
    Devices = {phone, laptop}
    accountOf <- BothPhones
    gap_limit = 2
    FieldOrder = 11
    ROOT_HISTORY_SIZE = 2
    DepositAmounts = {2}
    WithdrawAmounts = {1, 2}
    MaxDeposits = 2
    MaxWithdrawals = 2
    MaxAspUpdates = 1
    MaxPending = 1
SPECIFICATION Spec
SYMMETRY Interchangeable
INVARIANTS
    TypeOK
    PlansProvable
    OnlyStalenessRejects
    BooksBalance
    RecoverySound
    NullifiersDistinct
PROPERTIES
    ChangeNoteRecovered
    RecoveryMonotone
    RefinesLedger
