SPECIFICATION Spec
CONSTANTS
    Week = 2
    PageSize = 2
    MaxPages = 2
    StartWindows = 1
    MaxWindows = 3
    Grace = 1
    Skew = 1
    Checkpoints <- MCCheckpoints
    Start = 3
    MaxNow = 6
    Accounts <- MCAccounts
    MaxChanges = 1
    MaxLosses = 1
    MaxFaults = 1
INVARIANTS
    DealListWhole
    KeyTrue
PROPERTIES
    KeyNeverGoesBack
CHECK_DEADLOCK FALSE
