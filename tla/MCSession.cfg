SPECIFICATION FairSpec
CONSTANTS
    Keys <- OneKey
    Starters <- TwoStarters
    Stoppers <- TwoStoppers
    MaxBringUps = 3
    None = None
INVARIANTS
    SocketOwned
    SignalledLossTold
    RestoredOrListed
PROPERTIES
    LossLeadsToBringUp
CHECK_DEADLOCK FALSE
