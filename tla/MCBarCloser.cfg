SPECIFICATION Spec
CONSTANTS
    Period = 2
    Offset = 1
    Grace = 1
    Retries = 1
    MaxTime = 5
    MaxTrades = 3
    MaxLosses = 1
    MaxFailures = 1
INVARIANTS
    NeverOvertaken
    NothingMissed
    NothingStuck
CHECK_DEADLOCK FALSE
