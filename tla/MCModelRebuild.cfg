SPECIFICATION FairSpec
CONSTANTS
    MaxChanges = 2
    MaxLosses = 1
    MaxRebuilds = 3
INVARIANTS
    CompleteIsTrue
    HandedIsKept
PROPERTIES
    HeldThenReleased
CHECK_DEADLOCK FALSE
