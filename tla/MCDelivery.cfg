SPECIFICATION FairSpec
CONSTANTS
    MaxMade = 4
    MaxDetaches = 1
    MaxReloads = 1
INVARIANTS
    ToldInOrder
    AnswersKept
PROPERTIES
    OutboxDelivered
CHECK_DEADLOCK FALSE
