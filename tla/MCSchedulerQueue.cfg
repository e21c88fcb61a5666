SPECIFICATION FairSpec
CONSTANTS
    Requests <- QueueRequests
    Groups <- QueueGroups
    Historical = "historical"
    GroupOf <- QueueGroupOf
    Priority <- QueuePriority
    Limit <- QueueLimit
    Window = 2
    Retries = 1
    QueueTimeout = 2
    MaxPause = 3
    PauseMargin = 1
    RetryAfters <- SomeRetryAfters
    Horizon = 1
    Lag = 0
INVARIANTS
    WindowLimit
    NoStrandedRequest
PROPERTIES
    PauseHonoured
    QueuedSettles
CHECK_DEADLOCK FALSE
