SPECIFICATION Spec
CONSTANTS
    Calls <- TwoCalls
    SpotConsumers <- OneSpotConsumer
    BarConsumers <- OneBarConsumer
    MaxCalls = 4
    MaxBringUps = 2
INVARIANTS
    CountedIsLive
    HeldIsRestored
CHECK_DEADLOCK FALSE
