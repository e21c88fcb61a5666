SPECIFICATION AccountPartsSpec
CONSTANTS
    MaxWrites = 4
    MaxConnections = 3
    None = None
    Clients = {c1, c2}
    MaxSessions = 2
    MaxCancels = 2
    MaxPairs = 2
    MaxLoops = 2
    Traded = "traded"
    Leg = "leg"
    Preparers = {d1, d2}
    MaxChanges = 1
    MaxLoads = 2
    MaxTries = 2
    MaxJobs = 6
    MaxErrors = 1
SYMMETRY PreparersAlike
INVARIANTS
    SettledPairIsNewest
    AuthenticatedWithHeldPair
    SessionOwned
    VenueDataCurrent
CHECK_DEADLOCK FALSE
