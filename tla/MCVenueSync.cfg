SPECIFICATION Spec
CONSTANTS
    Cases <- MCCases
    Prices <- MCPrices
    Moves <- MCMoves
    Volume = 2
INVARIANTS
    BookMatchesVenue
    NothingRefused
    MassStatusAddsNothing
    ToldOnceAndRight
CHECK_DEADLOCK FALSE
