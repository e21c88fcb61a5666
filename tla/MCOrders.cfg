SPECIFICATION BothSpec
CONSTANTS
    LabelMax = 8
    CommentMax = 10
    IdMax = 4
    Symbols <- MCSymbols
    Placed <- MCPlaced
    Changes <- MCChanges
    FirstSpec <- MCFirstSpec
    Specs <- MCSpecs
    Asks <- MCAsks
    Bid = 1099900
    Ask = 1100000
    Slips <- MCSlips
    TraderTexts <- MCTexts
    Moves <- MCMoves
    Lots <- MCLots
    MaxSteps = 2
    MaxModifies = 2
    MaxTroubles = 2
INVARIANTS
    AmendTouchesOnlyAsked
    OrderFollowed
    RestoredAsAsked
    MassStatusWhole
CHECK_DEADLOCK FALSE
