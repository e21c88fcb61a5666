SPECIFICATION MCSpec
CONSTANTS
    AmendAttempts = 2
    CorrectionRounds = 2
    MaxCommands = 2
    MaxMoves = 1
    MaxTimeouts = 2
    MaxLosses = 1
INVARIANTS
    AnswersTrue
    LegsShowBroker
    
CHECK_DEADLOCK FALSE
