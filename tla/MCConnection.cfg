SPECIFICATION FairSpec
CONSTANTS
    Requests <- MCRequests
    Resendable <- MCResendable
    Retries = 1
    MaxGeneration = 2
INVARIANTS
    GenerationsApart
PROPERTIES
    KeepsContract
    EveryRequestReturns
CHECK_DEADLOCK FALSE
