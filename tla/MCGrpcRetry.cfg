SPECIFICATION FairSpec
CONSTANTS
    c1 = c1
    Calls <- MCOneCall
    OtherCodes = {"ResourceExhausted"}
    MaxRetries = 5
    BaseDelay = 1
    MaxDelay = 10
    BackoffFactor = 2
INVARIANTS TypeOK ErrorIsJustified BackoffSchedule
PROPERTIES ImplementsRpcCall CallReturns
CHECK_DEADLOCK FALSE
