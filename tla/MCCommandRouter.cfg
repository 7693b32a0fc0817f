SPECIFICATION FairSpec
CONSTANTS
    t1 = t1
    t2 = t2
    Threads <- TwoThreads
    MaxTokens = 3
    OpaqueTokens <- SecondIsOpaque
INVARIANTS TypeOK NoTokenComesBack NoForeignToken
PROPERTIES RetryUsesAnotherToken CloseQuiesces OperationEnds
CHECK_DEADLOCK FALSE
