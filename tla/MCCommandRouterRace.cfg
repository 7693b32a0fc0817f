SPECIFICATION Spec
CONSTANTS
    t1 = t1
    t2 = t2
    Threads <- TwoThreads
    MaxTokens = 3
    OpaqueTokens = {}
PROPERTY RefreshedWhenCloseToExpiry
CHECK_DEADLOCK FALSE
