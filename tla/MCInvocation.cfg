SPECIFICATION FairSpec
CONSTANTS
    o = o
    g1 = g1
    Owner = o
    Getters <- OneGetter
    MaxSystemRetries = 1
    OutputsTimeout = 2
    Timeouts = {0, 3}
    RpcEffects = 2
    MaxExecutions = 3
INVARIANTS TypeOK RetryBudget TimeoutsAreKept
PROPERTIES GetterReturns RemoteReturns
CHECK_DEADLOCK FALSE
