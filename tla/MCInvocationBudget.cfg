SPECIFICATION Spec
CONSTANTS
    o = o
    g1 = g1
    Owner = o
    Getters = {}
    MaxSystemRetries = 8
    OutputsTimeout = 2
    Timeouts = {0, 3}
    RpcEffects = 2
    MaxExecutions = 3
INVARIANT AtMostMaxRetries
CHECK_DEADLOCK FALSE
