SPECIFICATION Spec
CONSTANTS
    p1 = p1
    g1 = g1
    g2 = g2
    i1 = i1
    Producers <- OneProducer
    Getters = {}
    Iterators = {}
    MaxPuts = 1
    MaxStored = 2
    GetSize = 1
    Capacity = 2
    Timeouts = {1}
    ItemPolls = {}
    MaxPoll = 2
    FirstBackoff = 1
    MaxBackoff = 4
INVARIANTS PutAddsASingleItem
CHECK_DEADLOCK FALSE
