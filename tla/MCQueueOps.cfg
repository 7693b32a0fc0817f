SPECIFICATION FairSpec
CONSTANTS
    p1 = p1
    g1 = g1
    g2 = g2
    i1 = i1
    Producers <- OneProducer
    Getters <- TwoGetters
    Iterators = {}
    MaxPuts = 1
    MaxStored = 2
    GetSize = 1
    Capacity = 1
    Timeouts = {3}
    ItemPolls = {}
    MaxPoll = 2
    FirstBackoff = 1
    MaxBackoff = 2
INVARIANTS TypeOK TimeoutsAreKept
PROPERTY CallsEnd
CHECK_DEADLOCK FALSE
