SPECIFICATION FairSpec
CONSTANTS
    p1 = p1
    g1 = g1
    g2 = g2
    i1 = i1
    Producers <- OneProducer
    Getters <- OneGetter
    Iterators <- OneIterator
    MaxPuts = 2
    MaxStored = 3
    GetSize = 1
    Capacity = 3
    Timeouts = {}
    ItemPolls = {0, 3}
    MaxPoll = 2
    FirstBackoff = 1
    MaxBackoff = 2
INVARIANTS TimeoutsAreKept NothingOvertakes
PROPERTIES IteratesFaithfully ImplementsFifoQueue IterateEnds
CHECK_DEADLOCK FALSE
