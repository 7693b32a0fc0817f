SPECIFICATION PkSpec
CONSTANTS
    Byte = 4
    PkValues <- MCValues
    Sharing <- MCShareLists
    PkPrograms = {}
INVARIANT RoundTrips
CHECK_DEADLOCK FALSE
