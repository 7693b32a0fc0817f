SPECIFICATION Spec
CONSTANTS
    MaxIn = 1
    MaxOut = 3
    MaxRead = 4
    Sizes = {1, 2}
INVARIANT ReadsTheStream
CHECK_DEADLOCK FALSE
