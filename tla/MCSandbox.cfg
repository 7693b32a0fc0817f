SPECIFICATION SandboxSpec
CONSTANTS
    MaxIn = 4
    MaxOut = 3
    MaxRead = 4
    Sizes = {1, 2}
    ImageTags = {"t1"}
    Commands = {"run"}
    LocalCopies = {"copy"}
    MaxLayers = 3
    MaxImages = 4
    MaxSandboxes = 3
    MaxStamp = 2
    PageSize = 2
    Retagged = {2}
    Results = {"Success", "Timeout"}
    MaxAttempts = 2
    MaxWrites = 1
    MaxChunks = 3
    MaxLog = 3
    WaitDeadlines = {0, 1}
INVARIANTS SandboxTypeOK StreamsAreIntact BuiltAsDescribed ReportsHold ListMissesOnlyTies WritesAreInOrder
PROPERTIES ImplementsByteStreams SandboxEnds
CHECK_DEADLOCK FALSE
