SPECIFICATION ServicesSpec
CONSTANTS
    c1 = c1
    c2 = c2
    Callers = {c1, c2}
    ObjectNames = {"n"}
    Environments = {"main", "dev"}
    MaxObjects = 2
    Sleep = 2
    MaxClones = 2
    MaxBeats = 2
    OptionsUsed <- MCBounded
    MaxTime = 8
    Byte = 4
    PkValues <- MCValues
    Sharing <- MCShare
    PkPrograms <- MCPrograms
    U32 = 8
    ReqOptions <- MCServiceOptions
    ReqSandboxes <- MCSandboxParams
    ReqTimeouts = {0, 1, 4, 16}
    ReqSchemas <- MCSchemas
    ReqValues <- MCParameters
    ReqPolicies <- MCPolicies
    ReqMounts <- MCMounts
    MaxMerges = 2
    CfgFiles <- MCFiles
    CfgNames = {1, 3}
    CfgValues = {1, 2}
    CfgFields <- MCFields
    CfgChanges = 1
    MaxTries = 4
    OutputsTimeout = 2
    AwaitTimeouts = {0, 3}
INVARIANTS ServicesTypeOK AnswersAreOfTheTarget DeadlineIsKept RoundTrips ParametersSurvive
PROPERTIES OnlyWhatWasFound CloseStopsTheTask CallsAndAwaitsEnd
CHECK_DEADLOCK FALSE
