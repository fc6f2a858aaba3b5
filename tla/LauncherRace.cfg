SPECIFICATION CommandSpec
CONSTANTS
    None = None
    code = code
    review = review
    finding = finding
    Steps <- MCSteps
    Findings = {finding}
    FindingSets = {}
    Pairs <- MCPairs
    Keys <- MCKeys
    StartRequests = {}
    UpdateRequests = {}
    SkipRequests = {}
    CapRequests = {}
    BlockRequests = {}
    ReportRequests = {}
    ArtifactRequests = {}
    MaxAttempts = 2
    MaxEntries = 4
    MaxStale = 0
    Workflows <- PlainWorkflows
    ReadyPair <- MCReady
    ChangesPair <- MCChanges
    PassedPair <- MCPassed
    FailedPair <- MCFailed
    Commands = {"c1","c2"}
    MayCancel = FALSE
    MayTimeOut = TRUE
    MaxCrashes = 1
INVARIANTS NoUnrecordedWorker
PROPERTIES EndedByItsOwner
CHECK_DEADLOCK FALSE
