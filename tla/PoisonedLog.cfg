SPECIFICATION CommandSpec
CONSTANTS
    None = None
    code = code
    review = review
    finding = finding
    Steps <- MCSteps
    Findings = {finding}
    FindingSets = {{finding}}
    Pairs <- MCPairs
    Keys <- MCKeys
    StartRequests = {}
    UpdateRequests = {}
    SkipRequests = {}
    CapRequests = {}
    BlockRequests = {}
    ReportRequests = {}
    ArtifactRequests = {}
    MaxAttempts = 3
    MaxEntries = 4
    MaxStale = 0
    Workflows <- ReviewWorkflows
    ReadyPair <- MCReady
    ChangesPair <- MCChanges
    PassedPair <- MCPassed
    FailedPair <- MCFailed
    Commands = {"c1", "c2"}
    MayCancel = FALSE
    MayTimeOut = FALSE
    MaxCrashes = 0
INVARIANTS RunStaysLoadable
CHECK_DEADLOCK FALSE
