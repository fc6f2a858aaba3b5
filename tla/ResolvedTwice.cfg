SPECIFICATION CommandSpec
CONSTANTS
    None = None
    code = code
    review = review
    finding = finding
    Steps <- MCSteps
    Findings = {finding}
    FindingSets = {{finding}}
    Pairs <- MCPairs
    Keys <- MCKeys
    StartRequests = {}
    UpdateRequests = {}
    SkipRequests = {}
    CapRequests = {}
    BlockRequests = {}
    ReportRequests = {}
    ArtifactRequests = {}
    MaxAttempts = 2
    MaxEntries = 6
    MaxStale = 0
    Workflows <- SkipWorkflows
    ReadyPair <- MCReady
    ChangesPair <- MCChanges
    PassedPair <- MCPassed
    FailedPair <- MCFailed
    Commands = {"c1"}
    MayCancel = FALSE
    MayTimeOut = FALSE
    MaxCrashes = 0
PROPERTIES ResolvedOutcomeStaysPut
CHECK_DEADLOCK FALSE
