SPECIFICATION AdvanceSpec
CONSTANTS
    None = None
    code = code
    review = review
    finding = finding
    Steps <- MCSteps
    Findings = {finding}
    FindingSets = {{finding}}
    Pairs <- MCPairs
    Keys <- MCKeys
    StartRequests = {}
    UpdateRequests = {}
    SkipRequests = {}
    CapRequests = {}
    BlockRequests = {}
    ReportRequests = {}
    ArtifactRequests = {}
    MaxAttempts = 4
    MaxEntries = 6
    MaxStale = 0
    Workflows <- LoopWorkflows
    ReadyPair <- MCReady
    ChangesPair <- MCChanges
    PassedPair <- MCPassed
    FailedPair <- MCFailed
    Commands = {"c1"}
    MayCancel = FALSE
    MayTimeOut = FALSE
    MaxCrashes = 0
    LiveWorkflows = {}
    MaxVersions = 1
    RefreshMayFail = FALSE
    BlockedPairs <- MCBlockedPairs
    FailedPairs <- MCFailedPairs
    MaxSteps = 2
PROPERTY HardCapStopsBlocked
CHECK_DEADLOCK FALSE
