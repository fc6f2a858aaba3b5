SPECIFICATION AdvanceSpec
CONSTANTS
    None = None
    code = code
    review = review
    finding = finding
    Steps <- MCSteps
    Findings = {finding}
    FindingSets = {{finding}}
    Pairs <- MCPairs
    Keys <- MCKeys
    StartRequests = {}
    UpdateRequests = {}
    SkipRequests = {}
    CapRequests = {}
    BlockRequests = {}
    ReportRequests = {}
    ArtifactRequests = {}
    MaxAttempts = 4
    MaxEntries = 5
    MaxStale = 0
    Workflows <- RoutingWorkflows
    ReadyPair <- MCReady
    ChangesPair <- MCChanges
    PassedPair <- MCPassed
    FailedPair <- MCFailed
    Commands = {"c1"}
    MayCancel = FALSE
    MayTimeOut = FALSE
    MaxCrashes = 0
    LiveWorkflows <- LiveSplit
    MaxVersions = 2
    RefreshMayFail = TRUE
    BlockedPairs <- MCBlockedPairs
    FailedPairs <- MCFailedPairs
    MaxSteps = 2
INVARIANTS RunStaysLoadable OneBlockAtATime SoftCapWarned CountsFollowRecorded StuckOnlyUndeclared
PROPERTIES RetriesBounded HardCapHolds NoOutcomePassedOver NoUnreviewedCorrection StopReasonsTrue GoesOnAfterDone
CHECK_DEADLOCK FALSE
