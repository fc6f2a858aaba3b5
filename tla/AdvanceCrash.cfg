SPECIFICATION FairAdvanceSpec
CONSTANTS
    None = None
    code = code
    review = review
    finding = finding
    Steps <- MCSteps
    Findings = {finding}
    FindingSets = {}
    Pairs <- MCPairs
    Keys <- MCKeys
    StartRequests = {}
    UpdateRequests = {}
    SkipRequests = {}
    CapRequests = {}
    BlockRequests = {}
    ReportRequests = {}
    ArtifactRequests = {}
    MaxAttempts = 2
    MaxEntries = 4
    MaxStale = 0
    Workflows <- MixedWorkflows
    ReadyPair <- MCReady
    ChangesPair <- MCChanges
    PassedPair <- MCPassed
    FailedPair <- MCFailed
    Commands = {"c1"}
    MayCancel = TRUE
    MayTimeOut = TRUE
    MaxCrashes = 1
    LiveWorkflows <- LiveSplit
    MaxVersions = 1
    RefreshMayFail = FALSE
    BlockedPairs <- MCBlockedPairs
    FailedPairs <- MCFailedPairs
    MaxSteps = 1
INVARIANTS AdvanceTypeOK GivenUpWorkersAreDead
PROPERTIES RecoveryVerified AttemptEnds AdvanceReturns
CHECK_DEADLOCK FALSE
