SPECIFICATION Spec
CONSTANTS
    None = None
    code = code
    review = review
    finding = finding
    Steps = {code, review}
    Findings = {finding}
    Pairs <- MCPairs
    Keys <- MCKeys
    StartRequests <- MCStartRequests
    UpdateRequests <- MCUpdateRequests
    SkipRequests <- MCSkipRequests
    CapRequests <- MCCapRequests
    BlockRequests <- MCBlockRequests
    ReportRequests <- MCReportRequests
    ArtifactRequests <- MCArtifactRequests
    MaxAttempts = 2
    MaxEntries = 3
    MaxStale = 4
INVARIANTS TypeOK HistoryOK CountsMatchEntries
PROPERTIES OutcomesFinal OnlyFindingBlockBreaksLog OverrideSpentOnTarget ImplementsLifecycle LiveAgreesWithReplay
CHECK_DEADLOCK FALSE
