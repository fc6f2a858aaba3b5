SPECIFICATION FairSpec
CONSTANTS
    Procs = {p1, p2}
    Starter = p1
    NoOne = NoOne
    Absent = Absent
    StartSteps <- MCStartSteps
    Commands = {"report", "refresh"}
    MaxOps = 3
    MaxFaults = 1
    MaxCrashes = 1
INVARIANTS TypeOK OneInside PublishedLoads NothingOverwritten PointerComplete FailureLeavesNothing ReportedOnce
PROPERTIES EveryoneReturns
CHECK_DEADLOCK FALSE
