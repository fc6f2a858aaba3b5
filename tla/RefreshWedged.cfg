SPECIFICATION Spec
CONSTANTS
    Procs = {p1, p2}
    Starter = p1
    NoOne = NoOne
    Absent = Absent
    StartSteps <- MCStartSteps
    Commands = {"report", "refresh"}
    MaxOps = 3
    MaxFaults = 1
    MaxCrashes = 1
INVARIANT RefreshPossible
CHECK_DEADLOCK FALSE
