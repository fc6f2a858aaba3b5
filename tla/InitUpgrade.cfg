SPECIFICATION Spec
CONSTANTS
    Absent = Absent
    Torn = Torn
    Config = Config
    Lock = Lock
    Gitignore = Gitignore
    Instructions = Instructions
    planner = planner
    codex = codex
    bugfix = bugfix
    review = review
    Managed <- MCManaged
    PathOrder <- MCPathOrder
    InitOrder <- MCInitOrder
    Projects <- MCProjects
    MaxRelease = 2
    MaxFaults = 1
    MaxCrashes = 1
INVARIANTS TypeOK PlanForetells CleanMeansCurrent ReportMatchesDisk OwnershipKept
PROPERTIES EditsPreserved
CHECK_DEADLOCK FALSE
