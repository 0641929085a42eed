SPECIFICATION FairSpec
CONSTANTS
    Apps = {a1, a2}
    None = None
    MAX_PID = 5
    MAX_FD = 5
    Sleeps = {0, 2}
    Tills = {0, 2}
    Unsupported = TRUE
    UseInvalid = TRUE
    MaxCalls = 2
    Horizon = 2
PROPERTIES
    SleepEnds
    TerminatedIsRemoved
CHECK_DEADLOCK FALSE
