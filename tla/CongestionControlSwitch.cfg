CONSTANTS
    Types = {"reno", "pico"}
    Switches <- RenoToPico
    MaxPn = 4
    MaxMarks = 2
    MaxCwnd = 10
    InitCwnd = 4
    MinCwnd = 2
    JumpCwnds = {9}
    RapidStart = {TRUE, FALSE}
    Abba = TRUE
    L4s = TRUE
SPECIFICATION Spec
INVARIANT IntervalInitialised
CHECK_DEADLOCK FALSE
