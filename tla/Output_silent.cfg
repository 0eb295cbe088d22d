SPECIFICATION Spec
CONSTANTS
    Platforms <- Titles
    Records = 1
    Bytes = 2
INVARIANT ReportGetsOut
CHECK_DEADLOCK FALSE
