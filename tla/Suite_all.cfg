SPECIFICATION SpecTwice
CONSTANTS
    Suites <- Tables
    Control = "control"
    Granted = "output"
    Guards = {TRUE, FALSE}
    MaxAbsent = 1
    Compared <- Twice
INVARIANT FrontierHolds
INVARIANT AttemptsAreBacked
INVARIANT WholeReportVerifies
INVARIANT SectionsAddUp
INVARIANT DeathIsNamed
INVARIANT FrontierIsReal
INVARIANT GateIsRight
CHECK_DEADLOCK FALSE
