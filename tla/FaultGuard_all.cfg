SPECIFICATION Spec
CONSTANTS
    Main = main  Worker = worker  Third = third
    Threads = {main, worker, third}
    Depths <- Every
    NSlots = 2
    Signals = {segv, bus}
    SelfKnown = TRUE
    ThreadExit = TRUE
    Unblocks = TRUE
    Overlaps = {TRUE, FALSE}
    MaxFaults = 2
INVARIANTS OneSlotEach PadsAreOpen LandsAtHome FlatArmsAreCaught
CHECK_DEADLOCK FALSE
