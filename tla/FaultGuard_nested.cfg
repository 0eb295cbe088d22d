SPECIFICATION Spec
CONSTANTS
    Main = main  Worker = worker  Third = third
    Threads = {main, worker, third}
    Depths <- OnlyNested
    NSlots = 2
    Signals = {segv, bus}
    SelfKnown = TRUE
    ThreadExit = TRUE
    Unblocks = TRUE
    Overlaps = {FALSE}
    MaxFaults = 1
INVARIANTS ArmedIsCaught
