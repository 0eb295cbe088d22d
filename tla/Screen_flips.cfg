\* The newer entry points register one buffer.
SPECIFICATION Spec
CONSTANTS
    Platforms <- Newer
    QueueMax = 2
    Sections <- TwoSections
    CheckMax = 2
    PageRows = 1
    SummaryIdle = 2
    DetailIdle = 1
    RepeatDelay = 1
    RepeatEvery = 2
    Inputs <- Presses
    Modes = {"suite"}
INVARIANT FlipsAreRegistered
CHECK_DEADLOCK FALSE
