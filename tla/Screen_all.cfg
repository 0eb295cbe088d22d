SPECIFICATION FairSpec
CONSTANTS
    Platforms <- Every
    QueueMax = 2
    Sections <- TwoSections
    CheckMax = 2
    PageRows = 1
    SummaryIdle = 2
    DetailIdle = 1
    RepeatDelay = 1
    RepeatEvery = 2
    Inputs <- Presses
    Modes = {"suite", "serve", "headless"}
INVARIANTS OutputAnswered NoTearing FreshOrBlank PresentedIsSeen CompleteIsDone
PROPERTIES  EveryPageComesRound
CHECK_DEADLOCK FALSE
