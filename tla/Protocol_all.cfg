SPECIFICATION FairSpec
CONSTANTS
    Scripts <- Sessions
    Conducts <- AnyConduct
    Settings <- All
    MaxSessions = 2
INVARIANTS TypeOK AnswersAreReal DiedIsDeath AcknowledgedAreWritten OneAnswerEach
PROPERTIES DriverEnds ServesAgain
CHECK_DEADLOCK FALSE
