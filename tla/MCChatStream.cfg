SPECIFICATION FairSpec
CONSTANTS
    Chunks <- MCChunks
    MaxChunks = 3
    EventCap = 1
    LoopGuard = TRUE
    StallTimeout = TRUE
    Budget = 1
    Framed = FALSE
INVARIANTS
    EventsFaithful
    EndTellsTruth
    BudgetOnlyThinking
PROPERTIES
    KeepsProtocol
    ParserExits
    CancelEnds
    StallEnds
CHECK_DEADLOCK FALSE
