SPECIFICATION FairSpec
CONSTANTS
    a = a
    b = b
    Chats = {a, b}
    MaxRetries = 1
    StatusRetries = 1
    MaxFlips = 2
    Endings = {"canceled", "deadline"}
INVARIANTS
    OneProbe
    PostBudget
    TroubleHasCause
PROPERTIES
    EndedContextReturns
    WatchedClears
CHECK_DEADLOCK FALSE
