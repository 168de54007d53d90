SPECIFICATION FairChatSpec
CONSTANTS
    c1 = c1
    c2 = c2
    Calls = {c1, c2}
    NoCall = NoCall
    Size = 0
    QueueTimeout = 0
    MaxUses = 2
    MaxEvents = 2
    InnerCap = 1
    OutCap = 1
INVARIANTS
    StreamHoldsSlot
    EndedHoldsNothing
    NothingLost
PROPERTIES
    UsesPool
    BreakFreesSlot
    NextServed
CHECK_DEADLOCK FALSE
