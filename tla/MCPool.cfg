SPECIFICATION FairSpec
CONSTANTS
    c1 = c1
    c2 = c2
    c3 = c3
    c4 = c4
    Calls = {c1, c2, c3, c4}
    NoCall = NoCall
    Size = 2
    QueueTimeout = 1
    MaxUses = 2
INVARIANTS
    SlotsCounted
    SendNeverBlocks
PROPERTIES
    SlotsSpec
    ParkedReturns
CHECK_DEADLOCK FALSE
