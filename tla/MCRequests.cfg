INIT ConversationInit
NEXT ConversationNext
CONSTANTS
    Specimens = {}
    Vendors = {"vertex"}
    Settings <- MCSettings
    Drafts <- MCRounds
    MaxHistory = 6
    NoRequest = NoRequest
INVARIANT NamesRecovered
CHECK_DEADLOCK FALSE
