SPECIFICATION FairSpec
CONSTANTS
    a = a
    b = b
    Chats = {a, b}
    MaxRetries = 0
    StatusRetries = 0
    MaxFlips = 2
    Endings = {}
PROPERTY MarkerClears
CHECK_DEADLOCK FALSE
