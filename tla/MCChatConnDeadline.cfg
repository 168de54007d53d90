SPECIFICATION Spec
CONSTANTS
    a = a
    b = b
    Chats = {a, b}
    MaxRetries = 0
    StatusRetries = 0
    MaxFlips = 2
    Endings = {"deadline"}
PROPERTY ContextIsNoOutage
CHECK_DEADLOCK FALSE
