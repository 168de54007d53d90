SPECIFICATION Spec
CONSTANTS
    long = long
    short = short
    Chats = {long, short}
    Vendors = {"anthropic"}
    Blocks = {1}
    MaxItems <- MCMaxItems
INVARIANT UsageOnce
CHECK_DEADLOCK FALSE
