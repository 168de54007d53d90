SPECIFICATION Spec
CONSTANTS
    long = long
    short = short
    Chats = {long, short}
    Vendors = {"anthropic", "hosted", "bedrock", "vertex"}
    Blocks = {1, 2}
    MaxItems <- MCMaxItems
INVARIANTS
    OneProbe
    Translated
PROPERTY KeepsContract
CHECK_DEADLOCK FALSE
