SPECIFICATION Spec
CONSTANTS
    Procs = {p}
    NoVersion = NoVersion
    MaxUserVersion = 10
    MaxRuns = 1
    Releases <- MCWide
INVARIANT CursorNamesLast
CHECK_DEADLOCK FALSE
