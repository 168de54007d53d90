SPECIFICATION Spec
CONSTANTS
    Procs = {p, q}
    NoVersion = NoVersion
    MaxUserVersion = 10
    MaxRuns = 1
    Releases <- MCShort
PROPERTY RunsOnlyIfBehind
CHECK_DEADLOCK FALSE
