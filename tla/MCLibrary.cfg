INIT Init
NEXT Next
CONSTANTS
    Procs = {p, q}
    NoVersion = NoVersion
    MaxUserVersion = 10
    MaxRuns = 2
    Releases <- MCReleases
    Registries = {root, child}
    Root = root
    Names = {1, 2}
    Versions = {v}
    Callers = {c1, c2}
    NoDefs = NoDefs
    Nobody = Nobody
    MaxIndex = 1
    Ids = {"x"}
    Pieces = {"a", "b"}
    MaxFragments = 3
    Runes = {1, 2}
    MaxTail = 6
    CheckEvery = 2
    MinRepeatLen = 4
    MinReps = 3
    MaxCycle = 2
    Shingle = 2
    Stride = 1
    Window = 5
    ScanEvery = 2
    Persist = 2
    FloorNum = 4
    FloorDen = 5
    MaxPiece = 2
    MaxFed = 9
    PrefixLen = 2
    MaxMessage = 2
    MaxFrames = 3
    Specimens <- MCSpecimens
    Vendors = {"anthropic", "bedrock", "vertex"}
    Settings <- MCSettings
    Drafts <- MCDrafts
    MaxHistory = 5
    NoRequest = NoRequest
    Setters = {s1, s2}
    Loggers = {l1}
    MaxOpened = 3
    MaxTokens = 5
INVARIANTS
    CursorNamesLast
    SuccessApplies
    Snapshots
    CallsAsStreamed
    CutsOnlyLoops
    LoopsAreCut
    FramesArrive
    HopsKeepMeaning
    RoundsAnswered
    PrefixStable
    NothingDropped
    WithinLimits
    LogFollows
    InlineRecovered
PROPERTY CursorAdvances
CHECK_DEADLOCK FALSE
