SPECIFICATION MCSpec
CONSTANTS
    j1 = j1
    j2 = j2
    c1 = c1
    c2 = c2
    w1 = w1
    w2 = w2
    s1 = s1
    Job = {j1, j2}
    Command = {c1, c2}
    Worker = {w1, w2}
    Stopper = {s1}
    MaxEngineRuns = 2
    \* Setup
    Url = {"default", "own"}
    DefaultUrl = "default"
    Workspace = {"w"}
    NoFile = NoFile
    NoRow = NoRow
    Written <- MCWritten
    Exported <- MCExported
    MaxStarts = 3
INVARIANTS
    StoreOutlivesSync
    EngineOwnsWorkers
    PromptIsEnough
    SetupOpens
PROPERTIES
    ShutdownEnds
CHECK_DEADLOCK FALSE
