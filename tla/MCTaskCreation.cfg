SPECIFICATION FairSpec
CONSTANTS
    p1 = p1
    p2 = p2
    t1 = t1
    others = others
    Process = {p1, p2}
    Puller = {p1}
    Task = {t1}
    Others = others
    MaxRemote = 2
    MaxEdits = 1
    MaxFaults = 2
INVARIANTS
    OneTaskEach
    UpdatesKnowTheirTask
PROPERTIES
    EveryTaskIsShown
CHECK_DEADLOCK FALSE
