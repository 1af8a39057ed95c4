SPECIFICATION DatabaseSpec
CONSTANTS
    \* SyncQueue
    clickup = clickup
    other = other
    t1 = t1
    t2 = t2
    u1 = u1
    w1 = w1
    w2 = w2
    Entity = {t1, t2, u1}
    Provider = {clickup, other}
    ProviderOf <- MCProviderOf
    Owner = {w1, w2}
    NoOwner = NoOwner
    NoEntity = NoEntity
    MaxOps = 3
    LeaseTTL = 2
    MaxDelay = 1
    AttemptCap = 1
    \* EntityStore
    c1 = c1
    c2 = c2
    Caller = {c1, c2}
    ProviderId = {"local", "clickup"}
    Local = "local"
    Remote = {"r1", "r2"}
    NoRemote = NoRemote
    MaxRows = 6
    MaxCalls = 3
INVARIANTS
    ClaimedInOrder
    OneInFlightPerEntity
    ShownStateMatchesFlight
    
    OnlyRivalsLose
PROPERTIES
    OnlyStaleUpdatesRevive
CHECK_DEADLOCK FALSE
SYMMETRY DatabaseSymmetry
