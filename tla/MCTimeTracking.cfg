SPECIFICATION MCSpec
CONSTANTS
    \* TimeTracking
    local = local
    remote = remote
    unknown = unknown
    NoTask = NoTask
    LocalTask = {local}
    RemoteTask = {remote}
    Uncached = {unknown}
    MaxClock = 2
    MaxActs = 3
    MaxTrackingFaults = 1
    \* EventStream
    worker = worker
    fetch = fetch
    Emitter = {worker, fetch}
    NoOne = NoOne
    Cap = 3
    MaxRuns = 4
INVARIANTS
    TimeIsCountedOnce
    ViewIsFreshAtRest
PROPERTIES
    SessionFollowsTimer
    EveryRunIsShown
