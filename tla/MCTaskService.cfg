SPECIFICATION MCSpec
CONSTANTS
    \* TaskService: two callers, three lists of two providers, three commands
    Caller = {c1, c2}
    ProviderOf <- MCProviderOf
    Local = Local
    Item = {i1, i2}
    Title = {plain, edited}
    NoRow = NoRow
    MaxTasks = 3
    MaxCommands = 3
    \* RemoteCalls
    Sender = {1, 2, 3}
    Pusher = 1
    Timeout = 4
    Schedule <- MCSchedule
    RetryAfters = {0, 3}
    MaxClock = 6
    \* TaskScreen
    Task = {1, 2}
    List = {1, 2}
    Found = {1}
    Kept = {2}
    Membership = {{}, {1}}
    PageSize = 1
    MaxCalls = 1
    MaxChanges = 1
INVARIANTS
    ItemsSurvive
    QueueTellsTheRow
    OnePerInterval
PROPERTIES
    RateLimitIsKept
    DeleteHitsPromptedTask
    EditKeepsTask
CHECK_DEADLOCK FALSE
