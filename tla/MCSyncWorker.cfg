SPECIFICATION MCSpec
CONSTANTS
    clickup = clickup
    t1 = t1
    t2 = t2
    w1 = w1
    w2 = w2
    Entity = {t1, t2}
    Provider = {clickup}
    ProviderOf <- MCProviderOf
    Owner = {w1, w2}
    NoOwner = NoOwner
    NoEntity = NoEntity
    MaxOps = 2
    LeaseTTL = 2
    MaxDelay = 1
    AttemptCap = 1
    Remote = clickup
    MaxAttempts = 0
    MaxFaults = 2
INVARIANTS
    CompletedWasApplied
PROPERTIES
    RemoteNeverGoesBack
    DeliversInOrder
    EverySettled
