SPECIFICATION MCSpec
CONSTANTS
    s1 = s1
    s2 = s2
    l1 = l1
    l2 = l2
    Space = {s1, s2}
    List = {l1, l2}
    Task <- MCTask
    NoTask = 0
    Nowhere = Nowhere
    PageSize = 1
    MaxRemote = 2
    MaxEdits = 0
    MaxFaults = 0
PROPERTIES
    MovedTaskIsKept
