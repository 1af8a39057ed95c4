SPECIFICATION TerminalSpec
CONSTANTS
    \* TaskRows: two groups, a panel of two lines, one snapshot
    Task = {1, 2, 3}
    Value = {1, 2}
    Height = {2}
    MaxChanges = 1
    \* TaskQuery
    Words = {"status", "open"}
    Fragments = {"o", "s", "status"}
    Statuses = {"open", "or"}
    MaxTokens = 4
    Begins <- MCBegins
    \* ListViews
    List = {1, 2}
    Column = {1, 2}
    Lost = Lost
    MaxViewChanges = 2
    \* TaskEditor
    t1 = t1
    t2 = t2
    Item = {t1, t2}
    Text = {1}
    Status = {"open", "done"}
    Due = {1}
    NoDue = 0
    NoItem = NoItem
    Malformed = Malformed
    NoEditor = NoEditor
    MaxPulls = 1
    MaxEdits = 2
INVARIANTS
    MarkIsTarget
    NothingIsLost
    ParserFollowsGrammar
    OffersAreAccepted
    ViewsFollowTheUser
    EditReachesItsTask
CHECK_DEADLOCK FALSE
