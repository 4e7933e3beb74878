SPECIFICATION Spec
CONSTANTS
    r1 = r1
    r2 = r2
    t = t
    s = s
    g1 = g1
    g2 = g2
    DayLength = 2
    Offset = 1
    Cutoff = 1
    DueTime = 1
    Account = {t, s}
    Group = {g1, g2}
    Request <- Requests
    NoGroup = NoGroup
    NoWeek = NoWeek
    InitialAccounts <- Accounts
    Offered <- Offers
    Author = {t}
    Published <- Targets
    AdminUpdates <- Updates
    Uuid <- Ids
    FirstTime = 12
    MaxTime = 13
    MaxLag = 1
    MaxReplies = 2
    MaxEvents = 3
SYMMETRY Symmetry
INVARIANTS
    BadgeAgreesWithItems
    PagesSkipNothing
    FeedScope
    ReaderSeesForward
CHECK_DEADLOCK FALSE
