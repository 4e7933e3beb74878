SPECIFICATION Spec
CONSTANTS
    DayLength = 6
    Offset = 2
    Cutoff = 3
    DueTime = 3
    r1 = r1
    r2 = r2
    r3 = r3
    t = t
    s1 = s1
    s2 = s2
    g1 = g1
    g2 = g2
    office = office
    NoGroup = NoGroup
    Request <- Requests
    Account = {t, s1, s2}
    Group = {g1, g2, office}
    InitialGroups <- GroupTypes
    InitialAccounts <- Accounts
    Offered <- Offers
    AdminUpdates <- Updates
    MaxTime = 2
    MaxChanges = 1
SYMMETRY Symmetry
INVARIANTS
    InFlightOK
    ConfirmedOnce
    ThreadsClosed
    TargetsExist
    ConfirmationsAnswerTargets
    AnswerTellsOutcome
PROPERTIES
    StoredRowsWereAuthorized
    ShownScope
CHECK_DEADLOCK FALSE
