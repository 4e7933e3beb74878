SPECIFICATION FairSpec
CONSTANTS
    r1 = r1
    r2 = r2
    r3 = r3
    a = a
    b = b
    k = k
    d = d
    x = x
    NoGroup = NoGroup
    Absent = Absent
    Request = {r1, r2, r3}
    Account = {x}
    InitialGroup = {a, b, k, d}
    InitialParents <- Parents
    InitialHomes <- Homes
    TargetGroup = {d}
    Offered <- Offers
INVARIANTS
    ReferencesExist
    CyclesOnlyFromOverlap
    AnswersTellOutcome
PROPERTIES
    EveryRequestAnswered
CHECK_DEADLOCK FALSE
