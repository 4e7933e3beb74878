SPECIFICATION Spec
CONSTANTS
    r1 = r1
    r2 = r2
    r3 = r3
    k = k
    a = a
    b = b
    old = old
    new = new
    NoSession = NoSession
    Request <- Requests
    InitialToken = {k}
    Password = {old, new}
    Name = {old, new}
    InitialOwner <- Owner
    Account = {a}
    InitialAccounts <- OutdatedAccount
    Offered <- RehashOffers
    SessionTTL = 2
    ForceTTL = 3
    RenewalWindow = 1
    MaxTime = 0
    MaxChanges = 0
SYMMETRY Symmetry
INVARIANTS
    ChosenPasswordStands
CHECK_DEADLOCK FALSE
