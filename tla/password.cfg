SPECIFICATION Spec
CONSTANTS
    r1 = r1
    r2 = r2
    r3 = r3
    k = k
    a = a
    b = b
    old = old
    new = new
    NoSession = NoSession
    Request <- Requests
    InitialToken = {k}
    Password = {old, new}
    Name = {old, new}
    InitialOwner <- Owner
    Account = {a, b}
    InitialAccounts <- PasswordAccounts
    Offered <- PasswordOffers
    SessionTTL = 2
    ForceTTL = 2
    RenewalWindow = 2
    MaxTime = 1
    MaxChanges = 1
SYMMETRY Symmetry
INVARIANTS
    ChangeEndsSessions
    ChosenPasswordStands
    SessionsHaveAccounts
CHECK_DEADLOCK FALSE
