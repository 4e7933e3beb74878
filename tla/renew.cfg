SPECIFICATION Spec
CONSTANTS
    r1 = r1
    r2 = r2
    r3 = r3
    k = k
    a = a
    b = b
    old = old
    new = new
    NoSession = NoSession
    Request <- Requests
    InitialToken = {k}
    Password = {old, new}
    Name = {old, new}
    InitialOwner <- Owner
    Account = {a}
    InitialAccounts <- RenewAccounts
    Offered <- RenewOffers
    SessionTTL = 3
    ForceTTL = 5
    RenewalWindow = 2
    MaxTime = 5
    MaxChanges = 0
SYMMETRY Symmetry
INVARIANTS
    EndedSessionsServeNobody
    PrincipalsOK
    ExpiryWithinGrant
PROPERTIES
    RevokedIsFinal
CHECK_DEADLOCK FALSE
