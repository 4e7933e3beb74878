SPECIFICATION Spec
CONSTANTS
    r1 = r1
    r2 = r2
    r3 = r3
    p = p
    q = q
    l = l
    v = v
    confirm = confirm
    reply = reply
    Open = Open
    Keep = Keep
    Gone = Gone
    Request <- Requests
    Bit = {confirm, reply}
    Position = {p, q}
    Role = {l}
    InitialBits <- Masks
    InitialPosition = p
    InitialRoles = {l}
    InitialOverrides <- Overrides
    Offered <- Offers
    MaxTime = 1
SYMMETRY Symmetry
INVARIANTS
    MaskWithinRead
    OneWriteIsAtomic
    ReferencesExist
    WindowsSound
CHECK_DEADLOCK FALSE
