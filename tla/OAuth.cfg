SPECIFICATION Spec
CONSTANTS
    Browsers = {b1}
    b1 = b1
    Users = {p1, p2}
    p1 = p1
    p2 = p2
    c1 = c1
    c2 = c2
    u1 = u1
    u2 = u2
    Clients = {c1, c2}
    Uris = {u1, u2}
    Callbacks <- TwoCallbacks
    Keys = {k1}
    k1 = k1
    Req = {r1, r2}
    r1 = r1
    r2 = r2
    CodeLife = 1
    MaxCodes = 2
    MaxTime = 2
    Nothing = Nothing
SYMMETRY Symmetry
INVARIANTS
    OneTokenPerCode
    TokenAsAsked
PROPERTIES
    ImplementsVoucher
