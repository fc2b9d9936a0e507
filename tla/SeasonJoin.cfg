SPECIFICATION Spec
CONSTANTS
    Users = {p1, p2}
    p1 = p1
    p2 = p2
    small = small
    free = free
    Seasons = {small, free}
    Limit <- TwoLimits
    Req = {r1, r2, r3}
    r1 = r1
    r2 = r2
    r3 = r3
    MaxRows = 3
    Nothing = Nothing
SYMMETRY Symmetry
INVARIANTS
    LimitHeld
    JoinsOnce
