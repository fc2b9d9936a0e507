SPECIFICATION Spec
CONSTANTS
    Mails = {m1, m2}
    m1 = m1
    m2 = m2
    Passwords = {p1, p2}
    p1 = p1
    p2 = p2
    Codes = {c1}
    c1 = c1
    Req = {r1, r2}
    r1 = r1
    r2 = r2
    MaxSeq = 2
    Opening = 1
    Dates <- TwoDates
    Random <- SameDigits
    Flag = 1
    Seed <- SeedOfCode
    RotByte = 150
    MaxUsers = 2
    MaxCodes = 2
    Nothing = Nothing
SYMMETRY Symmetry
INVARIANTS
    ActiveWasVerified
    NumbersDistinct
PROPERTIES
    ActivationSettles
