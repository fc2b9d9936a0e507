SPECIFICATION ConSpec
CONSTANTS
    Mails = {m1}
    m1 = m1
    Texts = {t1, t2}
    t1 = t1
    t2 = t2
    Codes = {c1}
    c1 = c1
    Clients = {k1}
    k1 = k1
    ConReq = {r1, r2}
    r1 = r1
    r2 = r2
    MaxDevs = 2
    MaxGames = 2
    MaxEdited = 1
    MaxSettings = 1
    MaxApps = 2
    MaxCalls = 7
    NoValue = NoValue
SYMMETRY Symmetry
INVARIANTS
    ActiveIsReviewed
    SecondRowIsDead
    KeysDistinct
