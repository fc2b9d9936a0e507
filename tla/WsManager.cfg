SPECIFICATION WsFairSpec
CONSTANTS
    Conns = {w1, w2}
    w1 = w1
    w2 = w2
    Keys = {k1, k2}
    k1 = k1
    k2 = k2
    Callers = {t1, t2}
    t1 = t1
    t2 = t2
    MaxChatCalls = 3
INVARIANTS
    MapsAgree
PROPERTIES
    GoneIsRemoved
CHECK_DEADLOCK FALSE
