SPECIFICATION Spec
CONSTANTS
    Req = {r1, r2}
    r1 = r1
    r2 = r2
    Prices = {0, 1}
    Scores = {0, 1}
    Deposits = {1}
    MaxCredit = 2
    MaxSessions = 2
    MaxFlows = 4
SYMMETRY Symmetry
INVARIANTS
    TypeOK
    FrozenMatchesFlows
    ChargedOnce
    Conserved
    EndedSessionWasCharged
PROPERTIES
    ImplementsEscrow
