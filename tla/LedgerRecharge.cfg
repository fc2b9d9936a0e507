SPECIFICATION FairSpec
CONSTANTS
    Users = {u1}
    u1 = u1
    Amounts = {2}
    Opening = 0
    Req = {r1, r2}
    r1 = r1
    r2 = r2
    ChanCap = 1
    Redelivery = FALSE
    CheckLimit = 3
    Kinds = {"Recharge"}
    MaxFlows = 2
    MaxTx = 2
    MaxCrashes = 1
    NoRow = NoRow
INVARIANTS
    AccountMatchesFlows
    Conserved
PROPERTIES
    
    RechargeIsSettled
