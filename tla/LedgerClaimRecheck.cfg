SPECIFICATION FairSpec
CONSTANTS
    Users = {u1}
    u1 = u1
    Amounts = {1}
    Opening = 1
    Req = {r1}
    r1 = r1
    ChanCap = 1
    Redelivery = FALSE
    CheckLimit = 3
    Kinds = {"Freeze", "Withdraw"}
    MaxFlows = 2
    MaxTx = 2
    MaxCrashes = 1
    NoRow = NoRow
PROPERTIES
    PendingIsRechecked
