SPECIFICATION Spec
CONSTANTS
    Users = {u1}
    u1 = u1
    Amounts = {1}
    Opening = 2
    Req = {r1, r2}
    r1 = r1
    r2 = r2
    ChanCap = 1
    Redelivery = TRUE
    CheckLimit = 3
    Kinds = {"Freeze", "Withdraw", "Unfreeze"}
    MaxFlows = 3
    MaxTx = 2
    MaxCrashes = 0
    NoRow = NoRow
SYMMETRY Symmetry
INVARIANTS
    TypeOK
    
    
    
    

    
