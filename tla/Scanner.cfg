SPECIFICATION ScanFairSpec
CONSTANTS
    MaxSlot = 6
    w1 = w1
    w2 = w2
    Other = Other
    TargetMint = "mint"
    Wallets = {w1, w2}
    Block <- SixSlots
    StartSlot = 1
    SaveEveryN = 2
    MaxCrashes = 2
INVARIANTS
    
    RepeatedOnlyByRestart
PROPERTIES
    CatchesUp
