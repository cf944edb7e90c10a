SPECIFICATION FairSpec
CONSTANTS
    MaxFrame = 2
    InCap = 2
    OutCap = 2
    Total = 5
    MaxIn = 3
INVARIANTS IoInv ReadOnce
PROPERTY CloseReturns
