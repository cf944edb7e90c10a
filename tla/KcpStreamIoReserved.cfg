SPECIFICATION FairSpec
CONSTANTS
    MaxFrame = 2
    InCap = 2
    OutCap = 2
    Total = 1
    MaxIn = 0
PROPERTY AlwaysCloses
