SPECIFICATION FairSpec
CONSTANTS
    b1 = b1
    b2 = b2
    Bpp = {b1, b2}
    Job = {1, 2, 3}
    Home <- TwoHomes
    Limit = 1
    MaxTxn = 1
    Handler = {h1, h2}
    MaxDups = 1
    MaxFaults = 0
    MaxChanges = 0
    NoMsg = NoMsg
PROPERTIES
    EveryRefreshCompletes
    
CHECK_DEADLOCK FALSE
