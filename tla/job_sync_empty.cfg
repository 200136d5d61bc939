SPECIFICATION Spec
CONSTANTS
    b1 = b1
    b2 = b2
    Bpp = {b1}
    Job = {1, 2}
    Home <- OneHome
    Limit = 1
    MaxTxn = 1
    Handler = {h1}
    MaxDups = 0
    MaxFaults = 0
    MaxChanges = 0
    NoMsg = NoMsg
INVARIANTS
    OpenJobsSynced
CHECK_DEADLOCK FALSE
