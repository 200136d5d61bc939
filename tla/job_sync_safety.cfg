SPECIFICATION Spec
CONSTANTS
    b1 = b1
    b2 = b2
    Bpp = {b1}
    Job = {1, 2}
    Home <- OneHome
    Limit = 1
    MaxTxn = 2
    Handler = {h1, h2}
    MaxDups = 1
    MaxFaults = 1
    MaxChanges = 1
    NoMsg = NoMsg
SYMMETRY HandlersAlike
INVARIANTS
    TypeOK
    CleanUpSeesEveryPage
    PageAskedOnce
    PurgeSparesActiveJobs
    CleanRunSyncs
CHECK_DEADLOCK FALSE
