SPECIFICATION Spec
CONSTANTS
    Job = {j1, j2}
    Task = {t1, t2}
    MaxId = 2
    MaxText = 1
    MaxTroubles = 1
    MaxRebuilds = 2
    NoJob = NoJob
    NoVector = NoVector
SYMMETRY Symmetry
INVARIANTS
    TypeOK
    
    SearchComplete
    SearchClean
CHECK_DEADLOCK FALSE
