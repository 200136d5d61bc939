SPECIFICATION Spec
CONSTANTS
    Job = {j1}
    Task = {t1}
    MaxId = 1
    MaxText = 1
    MaxTroubles = 0
    MaxRebuilds = 0
    NoJob = NoJob
    NoVector = NoVector
SYMMETRY Symmetry
INVARIANTS
    ActiveJobsFindable
CHECK_DEADLOCK FALSE
