SPECIFICATION Spec
CONSTANTS
    Job = {j1, j2}
    Task = {t1, t2}
    MaxId = 2
    MaxText = 2
    MaxTroubles = 1
    MaxRebuilds = 0
    NoJob = NoJob
    NoVector = NoVector
SYMMETRY Symmetry
INVARIANTS
    SearchComplete
    SearchClean
    EmbeddingCurrent
PROPERTIES
    SearchSteady
CHECK_DEADLOCK FALSE
