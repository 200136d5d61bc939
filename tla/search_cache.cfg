SPECIFICATION Spec
CONSTANTS
    Search = {s1, s2, s3}
    Query = {q1, q2}
    Bpp = {b1, b2}
    TxnTtl = 2
    ThrottleTtl = 1
    ResultTtl = 3
    MaxTime = 3
    MaxAnswers = 2
    MaxTroubles = 1
SYMMETRY AllAlike
INVARIANTS
    TypeOK
    ResultsOwnQuery
    ThrottledUnlessRaced
    DroppedOnlyLate
CHECK_DEADLOCK FALSE
