SPECIFICATION Spec
CONSTANTS
    r1 = r1
    r2 = r2
    r3 = r3
    t1 = t1
    t2 = t2
    Request = {r1, r2, r3}
    Target <- Targets
    NoTarget = NoTarget
    NoOrder = NoOrder
INVARIANTS
    TypeOK
    OrderedOnceInSequence
    OrphanOrderTold
    
    ConfirmAfterInit
CHECK_DEADLOCK FALSE
