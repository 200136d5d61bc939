SPECIFICATION FairSpec
CONSTANTS
    c1 = c1
    c2 = c2
    c3 = c3
    t1 = t1
    t2 = t2
    Call = {c1, c2, c3}
    Kind <- Kinds
    TxnOf <- Txns
    MaxDups = 1
    NoCall = NoCall
INVARIANTS
    TypeOK
    OwnAnswerOnly
    OnlyTheseLeak
    SenderAccounted
PROPERTIES
    KeepsPromise
    WaitingEnds
CHECK_DEADLOCK FALSE
