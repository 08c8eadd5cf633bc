SPECIFICATION FairSpec
CONSTANTS
    c1 = c1
    c2 = c2
    Call = {c1, c2}
    NoCall = NoCall
    Closer = Closer
    MaxLines = 2
    MaxTricks = 1
INVARIANTS
    TypeOK
    OwnLines
    OwnAnswer
    InSyncUnlessTricked
    BrokenForGood
PROPERTIES
    PromiseSpec
    
CHECK_DEADLOCK FALSE
