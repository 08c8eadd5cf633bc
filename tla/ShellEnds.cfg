SPECIFICATION FairSpec
CONSTANTS
    c1 = c1
    c2 = c2
    Call = {c1, c2}
    NoCall = NoCall
    Closer = Closer
    MaxLines = 1
    MaxTricks = 1
PROPERTIES
    Ends
CHECK_DEADLOCK FALSE
