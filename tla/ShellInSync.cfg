SPECIFICATION Spec
CONSTANTS
    c1 = c1
    c2 = c2
    Call = {c1, c2}
    NoCall = NoCall
    Closer = Closer
    MaxLines = 1
    MaxTricks = 1
INVARIANTS
    InSync
CHECK_DEADLOCK FALSE
