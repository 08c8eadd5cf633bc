SPECIFICATION FairSpec
CONSTANTS
    r1 = r1
    r2 = r2
    r3 = r3
    Request = {r1, r2, r3}
    NoShell = NoShell
    One = 2
    Threshold = 1
INVARIANTS
    TypeOK
    OnlySafeRuns
    ClosedOnce
    CleanReturn
    NothingLeft
PROPERTIES
    SignalHeeded
    
    
CHECK_DEADLOCK FALSE
