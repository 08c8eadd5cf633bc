SPECIFICATION FairSpec
CONSTANTS
    s1 = s1
    s2 = s2
    s3 = s3
    s4 = s4
    Stack = {s1, s2, s3, s4}
    Order <- FourStacks
    Strange = Strange
    NoStack = NoStack
    MaxRequests = 1
INVARIANTS
    TypeOK
    AskedOnce
    NoIdleIsTruthful
    JarNamesServer
    SessionKeepsStack
    ReassignIsTold
PROPERTIES
    Answered
CHECK_DEADLOCK FALSE
