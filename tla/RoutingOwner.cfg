SPECIFICATION Spec
CONSTANTS
    s1 = s1
    s2 = s2
    s3 = s3
    s4 = s4
    Stack = {s1, s2}
    Order <- TwoStacks
    Strange = Strange
    NoStack = NoStack
    MaxRequests = 1
INVARIANTS
    OwnerNotTriedAgain
CHECK_DEADLOCK FALSE
