SPECIFICATION FairSpec
CONSTANTS
    q1 = q1
    q2 = q2
    Runner = {1, 2}
    Start = {0, 1, 2}
    PageLimit = 1
    Request = {q1, q2}
INVARIANTS
    TypeOK
    NoneMissed
    MetOnce
PROPERTIES ScanEnds
