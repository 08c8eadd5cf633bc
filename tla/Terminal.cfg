SPECIFICATION FairSpec
CONSTANTS
    l1 = l1
    l2 = l2
    Loop = {l1, l2}
    Run = Run
INVARIANTS
    TypeOK
    OneActivity
    OnlyTakenAway
    SignalIsMinded
PROPERTIES
    Usable
