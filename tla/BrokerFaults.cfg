SPECIFICATION Spec
CONSTANTS
    r1 = r1
    r2 = r2
    h1 = h1
    h2 = h2
    s1 = s1
    s2 = s2
    q1 = q1
    q2 = q2
    Runner = {r1, r2}
    Host = {h1, h2}
    HostOf <- SharedHost
    Session = {s1}
    Request = {q1, q2}
    NoRunner = NoRunner
    NoSession = NoSession
    NoHost = NoHost
    MaxFaults = 2
SYMMETRY Symmetry
INVARIANTS
    OneRunnerPerSession
    BusyIsAccountedFor
PROPERTIES
    PoolSpec
CHECK_DEADLOCK FALSE
