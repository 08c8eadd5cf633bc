SPECIFICATION Spec
CONSTANTS
    r1 = r1
    r2 = r2
    h1 = h1
    h2 = h2
    s1 = s1
    s2 = s2
    q1 = q1
    q2 = q2
    Runner = {r1}
    Host = {h1, h2}
    HostOf <- OwnHosts
    Session = {s1}
    Request = {q1}
    NoRunner = NoRunner
    NoSession = NoSession
    NoHost = NoHost
    MaxFaults = 1
PROPERTIES
    ConflictOnlyForOtherAttributes
CHECK_DEADLOCK FALSE
