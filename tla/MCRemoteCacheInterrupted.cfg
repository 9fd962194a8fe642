CONSTANTS
    c1 = c1
    c2 = c2
    v1 = v1
    v2 = v2
    p1 = p1
    p2 = p2
    None = None
    Clients = {c1, c2}
    Mode <- RunWarm
    Pids = {p1, p2}
    Versions = {v1, v2}
    Size = 2
    MaxBuilds = 0
    Faults = {"read_error"}
SPECIFICATION Spec
CHECK_DEADLOCK FALSE
INVARIANT
    NoPartialContent
