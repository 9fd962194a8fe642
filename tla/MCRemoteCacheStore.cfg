CONSTANTS
    c1 = c1
    c2 = c2
    v1 = v1
    v2 = v2
    p1 = p1
    p2 = p2
    None = None
    Clients = {c1, c2}
    Mode <- TtyFleet
    Pids = {p1, p2}
    Versions = {v1}
    Size = 1
    MaxBuilds = 1
    Faults = {"read_error", "connection_lost", "cat_fails", "signal", "killed"}
SPECIFICATION FairSpec
CHECK_DEADLOCK FALSE
PROPERTIES
    ImplementsStore
    ClientsFinish
