CONSTANTS
    c1 = c1
    c2 = c2
    v1 = v1
    v2 = v2
    p1 = p1
    p2 = p2
    None = None
    Clients = {c1, c2}
    Mode <- TtyFleet
    Pids = {p1, p2}
    Versions = {v1, v2}
    Size = 2
    MaxBuilds = 1
    Faults = {"read_error", "connection_lost", "cat_fails", "signal", "killed"}
SPECIFICATION Spec
CHECK_DEADLOCK FALSE
INVARIANTS
    TypeOK
    CommittedIsWhole
    NoSilentCorruption
    ReadyToRun
    RanWhatWasHashed
    TempsAccountedFor
SYMMETRY BuildsAndPids
