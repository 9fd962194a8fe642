CONSTANTS
    h1 = h1
    h2 = h2
    h3 = h3
    j1 = j1
    j2 = j2
    None = None
    Hosts = {h1, h2, h3}
    Jumps = {j1, j2}
    Routings <- TwoRoutings
    Concurrency = 2
    HostHealth = {"good", "status", "refuses", "silent", "panics"}
    JumpHealth = {"good", "refuses", "silent"}
SPECIFICATION FairSpec
CHECK_DEADLOCK FALSE
INVARIANTS
    SummaryIsRight
PROPERTY
    OthersAreJoined
