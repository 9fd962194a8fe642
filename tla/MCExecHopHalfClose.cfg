CONSTANTS
    h1 = h1
    h2 = h2
    h3 = h3
    h4 = h4
    None = None
    Entry = Entry
    Local = Local
    Hosts = {h1, h2, h3, h4}
    Configs <- OnlyChain
    Jobs <- OnlyTunnel
    MaxHops = 3
    Cap = 1
    Sizes = {0, 2}
    MaxEdits = 0
    Faults = {}
SPECIFICATION Spec
CHECK_DEADLOCK FALSE
INVARIANTS
    HalfClosePreserved
