CONSTANTS
    a1 = a1
    a2 = a2
    b1 = b1
    b2 = b2
    c1 = c1
    c2 = c2
    c3 = c3
    None = None
    Clients = {c1, c2, c3}
    Aliases = {a1, a2}
    Bastions = {b1, b2}
    Plans <- AllPlans
    Saved <- AllSaved
    MaxEdits = 1
    MaxKeys = 3
    OwnKeys = {TRUE, FALSE}
    Faults = {"dies", "write_fails"}
SPECIFICATION Spec
CHECK_DEADLOCK FALSE
INVARIANTS
    TypeOK
    ChangesAreKept
    JumpsAreSavedFirst
    ReadyMeansReachable
    PairsAreWhole
    SetupsSucceed
    StoredPasswordsWorked
