CONSTANTS
    t1 = t1
    t2 = t2
    v1 = v1
    v2 = v2
    p1 = p1
    p2 = p2
    None = None
    Partial = Partial
    Tools = {t1, t2}
    Versions = {v1, v2}
    Procs = {p1, p2}
    Ops = {"resolve", "build", "export", "load", "pack", "unpack"}
    MaxOps = 3
    MaxEdits = 1
    MaxCrashes = 1
SPECIFICATION Spec
CHECK_DEADLOCK FALSE
INVARIANTS
    ManifestIsTrue
    ExportsCanBeLoaded
    BuildFollowsLock
    InstallsAreNotObstructed
SYMMETRY Interchangeable
