CONSTANTS
    i1 = i1
    i2 = i2
    m1 = m1
    m2 = m2
    b1 = b1
    b2 = b2
    e1 = e1
    e2 = e2
    e3 = e3
    p1 = p1
    p2 = p2
    None = None
    Whole = Whole
    Bad = Bad
    Link = Link
    Images = {i1}
    Manifests = {m1}
    Entries = {e1, e2, e3}
    Blobs = {b1, b2}
    ManifestsOf <- OneImage
    EntriesOf <- TwoTools
    DigestOf <- Repeating
    Procs = {p1}
    MaxOps = 1
    MaxFaults = 0
SPECIFICATION Spec
CHECK_DEADLOCK FALSE
INVARIANT PulledIsWhole
