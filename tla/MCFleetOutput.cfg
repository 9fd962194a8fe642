CONSTANTS
    hit = hit
    miss = miss
    Tokens = {"a", "b", "c", "e", "proto", "nl"}
    Hosts = {hit, miss}
    Probed = {hit}
    Text <- Texts
    Cap = 1
    MaxMessage = 3
    MayBeLost = {miss}
SPECIFICATION FairSpec
CHECK_DEADLOCK FALSE
INVARIANTS
    LinesAreWhole
    NothingIsLost
PROPERTY
    SummaryIsPrinted
