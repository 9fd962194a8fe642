CONSTANTS
    h1 = h1
    h2 = h2
    h3 = h3
    h4 = h4
    None = None
    Entry = Entry
    Local = Local
    Hosts = {h1, h2, h3, h4}
    Configs <- AllConfigs
    Jobs <- AllJobs
    MaxHops = 3
    Cap = 1
    Sizes = {0, 2}
    MaxEdits = 2
    Faults = {"read_error", "tcp_error", "connection_lost", "refused", "script_fails"}
SPECIFICATION FairSpec
CHECK_DEADLOCK FALSE
INVARIANTS
    TypeOK
    DestinationIsWhole
    EveryLegKnowsItsHost
    EndOfStreamMeansAll
    StagingIsRemoved
PROPERTIES
    HangsAreKnown
