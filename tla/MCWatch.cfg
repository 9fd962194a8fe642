CONSTANTS
    h1 = h1
    h2 = h2
    quiet = quiet
    fails = fails
    None = None
    Offline = Offline
    Hosts = {h1, h2}
    Routings <- AllRoutes
    Options <- AllOptions
    Endless <- SomeEndless
    Snapshots = {quiet, fails}
    Good = {quiet}
    Clear = {quiet}
    Faults = {"host_down", "host_silent", "session_breaks", "jump_breaks", "run_fails", "ctrl_c"}
SPECIFICATION FairSpec
CHECK_DEADLOCK FALSE
INVARIANTS
    ReaderKnows
    ExitCodeIsOfLastSnapshot
PROPERTIES
    EventsAreNews
    ReachableTargetsRecover
    CtrlCStops
