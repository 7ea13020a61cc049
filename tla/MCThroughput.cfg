SPECIFICATION ThroughputSpec
CONSTANTS
    c1 = c1
    c2 = c2
    h1 = h1
    h2 = h2
    s1 = s1
    s2 = s2
    Client = {c1, c2}
    Host = {h1, h2}
    HostOf <- MCHostOf
    NoAddr = NoAddr
    Server = {s1, s2}
    Sizes = {900, 4000}
    Manifests <- MCManifests
    ALPHA = 1
    SCALE = 2
    INT_MIN <- MCIntMin
    INT_MAX = 29
    FD_SETSIZE = 2
    Steps <- MCSteps
    MaxTicks = 1
    MaxAsks = 3
    MaxFaults = 1
    NULL = NULL
SYMMETRY Symmetry
CHECK_DEADLOCK FALSE
INVARIANTS
    ThroughputTypeOK
    AvgWithinSamples
    EntriesSound
PROPERTIES
    RightRate
    LogOwn
