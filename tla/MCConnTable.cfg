SPECIFICATION TableSpec
CONSTANTS
    FD_SETSIZE = 4
    FdLimit = 4
    AliasFd = 63
    a1 = a1
    a2 = a2
    Addr = {a1, a2}
    NULL = NULL
INVARIANTS
    TypeOK
    NoDangling
    RefCounts
    FdOwnership
    Watching
    HighWater
    Counters
    SlotsSuffice
    FullByFailures
    ServerLookup
    ClientLookup
PROPERTIES
    StableEndpoints
    ClosedWithLastConn
SYMMETRY AddrSymmetry
CHECK_DEADLOCK FALSE
