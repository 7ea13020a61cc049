SPECIFICATION TableSpec
CONSTANTS
    FD_SETSIZE = 4
    FdLimit = 4
    AliasFd = 2
    a1 = a1
    a2 = a2
    Addr = {a1, a2}
    NULL = NULL
CHECK_DEADLOCK FALSE
INVARIANT ClientsWatched
