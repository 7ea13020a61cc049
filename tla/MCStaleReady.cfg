SPECIFICATION Spec
CONSTANTS
    FD_SETSIZE = 5
    FdLimit = 5
    AliasFd = 63
    b1 = b1
    s1 = s1
    s2 = s2
    v1 = v1
    v2 = v2
    NULL = NULL
    Addr = {b1, s1, s2}
    ClitAddr = {b1}
    SrvAddr = {s1}
    Videos = {v1}
    Requests <- MixedRequests
    Faults = {}
    Residue = {"empty"}
    MaxAccepts = 2
    MaxReq = 2
    MaxStops = 0
CHECK_DEADLOCK FALSE
INVARIANT ReadReady
