SPECIFICATION FairSpec
CONSTANTS
    FD_SETSIZE = 3
    FdLimit = 3
    AliasFd = 63
    b1 = b1
    s1 = s1
    s2 = s2
    v1 = v1
    v2 = v2
    NULL = NULL
    Addr = {b1, s1, s2}
    ClitAddr = {b1}
    SrvAddr = {s1}
    Videos = {v1}
    Requests <- FragRequests
    Faults = {"srv_fin"}
    Residue = {"empty"}
    MaxAccepts = 1
    MaxReq = 1
    MaxStops = 1
CHECK_DEADLOCK FALSE
PROPERTY LoopReturns
