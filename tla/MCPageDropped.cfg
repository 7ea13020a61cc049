SPECIFICATION FairSpec
CONSTANTS
    FD_SETSIZE = 4
    FdLimit = 4
    AliasFd = 63
    b1 = b1
    s1 = s1
    s2 = s2
    v1 = v1
    v2 = v2
    NULL = NULL
    Addr = {b1, s1, s2}
    ClitAddr = {b1}
    SrvAddr = {s1, s2}
    Videos = {v1}
    Requests <- PageRequests
    Faults = {}
    Residue = {"empty"}
    MaxAccepts = 1
    MaxReq = 2
    MaxStops = 0
CHECK_DEADLOCK FALSE
PROPERTY Served
