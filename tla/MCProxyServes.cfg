SPECIFICATION FairSpec
CONSTANTS
    FD_SETSIZE = 5
    FdLimit = 5
    AliasFd = 63
    b1 = b1
    s1 = s1
    s2 = s2
    v1 = v1
    v2 = v2
    NULL = NULL
    Addr = {b1, s1, s2}
    ClitAddr = {b1}
    SrvAddr = {s1}
    Videos = {v1, v2}
    Requests <- ServesRequests
    Faults = {"idle_close"}
    Residue = {"empty"}
    MaxAccepts = 2
    MaxReq = 2
    MaxStops = 2
CHECK_DEADLOCK FALSE
INVARIANTS
    AnswersOwn
    RequestTracked
PROPERTIES
    Served
    LoopReturns
