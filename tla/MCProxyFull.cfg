SPECIFICATION Spec
CONSTANTS
    FD_SETSIZE = 3
    FdLimit = 3
    AliasFd = 63
    b1 = b1
    s1 = s1
    s2 = s2
    v1 = v1
    v2 = v2
    NULL = NULL
    Addr = {b1, s1, s2}
    ClitAddr = {b1}
    SrvAddr = {s1, s2}
    Videos = {v1}
    Requests <- FullRequests
    Faults = {"clit_fin", "refuse", "slow"}
    Residue = {"empty", "crlf", "get", "line", "flag"}
    MaxAccepts = 1
    MaxReq = 3
    MaxStops = 1
SYMMETRY SrvSymmetry
CHECK_DEADLOCK FALSE
INVARIANTS
    NoneSkipped
