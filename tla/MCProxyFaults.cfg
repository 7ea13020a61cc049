SPECIFICATION Spec
CONSTANTS
    FD_SETSIZE = 4
    FdLimit = 4
    AliasFd = 63
    b1 = b1
    s1 = s1
    s2 = s2
    v1 = v1
    v2 = v2
    NULL = NULL
    Addr = {b1, s1, s2}
    ClitAddr = {b1}
    SrvAddr = {s1, s2}
    Videos = {v1}
    Requests <- FaultsRequests
    Faults = {"srv_fin", "srv_rst", "close", "clit_fin", "clit_rst", "refuse", "accept"}
    Residue = {"empty"}
    MaxAccepts = 2
    MaxReq = 2
    MaxStops = 2
SYMMETRY SrvSymmetry
CHECK_DEADLOCK FALSE
INVARIANTS
    HandsOn
    NoneSkipped
    ThruFound
