SPECIFICATION DnsFairSpec
CONSTANTS
    c1 = c1
    c2 = c2
    s1 = s1
    s2 = s2
    id1 = id1
    id2 = id2
    other = other
    NULL = NULL
    Name = {c1, c2, s1, s2}
    Router = {}
    ServFiles <- MCServFiles
    LsaFiles <- MCLsaFiles
    Garbage <- MCGarbage
    QueryLimit = 4
    Resolver = {c1, c2}
    Host = {VIDEO_HOST, other}
    VIDEO_HOST = VIDEO_HOST
    Hosts <- MCHosts
    Id = {id1, id2}
    RandAt <- MCRandAt
    Stray = {0, 1}
    NS = NS
    MaxTime = 1
    MaxAsks <- MCMaxAsks
    MaxFaults <- MCMaxFaults
CHECK_DEADLOCK FALSE
INVARIANTS
    DnsTypeOK
    RightServer
    SurplusStays
PROPERTIES
    ResolveSpec
    Undisturbed
    LookupEnds
