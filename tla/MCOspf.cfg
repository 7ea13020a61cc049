SPECIFICATION OspfFairSpec
CONSTANTS
    c1 = c1
    c2 = c2
    r1 = r1
    r2 = r2
    s1 = s1
    s2 = s2
    NULL = NULL
    Name = {c1, c2, r1, r2, s1, s2}
    Router = {r1, r2}
    ServFiles <- MCServFiles
    LsaFiles <- MCLsaFiles
    Garbage <- MCGarbage
    QueryLimit = 4
CHECK_DEADLOCK FALSE
INVARIANTS
    OspfTypeOK
    GraphSound
    LatestWins
    NearestServer
    AbortJustified
    RoutedToServers
PROPERTY InitEnds
