------------------------------- MODULE MCDns -------------------------------
(***************************************************************************)
(* Two programs and two servers for TLC.  Each program has a server of its *)
(* own, or c2 advertises itself without a neighbour and c1 not at all.     *)
(***************************************************************************)
EXTENDS Dns

CONSTANTS c1, c2, s1, s2, id1, id2, other

Line(name, nbrs) == [name |-> name, seq_num |-> 1, neighbors |-> nbrs,
                   fields |-> IF nbrs = <<>> THEN 2 ELSE 3]

MCServFiles == {<<s1, s2>>}
MCLsaFiles == {<<Line(c1, <<s1>>), Line(c2, <<c1, s2>>)>>, <<Line(c2, <<>>)>>}
MCGarbage == {<<>>}
MCHosts == [p \in Resolver |-> IF p = c1 THEN {VIDEO_HOST, other} ELSE {VIDEO_HOST}]
MCMaxAsks == [p \in Resolver |-> IF p = c1 THEN 2 ELSE 1]
MCMaxFaults == [p \in Resolver |-> IF p = c1 THEN 1 ELSE 0]
MCRandAt == [t \in 0 .. MaxTime |-> IF t = 0 THEN id1 ELSE id2]
=============================================================================
