------------------------------- MODULE MCOspf -------------------------------
(***************************************************************************)
(* Networks of two clients, two routers and two servers for TLC.  Router   *)
(* r1 advertises itself twice, in either order or with equal numbers, and  *)
(* a line may be cut short.                                                *)
(***************************************************************************)
EXTENDS Ospf

CONSTANTS c1, c2, r1, r2, s1, s2

Line(name, seq, ns) == [name |-> name, seq_num |-> seq, neighbors |-> ns,
                        fields |-> IF ns = <<>> THEN 2 ELSE 3]
\* The rest of a line that was cut, read as a line of its own.
Rest1 == [name |-> c2, seq_num |-> 0, neighbors |-> <<>>, fields |-> 1]

OfR1 == {<<r2>>, <<s1>>, <<c1, s2>>, <<r2, s1>>, <<r2, c2, r2>>, <<>>}
OfR2 == {<<r1>>, <<s2, s1>>, <<c1, c2>>}

\* Addresses of servers, one of them twice; none.
MCServFiles == {<<s1, s2>>, <<s2, s1, s2>>, <<>>}
MCGarbage == {<<>>, <<r2, s2>>}
MCLsaFiles ==
    {<<k, Line(r1, 1, x), Line(r2, 0, y), Line(r1, n, z), l>> :
        k \in {Line(c1, 1, <<r1, r2>>), Line(c1, 1, <<>>)}, x \in OfR1, y \in OfR2, z \in OfR1, n \in 0 .. 2,
        l \in {Line(c2, 0, <<r2, s2>>), Line(s2, 1, <<c2>>), Rest1}}
=============================================================================
