---------------------------- MODULE MCThroughput ----------------------------
(* An instance of Throughput for TLC. *)
EXTENDS Throughput, TLC
CONSTANTS c1, c2, h1, h2, s1, s2

MCHostOf == c1 :> h1 @@ c2 :> h2
MCManifests == {<<8, 4, 15>>, <<120>>}
MCSteps == {2, -1}
MCIntMin == -30

\* The servers are alike, and so are the two browsers, each with its host.
Same  == [x \in {c1, c2, h1, h2, s1, s2} |-> x]
Clits == c1 :> c2 @@ c2 :> c1 @@ h1 :> h2 @@ h2 :> h1 @@ Same
Servs == s1 :> s2 @@ s2 :> s1 @@ Same
Symmetry == {Same, Clits, Servs, [x \in DOMAIN Same |-> Clits[Servs[x]]]}
=============================================================================
