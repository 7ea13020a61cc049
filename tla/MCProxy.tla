------------------------------ MODULE MCProxy ------------------------------
(***************************************************************************)
(* Small instances of Proxy for TLC: browsers at one address, web servers  *)
(* at one or two, one or two videos.                                       *)
(***************************************************************************)
EXTENDS Proxy, TLC

CONSTANTS b1, s1, s2, v1, v2

Req(kind, video) == [kind |-> kind, video |-> video]

\* Manifests of one video and fragments of two, a request without a Host line and
\* one that parse_uri refuses.
ServesRequests == {Req("list", v1), Req("frag", v1), Req("frag", v2), Req("nohost", v1),
                   Req("bad", v1)}
FaultsRequests == {Req("list", v1), Req("frag", v1)}
FullRequests   == {Req("list", v1), Req("post", v1)}
ListRequests   == {Req("list", v1), Req("list", v2)}
FragRequests   == {Req("frag", v1)}
PageRequests   == {Req("frag", v1), Req("page", v1)}
MixedRequests  == {Req("frag", v1), Req("nohost", v1)}

SrvSymmetry == Permutations(SrvAddr)
=============================================================================
